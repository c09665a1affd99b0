------------------------ MODULE MCClaudeCorrections ------------------------
(***************************************************************************)
(* Instances of ClaudeCorrections: one worker and faults, two workers and  *)
(* lapsing leases, and the owner's switches and stops.                     *)
(***************************************************************************)
EXTENDS ClaudeCorrections
CONSTANTS w1, w2
OneWorker == {w1}
TwoWorkers == {w1, w2}
=============================================================================
