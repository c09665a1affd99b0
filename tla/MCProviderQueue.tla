--------------------------- MODULE MCProviderQueue ---------------------------
(* Small instances of ProviderQueue: every topic shares one execution scope, *)
(* every binding and every worker belongs to the one agent, codex, which may *)
(* run as many jobs as it has workers.                                       *)
EXTENDS ProviderQueue, TLC

CONSTANTS codex, root

MCScopeOf == [t \in Topics |-> root]
MCAgentOf == [b \in Bindings |-> codex]
MCWorkerAgent == [w \in Workers |-> codex]
MCCapacity == [a \in Agents |-> Cardinality(Workers)]
MCSymmetry == Permutations(Workers)

\* Two sizes that share their small states: jobs of any topics without a stop,
\* and jobs and stops of one topic.
NoStops == \A s \in Stops : stop[s].state = "absent"
OneTopic == \A j \in Jobs : topic[j] = NullTopic

SmallNext == Next /\ (NoStops \/ OneTopic)'
SmallSpec == Init /\ [][SmallNext]_vars
=============================================================================
