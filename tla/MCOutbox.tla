------------------------------- MODULE MCOutbox -------------------------------
(* Small instances of Outbox: one topic, two interchangeable senders.        *)
EXTENDS Outbox, TLC

CONSTANTS t1

MCTopicOf == [j \in Jobs |-> t1]
MCSymmetry == Permutations(Senders)
=============================================================================
