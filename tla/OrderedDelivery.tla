---------------------------- MODULE OrderedDelivery ----------------------------
(***************************************************************************)
(* What the delivery of final messages promises to the reader of a         *)
(* Telegram topic, without leases, receipts or recovery: each message      *)
(* becomes visible part by part, in order, each part once; it is reported  *)
(* as delivered only when all of it is visible and as failed only when     *)
(* some of it is not; it may be replaced once by what a later observation  *)
(* of the turn found.                                                      *)
(***************************************************************************)
EXTENDS Naturals, Sequences

CONSTANTS Messages,     \* the jobs whose outcome is delivered
          MaxParts      \* bound on the parts of one message

VARIABLES mail,         \* "none", "open", "delivered" or "failed"
          edition,      \* 1, or 2 after the message was replaced
          size,         \* the number of its parts
          chat          \* the parts the topic shows, per message and edition

dVars == <<mail, edition, size, chat>>

Editions == 1..2
Shown(j) == chat[<<j, edition[j]>>]

DInit ==
    /\ mail = [j \in Messages |-> "none"]
    /\ edition = [j \in Messages |-> 1]
    /\ size = [j \in Messages |-> 1]
    /\ chat = [m \in Messages \X Editions |-> <<>>]

Offer(j, n) ==
    /\ mail[j] = "none"
    /\ mail' = [mail EXCEPT ![j] = "open"]
    /\ size' = [size EXCEPT ![j] = n]
    /\ UNCHANGED <<edition, chat>>

Show(j) ==
    /\ mail[j] = "open"
    /\ Len(Shown(j)) < size[j]
    /\ chat' = [chat EXCEPT ![<<j, edition[j]>>] = Append(@, Len(@) + 1)]
    /\ UNCHANGED <<mail, edition, size>>

Confirm(j) ==
    /\ mail[j] = "open"
    /\ Len(Shown(j)) = size[j]
    /\ mail' = [mail EXCEPT ![j] = "delivered"]
    /\ UNCHANGED <<edition, size, chat>>

GiveUp(j) ==
    /\ mail[j] = "open"
    /\ Len(Shown(j)) < size[j]
    /\ mail' = [mail EXCEPT ![j] = "failed"]
    /\ UNCHANGED <<edition, size, chat>>

Revise(j, n) ==
    /\ mail[j] # "none"
    /\ edition[j] = 1
    /\ mail' = [mail EXCEPT ![j] = "open"]
    /\ edition' = [edition EXCEPT ![j] = 2]
    /\ size' = [size EXCEPT ![j] = n]
    /\ UNCHANGED chat

DNext ==
    \E j \in Messages :
        \/ \E n \in 1..MaxParts : Offer(j, n) \/ Revise(j, n)
        \/ Show(j) \/ Confirm(j) \/ GiveUp(j)

DSpec == DInit /\ [][DNext]_dVars
=============================================================================
