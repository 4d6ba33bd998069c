---------------------------- MODULE TickChannel ----------------------------
(***************************************************************************)
(* What a sink promises of the ticks given to it: each is delivered at      *)
(* least once unless it is dropped, and a drop takes the oldest ticks not   *)
(* yet confirmed.  Ticks are numbered 1, 2, ... as they are sent.           *)
(***************************************************************************)
EXTENDS Naturals

VARIABLES
    sent,       \* how many ticks have been sent
    confirmed,  \* ticks 1 .. confirmed are no longer held
    delivered,  \* ticks the consumer has seen
    lost        \* ticks given up

channelVars == <<sent, confirmed, delivered, lost>>

Init == sent = 0 /\ confirmed = 0 /\ delivered = {} /\ lost = {}

(* A tick is taken in; to make room, the oldest ones may be given up.       *)
Send ==
    /\ sent' = sent + 1
    /\ \E k \in confirmed .. sent + 1 :
        /\ confirmed' = k
        /\ lost' = lost \cup (confirmed + 1 .. k)
    /\ UNCHANGED delivered

Deliver ==
    /\ \E n \in 1 .. sent : delivered' = delivered \cup {n}
    /\ UNCHANGED <<sent, confirmed, lost>>

(* Only what has been delivered is confirmed.                               *)
Confirm ==
    /\ \E k \in confirmed .. sent :
        /\ confirmed + 1 .. k \subseteq delivered
        /\ confirmed' = k
    /\ UNCHANGED <<sent, delivered, lost>>

Next == Send \/ Deliver \/ Confirm

Spec == Init /\ [][Next]_channelVars
=============================================================================
