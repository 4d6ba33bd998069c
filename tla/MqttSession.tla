---------------------------- MODULE MqttSession ----------------------------
(***************************************************************************)
(* The mosquitto broker's persistent session for the feed handler, as the   *)
(* configuration (max_queued_messages, persistence) and the client          *)
(* (QoS 1, clean_session=False) in this repository use it.  The broker is   *)
(* not part of the repository: these definitions are external.              *)
(***************************************************************************)
EXTENDS Naturals, Sequences

CONSTANT MaxQueued      \* max_queued_messages of the session

ASSUME MaxQueuedAssumption == MaxQueued \in Nat

VARIABLES
    subscribed,     \* the broker holds a session subscribed to ticks/# and quotes/#
    linkUp,         \* the client's network thread is connected
    backlog         \* messages of the session not yet acknowledged, oldest first

sessionVars == <<subscribed, linkUp, backlog>>

SessionInit == subscribed = FALSE /\ linkUp = FALSE /\ backlog = <<>>

(* A publication: queued when a session wants it; at the cap it is the new  *)
(* message that is lost.                                                    *)
Enqueue(m) ==
    /\ backlog' = IF subscribed /\ Len(backlog) < MaxQueued
                    THEN Append(backlog, m) ELSE backlog
    /\ UNCHANGED <<subscribed, linkUp>>

(* CONNECT, followed by the SUBSCRIBE that the client's on_connect sends.   *)
Accept == ~linkUp /\ linkUp' = TRUE /\ subscribed' = TRUE /\ UNCHANGED backlog

(* The oldest message reaches the client and is acknowledged.               *)
Acked == linkUp /\ backlog # <<>> /\ backlog' = Tail(backlog) /\ UNCHANGED <<subscribed, linkUp>>

(* The oldest message reaches the client but the link dies before its       *)
(* acknowledgement: it will be delivered again.                             *)
AckLost == linkUp /\ backlog # <<>> /\ linkUp' = FALSE /\ UNCHANGED <<subscribed, backlog>>

Disconnect == linkUp /\ linkUp' = FALSE /\ UNCHANGED <<subscribed, backlog>>

(* The broker restarts without its persisted state.                         *)
LoseSession == subscribed' = FALSE /\ linkUp' = FALSE /\ backlog' = <<>>
=============================================================================
