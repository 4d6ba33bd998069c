------------------------------- MODULE Ingest -------------------------------
(***************************************************************************)
(* From the exchange to a subscriber, with the default sink: the websocket  *)
(* and its reconnects (streams/base.py), the loop that passes each trade on *)
(* (ingest/main.py), the sink that publishes it (sinks/mqtt.py), the broker *)
(* and its persistent session, and the subscriber, which drops duplicates   *)
(* by the highest id it has seen (tools/receiver.py; the recorder does the  *)
(* same).                                                                   *)
(*                                                                          *)
(* A message is the trade_id of a trade.  Quotes take the same path under   *)
(* another topic.  The asyncio side has one task that matters: it reads a   *)
(* frame and passes it on without an await in between.  The broker keeps    *)
(* its session here; MqttSession and FeedHandler have the broker that       *)
(* restarts without it.                                                     *)
(***************************************************************************)
EXTENDS Integers, Sequences, Functions

CONSTANTS
    MaxId,          \* bound: trades on the exchange
    MaxQueued,      \* max_queued_messages
    MaxSession,     \* the broker's max_queued_messages for one session
    Inflight,       \* messages sent ahead of their PUBACK, on either connection
    InitialBackoff, MaxBackoff,
    MaxWsFaults,    \* bound: the websocket closes, breaks, or cannot be dialled
    MaxBadFrames,   \* bound: trades whose frame is no JSON, or fails to normalise
    MaxLinkLosses,  \* bound: a connection to the broker breaks
    MaxDeaths       \* bound: ingest process or subscriber end

ASSUME IngestAssumption ==
    /\ MaxId \in Nat /\ MaxQueued \in Nat /\ MaxSession \in Nat /\ Inflight \in Nat \ {0}
    /\ InitialBackoff \in Nat \ {0} /\ MaxBackoff \in Nat /\ InitialBackoff <= MaxBackoff
    /\ MaxWsFaults \in Nat /\ MaxBadFrames \in Nat /\ MaxLinkLosses \in Nat /\ MaxDeaths \in Nat

Ids  == 1 .. MaxId
None == -1

VARIABLES
    traded,     \* newest trade on the exchange
    ws,         \* the websocket, as messages() sees it
    unread,     \* frames sent to it and not read
    backoff,    \* messages(): seconds to wait before the next dial
    up,         \* the process runs
    out,        \* paho's outgoing messages without PUBACK
    sent,       \* how many of them were sent on this connection
    linkUp,     \* paho is connected to the broker
    dropped,    \* MqttSink._dropped
    got,        \* trades that reached the broker
    backlog,    \* the subscriber's session: messages without its PUBACK, oldest first
    shed,       \* trades the session refused, full
    subLink,    \* the subscriber is connected
    handed,     \* how many of backlog were handed over on this connection
    mark,       \* Receiver.last_trade_id
    processed,  \* what process() was called with since the subscriber started
    ever,       \* what it was called with in any of its lives
    missed,     \* trades made while no websocket was there to bring them
    skipped,    \* trades whose frame could not be read
    gone,       \* trades that were in memory when the process ended
    faults      \* how often each fault has happened

streamVars == <<ws, unread, backoff>>
sinkVars == <<out, sent, linkUp, dropped>>
brokerVars == <<got, backlog, shed>>
receiverVars == <<mark, processed, ever>>
subscriberVars == <<subLink, handed, receiverVars>>
lostVars == <<missed, skipped, gone>>
vars == <<traded, streamVars, up, sinkVars, brokerVars, subscriberVars, lostVars, faults>>

WsStates == {"dialing", "open", "closed", "lost", "waiting", "down", "stopped"}
FaultKinds == {"ws", "bad", "link", "death"}

TypeOK ==
    /\ traded \in 0 .. MaxId
    /\ ws \in WsStates /\ up \in BOOLEAN /\ (ws \in {"down", "stopped"} <=> ~up)
    /\ unread \in Seq(Ids)
    /\ unread # <<>> => ws \in {"open", "closed", "lost"}
    /\ backoff \in InitialBackoff .. MaxBackoff
    /\ out \in Seq(Ids) /\ Len(out) <= MaxQueued
    /\ sent \in 0 .. Len(out) /\ (~linkUp => sent = 0)
    /\ linkUp \in BOOLEAN
    /\ dropped \subseteq Ids /\ got \subseteq Ids
    /\ backlog \in Seq(Ids) /\ Len(backlog) <= MaxSession /\ shed \subseteq Ids
    /\ subLink \in BOOLEAN /\ handed \in 0 .. Len(backlog) /\ (~subLink => handed = 0)
    /\ mark \in Ids \cup {None} /\ processed \in Seq(Ids) /\ ever \subseteq Ids
    /\ missed \subseteq Ids /\ skipped \subseteq Ids /\ gone \subseteq Ids
    /\ faults \in [FaultKinds -> Nat]

(* The subscriber has been there before: the broker holds its session.      *)
Init ==
    /\ traded = 0
    /\ ws = "dialing" /\ unread = <<>> /\ backoff = InitialBackoff
    /\ up = TRUE
    /\ out = <<>> /\ sent = 0 /\ linkUp = FALSE /\ dropped = {}
    /\ got = {} /\ backlog = <<>> /\ shed = {}
    /\ subLink = FALSE /\ handed = 0 /\ mark = None /\ processed = <<>> /\ ever = {}
    /\ missed = {} /\ skipped = {} /\ gone = {}
    /\ faults = [f \in FaultKinds |-> 0]

Fault(f, max) == faults[f] < max /\ faults' = [faults EXCEPT ![f] = @ + 1]

-----------------------------------------------------------------------------
(* The exchange: it sends what is traded to whoever is connected, and does  *)
(* not replay.                                                              *)

Trade ==
    /\ traded < MaxId
    /\ traded' = traded + 1
    /\ IF ws = "open"
       THEN unread' = Append(unread, traded') /\ UNCHANGED missed
       ELSE missed' = missed \cup {traded'} /\ UNCHANGED unread
    /\ UNCHANGED <<ws, backoff, up, sinkVars, brokerVars, subscriberVars, skipped, gone, faults>>

(* A clean close follows all that was sent; a broken connection may lose    *)
(* the end of it.                                                           *)
Closes ==
    /\ ws = "open"
    /\ Fault("ws", MaxWsFaults)
    /\ ws' = "closed"
    /\ UNCHANGED <<traded, unread, backoff, up, sinkVars, brokerVars, subscriberVars, lostVars>>

Breaks ==
    /\ ws = "open"
    /\ Fault("ws", MaxWsFaults)
    /\ ws' = "lost"
    /\ \E k \in 0 .. Len(unread) :
        /\ unread' = SubSeq(unread, 1, k)
        /\ missed' = missed \cup Range(SubSeq(unread, k + 1, Len(unread)))
    /\ UNCHANGED <<traded, backoff, up, sinkVars, brokerVars, subscriberVars, skipped, gone>>

-----------------------------------------------------------------------------
(* messages(): dial; read; after a clean close dial again at once, after an *)
(* error wait first, twice as long as before unless a dial succeeded.       *)

Dial ==
    /\ ws = "dialing"
    /\ ws' = "open" /\ backoff' = InitialBackoff
    /\ UNCHANGED <<traded, unread, up, sinkVars, brokerVars, subscriberVars, lostVars, faults>>

DialFails ==
    /\ ws = "dialing"
    /\ Fault("ws", MaxWsFaults)
    /\ ws' = "waiting"
    /\ UNCHANGED <<traded, unread, backoff, up, sinkVars, brokerVars, subscriberVars, lostVars>>

MutantAfterClose == "closed"
AfterClose == "dialing"

StreamEnds ==
    /\ ws \in {"closed", "lost"} /\ unread = <<>>
    /\ ws' = IF ws = "closed" THEN AfterClose ELSE "waiting"
    /\ UNCHANGED <<traded, unread, backoff, up, sinkVars, brokerVars, subscriberVars, lostVars, faults>>

MutantNextBackoff == 2 * backoff
NextBackoff == IF 2 * backoff <= MaxBackoff THEN 2 * backoff ELSE MaxBackoff

Wake ==
    /\ ws = "waiting"
    /\ ws' = "dialing" /\ backoff' = NextBackoff
    /\ UNCHANGED <<traded, unread, up, sinkVars, brokerVars, subscriberVars, lostVars, faults>>

(* One turn of run(): a frame that cannot be parsed or normalised is        *)
(* skipped, a trade is sent.                                                *)

MutantDroppedWith(m) == dropped
DroppedWith(m) == dropped \cup {m}

(* MqttSink.send: with the queue full, publish refuses the new message.     *)
Send(m) ==
    IF Len(out) < MaxQueued
    THEN out' = Append(out, m) /\ UNCHANGED dropped
    ELSE dropped' = DroppedWith(m) /\ UNCHANGED out

Read ==
    /\ unread # <<>>
    /\ unread' = Tail(unread)
    /\ \/ Send(Head(unread)) /\ UNCHANGED <<skipped, faults>>
       \/ Fault("bad", MaxBadFrames) /\ skipped' = skipped \cup {Head(unread)} /\ UNCHANGED <<out, dropped>>
    /\ UNCHANGED <<traded, ws, backoff, up, sent, linkUp, brokerVars, subscriberVars, missed, gone>>

-----------------------------------------------------------------------------
(* paho's network thread and the broker: messages in order, each kept until *)
(* its PUBACK and sent again on the next connection.                        *)

Connect ==
    /\ up /\ ~linkUp
    /\ linkUp' = TRUE
    /\ UNCHANGED <<traded, streamVars, up, out, sent, dropped, brokerVars, subscriberVars, lostVars, faults>>

(* A message reaches the broker, which queues it for the subscriber's       *)
(* session, a resent one again, unless that is full.                        *)
Publish ==
    /\ linkUp /\ sent < Len(out) /\ sent < Inflight
    /\ sent' = sent + 1
    /\ LET i == out[sent'] IN
        /\ got' = got \cup {i}
        /\ IF Len(backlog) < MaxSession
           THEN backlog' = Append(backlog, i) /\ UNCHANGED shed
           ELSE shed' = shed \cup {i} /\ UNCHANGED backlog
    /\ UNCHANGED <<traded, streamVars, up, out, linkUp, dropped, subscriberVars, lostVars, faults>>

Puback ==
    /\ linkUp /\ sent > 0
    /\ out' = Tail(out) /\ sent' = sent - 1
    /\ UNCHANGED <<traded, streamVars, up, linkUp, dropped, brokerVars, subscriberVars, lostVars, faults>>

LinkLoss ==
    /\ linkUp
    /\ Fault("link", MaxLinkLosses)
    /\ linkUp' = FALSE /\ sent' = 0
    /\ UNCHANGED <<traded, streamVars, up, out, dropped, brokerVars, subscriberVars, lostVars>>

-----------------------------------------------------------------------------
(* The subscriber and its session: what it has not acknowledged is handed   *)
(* over again on its next connection.  Its mark lives as long as it does.   *)

SubConnect ==
    /\ ~subLink
    /\ subLink' = TRUE
    /\ UNCHANGED <<traded, streamVars, up, sinkVars, brokerVars, handed, receiverVars, lostVars, faults>>

MutantDuplicate(i) == i < mark
Duplicate(i) == i <= mark

(* on_message                                                               *)
Deliver ==
    /\ subLink /\ handed < Len(backlog) /\ handed < Inflight
    /\ handed' = handed + 1
    /\ LET i == backlog[handed'] IN
        IF Duplicate(i) THEN UNCHANGED receiverVars
        ELSE mark' = i /\ processed' = Append(processed, i) /\ ever' = ever \cup {i}
    /\ UNCHANGED <<traded, streamVars, up, sinkVars, brokerVars, subLink, lostVars, faults>>

SubAck ==
    /\ subLink /\ handed > 0
    /\ backlog' = Tail(backlog) /\ handed' = handed - 1
    /\ UNCHANGED <<traded, streamVars, up, sinkVars, got, shed, subLink, receiverVars, lostVars, faults>>

SubLinkLoss ==
    /\ subLink
    /\ Fault("link", MaxLinkLosses)
    /\ subLink' = FALSE /\ handed' = 0
    /\ UNCHANGED <<traded, streamVars, up, sinkVars, brokerVars, receiverVars, lostVars>>

(* It ends and is started again, with a new Receiver.                       *)
SubRestart ==
    /\ Fault("death", MaxDeaths)
    /\ subLink' = FALSE /\ handed' = 0
    /\ mark' = None /\ processed' = <<>>
    /\ UNCHANGED <<traded, streamVars, up, sinkVars, brokerVars, ever, lostVars>>

-----------------------------------------------------------------------------
(* main(): SIGTERM and an exception of run() both end in sink.stop(), which *)
(* waits for no PUBACK, so what is queued goes as in a kill.                *)
End(state) ==
    /\ up
    /\ Fault("death", MaxDeaths)
    /\ up' = FALSE /\ ws' = state /\ unread' = <<>> /\ backoff' = InitialBackoff
    /\ out' = <<>> /\ sent' = 0 /\ linkUp' = FALSE
    /\ gone' = gone \cup Range(out) \cup Range(unread)
    /\ UNCHANGED <<traded, dropped, brokerVars, subscriberVars, missed, skipped>>

(* A kill, or an exception that main() raises again.                        *)
Crash == End("down")

(* SIGTERM or SIGINT: main() returns and the process exits with 0, which    *)
(* the unit does not restart (RestartPreventExitStatus=0).                  *)
Stop == End("stopped")

Begin ==
    /\ up' = TRUE /\ ws' = "dialing"
    /\ UNCHANGED <<traded, unread, backoff, sinkVars, brokerVars, subscriberVars, lostVars, faults>>

(* By systemd (Restart=always), or by somebody who may never come.          *)
Restart == ws = "down" /\ Begin
Start   == ws = "stopped" /\ Begin

Process == Dial \/ StreamEnds \/ Wake \/ Read \/ Restart

Next ==
    \/ Process
    \/ Trade \/ Closes \/ Breaks \/ DialFails
    \/ Connect \/ Publish \/ Puback \/ LinkLoss
    \/ SubConnect \/ Deliver \/ SubAck \/ SubLinkLoss \/ SubRestart
    \/ Crash \/ Stop \/ Start

Spec == Init /\ [][Next]_vars

-----------------------------------------------------------------------------
(* Every trade made is on its way, with the broker, or given up for one of  *)
(* the four reasons there are; send drops none uncounted.                   *)
AllAccounted ==
    1 .. traded \subseteq
        Range(unread) \cup Range(out) \cup got \cup dropped \cup missed \cup skipped \cup gone

(* The highest id seen is enough to tell duplicates, over the reconnects of *)
(* both sides, restarts of both and what either queue refuses: between its  *)
(* restarts the subscriber processes a trade once and in order, and it      *)
(* takes none for a duplicate that the session kept and it never processed. *)
ProcessedOnce ==
    /\ \A j, k \in DOMAIN processed : j < k => processed[j] < processed[k]
    /\ got \subseteq Range(backlog) \cup ever \cup shed

(* Every trade eventually reaches the broker or is given up as above.       *)
EventuallyPublished ==
    <>[](1 .. traded \subseteq got \cup dropped \cup missed \cup skipped \cup gone)

(* The websocket always comes back, unless the service was stopped.         *)
AlwaysStreamingAgain == []<>(ws \in {"open", "stopped"})

(* The process runs, systemd restarts it when it fails, dials end, paho     *)
(* connects again, the broker answers.                                      *)
FairSpec ==
    /\ Spec
    /\ WF_vars(Process) /\ WF_vars(Connect) /\ WF_vars(Publish) /\ WF_vars(Puback)
=============================================================================
