------------------------------ MODULE RestClient ------------------------------
(***************************************************************************)
(* The REST side of a bridge (clients/binance.py): a request is paced by   *)
(* the weight the server last reported, retried on two separate budgets,   *)
(* and ends the process when one of them is spent.  Time is counted in     *)
(* seconds of the server's minute, in which the server counts the weight   *)
(* of everybody behind this address.                                       *)
(***************************************************************************)
EXTENDS Integers

CONSTANTS
    Minute,             \* seconds in a minute
    Skew,               \* seconds this machine's clock is ahead of the server's
    Weight,             \* what one page of trades weighs
    Limit,              \* WEIGHT_LIMIT_PER_MIN, above which the server answers 429
    Threshold,          \* WeightPacer.threshold
    HttpRetries,        \* HTTP_RETRIES
    RateLimitRetries,   \* RATE_LIMIT_RETRIES
    RetryAfters,        \* values of the Retry-After header, 1 where it is absent
    RetryAfterCap,      \* the longest back-off (120 in the code)
    Symbols,            \* bridges the startup runs, one after the other
    Pages,              \* pages each of them asks for
    Burst,              \* weight others behind the address use at once
    MaxBursts,          \* bound: how often they do
    MaxFaults           \* bound: requests and answers that go wrong

ASSUME TimeAssumption ==
    /\ Minute \in Nat \ {0, 1}
    /\ Skew \in 0 .. Minute - 1
    /\ RetryAfterCap \in Nat
    /\ RetryAfters \subseteq Nat

ASSUME WeightAssumption ==
    /\ Weight \in Nat \ {0}
    /\ Limit \in Nat
    /\ Threshold \in Nat \ {0}
    /\ Burst \in Nat

ASSUME BudgetAssumption ==
    /\ HttpRetries \in Nat \ {0}
    /\ RateLimitRetries \in Nat \ {0}
    /\ Symbols \in Nat
    /\ Pages \in Nat \ {0}
    /\ MaxBursts \in Nat
    /\ MaxFaults \in Nat

VARIABLES
    sec,         \* second of the server's minute
    own,         \* weight of this process's requests in this minute
    others,      \* weight of everybody else's
    pc,          \* where the process is, see TypeOK
    sleeping,    \* seconds of the running sleep still to go
    used,        \* WeightPacer.used
    network,     \* attempts of this request that failed
    throttled,   \* attempts of this request answered 429
    reply,       \* the answer under way: its code and the weight it reports
    left,        \* pages the running bridge still asks for
    todo,        \* bridges not yet finished, the running one included
    blind,       \* new pacers and lost answers of this minute
    bursts,      \* bursts of others so far
    faults       \* faults so far

server == <<sec, own, others>>
budgets == <<network, throttled>>
work == <<left, todo>>
bounds == <<bursts, faults>>
vars == <<sec, own, others, pc, sleeping, used, network, throttled, reply, left,
          todo, blind, bursts, faults>>

NoReply == [code |-> 0, weight |-> 0]

Init ==
    /\ sec = 0 /\ own = 0 /\ others = 0
    /\ pc = "next" /\ sleeping = 0 /\ used = 0 /\ network = 0 /\ throttled = 0
    /\ reply = NoReply /\ left = 0 /\ todo = Symbols
    /\ blind = 0 /\ bursts = 0 /\ faults = 0

-----------------------------------------------------------------------------
(* External: the server's minute and the others behind this address.         *)

Tick ==
    /\ sec' = IF sec = Minute - 1 THEN 0 ELSE sec + 1
    /\ sleeping' = IF sleeping = 0 THEN 0 ELSE sleeping - 1
    /\ IF sec = Minute - 1
       THEN own' = 0 /\ others' = 0 /\ blind' = 0
       ELSE UNCHANGED <<own, others, blind>>
    /\ UNCHANGED <<pc, used, budgets, reply, work, bounds>>

OthersBurst ==
    /\ bursts < MaxBursts
    /\ bursts' = bursts + 1
    /\ others' = others + Burst
    /\ UNCHANGED <<sec, own, pc, sleeping, used, budgets, reply, work, blind, faults>>

-----------------------------------------------------------------------------
(* The pacer.                                                                *)

\* What time.time() % 60 gives.
ClockSecond == IF sec + Skew < Minute THEN sec + Skew ELSE sec + Skew - Minute

MutantPauseLength == Minute - ClockSecond

\* Just past the next minute of this machine's clock.
PauseLength == Minute - ClockSecond + 1

\* A bridge makes a pacer of its own, which knows no weight yet.
StartBridge ==
    /\ pc = "next" /\ todo > 0
    /\ pc' = "ask"
    /\ left' = Pages
    /\ used' = 0 /\ blind' = blind + 1
    /\ network' = 0 /\ throttled' = 0
    /\ UNCHANGED <<server, sleeping, reply, todo, bounds>>

Pause ==
    /\ pc = "ask" /\ used >= Threshold
    /\ pc' = "pause"
    /\ sleeping' = PauseLength
    /\ UNCHANGED <<server, used, budgets, reply, work, blind, bounds>>

MutantUsedAfterPause == used
UsedAfterPause == 0

PauseOver ==
    /\ pc = "pause" /\ sleeping = 0
    /\ pc' = "ask"
    /\ used' = UsedAfterPause
    /\ UNCHANGED <<server, sleeping, budgets, reply, work, blind, bounds>>

-----------------------------------------------------------------------------
(* One attempt of _get: the request, then one of the ways it is answered.    *)

\* The server counts a request it refuses too.
Send ==
    /\ pc = "ask" /\ used < Threshold
    /\ pc' = "wait"
    /\ own' = own + Weight
    /\ reply' = [code |-> IF own' + others > Limit THEN 429 ELSE 200,
                 weight |-> own' + others]
    /\ UNCHANGED <<sec, others, sleeping, used, budgets, work, blind, bounds>>

BridgeDone ==
    /\ pc' = "next"
    /\ todo' = todo - 1
    /\ left' = 0

Page ==
    /\ pc = "wait" /\ reply.code = 200
    /\ used' = reply.weight
    /\ network' = 0 /\ throttled' = 0
    /\ IF left = 1 THEN BridgeDone ELSE pc' = "ask" /\ left' = left - 1 /\ todo' = todo
    /\ reply' = NoReply
    /\ UNCHANGED <<server, sleeping, blind, bounds>>

MutantUsedAfterError == used

\* What the pacer makes of the headers of an error.
UsedAfterError == reply.weight

MutantBackoffLength(retryAfter) == retryAfter
BackoffLength(retryAfter) == IF retryAfter < RetryAfterCap THEN retryAfter ELSE RetryAfterCap

RateLimited ==
    /\ pc = "wait" /\ reply.code = 429
    /\ used' = UsedAfterError
    /\ throttled' = throttled + 1
    /\ \E r \in RetryAfters : sleeping' = BackoffLength(r)
    /\ pc' = "backoff"
    /\ reply' = NoReply
    /\ UNCHANGED <<server, network, work, blind, bounds>>

BackoffOver ==
    /\ pc = "backoff" /\ sleeping = 0
    /\ pc' = IF throttled < RateLimitRetries THEN "ask" ELSE "dead"
    /\ UNCHANGED <<server, sleeping, used, budgets, reply, work, blind, bounds>>

Fault == faults < MaxFaults /\ faults' = faults + 1 /\ bursts' = bursts

NetworkFailure ==
    /\ network' = network + 1
    /\ pc' = IF network + 1 < HttpRetries THEN "ask" ELSE "dead"
    /\ reply' = NoReply
    /\ UNCHANGED <<sleeping, throttled, work>>

\* The connection cannot be made: the server never sees the request.
Unreachable ==
    /\ pc = "ask" /\ used < Threshold
    /\ Fault /\ NetworkFailure
    /\ UNCHANGED <<server, used, blind>>

\* The server counts the request, but its answer never comes.
AnswerLost ==
    /\ pc = "wait"
    /\ Fault /\ NetworkFailure
    /\ blind' = blind + 1
    /\ UNCHANGED <<server, used>>

\* Any other HTTP error, which reports the weight as well.
ServerError ==
    /\ pc = "wait"
    /\ Fault /\ NetworkFailure
    /\ used' = UsedAfterError
    /\ UNCHANGED <<server, blind>>

\* 404 is no error to _get: the bridge takes it for the tip and ends.
NotFound ==
    /\ pc = "wait"
    /\ Fault /\ BridgeDone
    /\ reply' = NoReply
    /\ UNCHANGED <<server, sleeping, used, budgets, blind>>

\* A reset connection or a body cut short is neither URLError nor TimeoutError,
\* and a Retry-After that is no number raises in the handler: no budget applies.
Escapes ==
    /\ pc = "wait"
    /\ Fault
    /\ pc' = "dead"
    /\ reply' = NoReply
    /\ UNCHANGED <<server, sleeping, used, budgets, work, blind>>

\* The exception ends the writer; systemd starts it again, with every bridge to do.
Restart ==
    /\ pc = "dead"
    /\ pc' = "next"
    /\ todo' = Symbols
    /\ left' = 0
    /\ UNCHANGED <<server, sleeping, used, budgets, reply, blind, bounds>>

-----------------------------------------------------------------------------
Attempt == Page \/ RateLimited \/ BackoffOver \/ Unreachable \/ AnswerLost
           \/ ServerError \/ NotFound \/ Escapes

Next == Tick \/ OthersBurst \/ StartBridge \/ Pause \/ PauseOver \/ Send \/ Attempt
        \/ Restart

Spec == Init /\ [][Next]_vars

\* Time passes, sleeps end, every request is answered somehow, systemd restarts.
Fairness ==
    /\ WF_vars(Tick)
    /\ WF_vars(StartBridge \/ Pause \/ PauseOver \/ Send \/ Attempt \/ Restart)

FairSpec == Spec /\ Fairness

-----------------------------------------------------------------------------
\* The client's state is well typed: an answer is under way exactly while it is
\* waited for, and no sleep is longer than a minute and the pacer's spare second.
TypeOK ==
    /\ sec \in 0 .. Minute - 1
    /\ own \in Nat /\ others \in Nat /\ used \in Nat /\ blind \in Nat
    /\ pc \in {"next", "ask", "pause", "wait", "backoff", "dead"}
    /\ sleeping \in Nat /\ (sleeping <= Minute + 1 \/ sleeping <= RetryAfterCap)
    /\ network \in 0 .. HttpRetries
    /\ throttled \in 0 .. RateLimitRetries
    /\ reply.code \in {0, 200, 429} /\ reply.weight \in Nat
    /\ pc = "wait" <=> reply.code # 0
    /\ left \in 0 .. Pages /\ todo \in 0 .. Symbols
    /\ bursts \in 0 .. MaxBursts /\ faults \in 0 .. MaxFaults

\* What the pacer allows a minute in which n requests were sent unknowing: with the
\* code's numbers 4499 + 25 * (1 + n) of the 6000 the server allows.
Paced(n) == Threshold - 1 + Weight * (1 + n)

\* WeightPacer keeps the process under the cap, whatever others use and however
\* late answers come: it goes over its threshold by one page, and by one more for
\* each pacer made anew (bridge makes one per symbol) and each answer lost within
\* the minute. Its spare second pays for a clock one second ahead, no more.
UnderCap == Skew <= 1 => own <= Paced(blind)

\* A 429 does not lead to the next one: after it the pacer knows the weight and
\* waits for the server's next minute, even if Retry-After says a second. So each
\* back-off of a request costs the others a burst of their own, and the budget is
\* spent only if they exhaust as many minutes (as long as there is room for Paced).
BackoffsPaidFor == Skew <= 1 => throttled <= bursts

\* Every bridge comes to an end: no pause and no back-off repeats for ever, and no
\* restart follows a restart without end.
EventuallyBridged == <>(pc = "next" /\ todo = 0)
=============================================================================
