--------------------------- MODULE RestClientProofs ---------------------------
(***************************************************************************)
(* What RestClient promises for every minute, weight, budget and number of *)
(* faults: its state is well typed, the pacer keeps the process's own      *)
(* weight under its bound, and no refusal leads to the next one.           *)
(***************************************************************************)
EXTENDS RestClient, TLAPS

USE TimeAssumption, WeightAssumption, BudgetAssumption

\* A request is only tried while both budgets have an attempt left, and belongs
\* to a page of a bridge.
TryingInv ==
    /\ pc \in {"ask", "pause", "wait"} => network < HttpRetries /\ throttled < RateLimitRetries
    /\ pc = "backoff" => network < HttpRetries
    /\ pc \in {"ask", "pause", "wait", "backoff"} => left >= 1 /\ todo >= 1

TypeInv == TypeOK /\ TryingInv

\* The reply is a record, which TypeOK says field by field.
ReplyInv == reply \in [code : {0, 200, 429}, weight : Nat]

LEMMA InitTyped == Init => TypeInv /\ ReplyInv
BY DEF Init, TypeInv, TypeOK, TryingInv, ReplyInv, NoReply

LEMMA ClockInMinute ==
    ASSUME sec \in 0 .. Minute - 1
    PROVE  /\ PauseLength \in 1 .. Minute + 1
           /\ Skew <= 1 => sec + PauseLength >= Minute
BY DEF PauseLength, ClockSecond

LEMMA StepTyped ==
    ASSUME TypeInv, ReplyInv, [Next]_vars
    PROVE  TypeInv' /\ ReplyInv'
<1> USE DEF TypeInv, TypeOK, TryingInv, ReplyInv, NoReply
<1>1. CASE Tick
  BY <1>1 DEF Tick, budgets, work, bounds
<1>2. CASE OthersBurst
  BY <1>2 DEF OthersBurst, budgets, work
<1>3. CASE StartBridge
  BY <1>3 DEF StartBridge, server, bounds
<1>4. CASE Pause
  BY <1>4, ClockInMinute DEF Pause, server, budgets, work, bounds
<1>5. CASE PauseOver
  BY <1>5 DEF PauseOver, UsedAfterPause, server, budgets, work, bounds
<1>6. CASE Send
  BY <1>6 DEF Send, budgets, work, bounds
<1>7. CASE Page
  BY <1>7 DEF Page, BridgeDone, server, bounds
<1>8. CASE RateLimited
  <2>1. sleeping' \in Nat /\ sleeping' <= RetryAfterCap
    BY <1>8 DEF RateLimited, BackoffLength
  <2> QED BY <1>8, <2>1 DEF RateLimited, UsedAfterError, server, work, bounds
<1>9. CASE BackoffOver
  BY <1>9 DEF BackoffOver, server, budgets, work, bounds
<1>10. CASE Unreachable
  BY <1>10 DEF Unreachable, Fault, NetworkFailure, server, work
<1>11. CASE AnswerLost
  BY <1>11 DEF AnswerLost, Fault, NetworkFailure, server, work
<1>12. CASE ServerError
  BY <1>12 DEF ServerError, Fault, NetworkFailure, UsedAfterError, server, work
<1>13. CASE NotFound
  BY <1>13 DEF NotFound, Fault, BridgeDone, server, budgets
<1>14. CASE Escapes
  BY <1>14 DEF Escapes, Fault, server, budgets, work
<1>15. CASE Restart
  BY <1>15 DEF Restart, server, budgets, bounds
<1>16. CASE UNCHANGED vars
  BY <1>16 DEF vars
<1> QED BY <1>1, <1>2, <1>3, <1>4, <1>5, <1>6, <1>7, <1>8, <1>9, <1>10, <1>11,
           <1>12, <1>13, <1>14, <1>15, <1>16 DEF Next, Attempt

THEOREM TypeCorrect == Spec => []TypeOK
<1>1. Init => TypeInv /\ ReplyInv
  BY InitTyped
<1>2. (TypeInv /\ ReplyInv) /\ [Next]_vars => (TypeInv /\ ReplyInv)'
  BY StepTyped
<1>3. TypeInv /\ ReplyInv => TypeOK
  BY DEF TypeInv
<1> QED BY <1>1, <1>2, <1>3, PTL DEF Spec

-----------------------------------------------------------------------------
(* UnderCap.  Between two answers the pacer either knows at least what the   *)
(* process has used, or the process is blind and has not yet used what its   *)
(* blindness costs.  A pause ends behind the boundary of the minute.         *)

Knows == own <= used \/ own <= Threshold - 1 + Weight * blind

WakesInNextMinute == own = 0 \/ sec + sleeping >= Minute

PacedInv ==
    /\ own <= Paced(blind)
    /\ pc \in {"ask", "pause", "backoff"} => Knows
    /\ pc = "pause" => WakesInNextMinute
    /\ pc = "wait" => own <= reply.weight

\* One more blind request is one more page.
LEMMA PacedNext ==
    ASSUME NEW n \in Nat
    PROVE  /\ Paced(n) \in Nat
           /\ Paced(n) = Threshold - 1 + Weight * n + Weight
           /\ Paced(n) = Threshold - 1 + Weight * (n + 1)
           /\ Paced(n) <= Paced(n + 1)
           /\ Weight * n \in Nat
<1>1. Weight * n \in Nat /\ Weight * (n + 1) = Weight * n + Weight
  OBVIOUS
<1>2. Weight * (1 + (n + 1)) = Weight * n + Weight + Weight
  OBVIOUS
<1> QED BY <1>1, <1>2 DEF Paced

LEMMA StepPaced ==
    ASSUME TypeInv, ReplyInv, PacedInv, Skew <= 1, [Next]_vars
    PROVE  PacedInv'
<1> USE DEF PacedInv, Knows, WakesInNextMinute
<1>typed. /\ own \in Nat /\ used \in Nat /\ blind \in Nat /\ sec \in 0 .. Minute - 1
          /\ sleeping \in Nat /\ others \in Nat /\ reply.weight \in Nat
  BY DEF TypeInv, TypeOK
<1>paced. /\ Paced(blind) \in Nat /\ Weight * blind \in Nat
          /\ Paced(blind) = Threshold - 1 + Weight * blind + Weight
          /\ Paced(blind) = Threshold - 1 + Weight * (blind + 1)
          /\ Paced(blind) <= Paced(blind + 1) /\ Paced(blind + 1) \in Nat
  BY <1>typed, PacedNext
<1>paced0. Paced(0) \in Nat
  BY PacedNext
<1>1. CASE Tick
  <2>1. CASE sec = Minute - 1
    <3>1. own' = 0 /\ blind' = 0 /\ UNCHANGED <<pc, used, reply>>
      BY <1>1, <2>1 DEF Tick
    <3> QED BY <3>1, <1>typed, <1>paced0
  <2>2. CASE sec # Minute - 1
    <3>1. /\ sec' = sec + 1 /\ UNCHANGED <<own, blind, pc, used, reply>>
          /\ sleeping' = IF sleeping = 0 THEN 0 ELSE sleeping - 1
      BY <1>1, <2>2 DEF Tick
    <3>2. own' <= Paced(blind)' /\ (pc' = "wait" => own' <= reply.weight')
          /\ (pc' \in {"ask", "pause", "backoff"} => Knows')
      BY <3>1 DEF Paced
    <3>3. pc' = "pause" => WakesInNextMinute'
      BY <3>1, <2>2, <1>typed
    <3> QED BY <3>2, <3>3
  <2> QED BY <2>1, <2>2
<1>2. CASE OthersBurst
  BY <1>2 DEF OthersBurst, Paced
<1>3. CASE StartBridge
  <2>1. own' = own /\ blind' = blind + 1 /\ used' = 0 /\ pc' = "ask"
    BY <1>3 DEF StartBridge, server
  <2>2. Paced(blind') = Paced(blind + 1) /\ own' <= Threshold - 1 + Weight * blind'
    BY <2>1, <1>paced
  <2> QED BY <2>1, <2>2, <1>paced, <1>typed, PacedNext
<1>4. CASE Pause
  <2>1. WakesInNextMinute'
    BY <1>4, <1>typed, ClockInMinute DEF Pause, server
  <2> QED BY <1>4, <2>1 DEF Pause, server, Paced
<1>5. CASE PauseOver
  <2>1. own = 0
    BY <1>5, <1>typed DEF PauseOver
  <2>2. own' = 0 /\ used' = 0 /\ pc' = "ask" /\ blind' = blind
    BY <1>5, <2>1 DEF PauseOver, UsedAfterPause, server
  <2> QED BY <2>2, <1>paced
<1>6. CASE Send
  <2>1. own' = own + Weight /\ blind' = blind /\ pc' = "wait" /\ own' <= reply.weight'
    BY <1>6, <1>typed DEF Send
  <2>2. own <= Threshold - 1 + Weight * blind
    BY <1>6, <1>typed, <1>paced DEF Send
  <2> QED BY <2>1, <2>2, <1>paced, <1>typed
<1>7. CASE Page
  <2>1. own' = own /\ blind' = blind /\ used' = reply.weight /\ pc' \in {"ask", "next"}
    BY <1>7 DEF Page, BridgeDone, server
  <2>2. own' <= used'
    BY <2>1, <1>7 DEF Page
  <2> QED BY <2>1, <2>2
<1>8. CASE RateLimited
  BY <1>8 DEF RateLimited, UsedAfterError, server
<1>9. CASE BackoffOver
  BY <1>9 DEF BackoffOver, server
<1>10. CASE Unreachable
  BY <1>10 DEF Unreachable, NetworkFailure, server
<1>11. CASE AnswerLost
  <2>1. own' = own /\ blind' = blind + 1 /\ pc' \in {"ask", "dead"}
    BY <1>11 DEF AnswerLost, NetworkFailure, server
  <2>2. own' <= Threshold - 1 + Weight * blind'
    BY <2>1, <1>paced
  <2>3. Paced(blind)' = Paced(blind + 1)
    BY <2>1 DEF Paced
  <2>4. own' <= Paced(blind)'
    BY <2>1, <2>3, <1>paced, <1>typed
  <2> QED BY <2>1, <2>2, <2>4
<1>12. CASE ServerError
  <2>1. own' = own /\ blind' = blind /\ used' = reply.weight /\ pc' \in {"ask", "dead"}
    BY <1>12 DEF ServerError, NetworkFailure, UsedAfterError, server
  <2> QED BY <2>1, <1>12 DEF ServerError
<1>13. CASE NotFound
  BY <1>13 DEF NotFound, BridgeDone, server
<1>14. CASE Escapes
  BY <1>14 DEF Escapes, server
<1>15. CASE Restart
  BY <1>15 DEF Restart, server
<1>16. CASE UNCHANGED vars
  BY <1>16 DEF vars
<1> QED BY <1>1, <1>2, <1>3, <1>4, <1>5, <1>6, <1>7, <1>8, <1>9, <1>10, <1>11,
           <1>12, <1>13, <1>14, <1>15, <1>16 DEF Next, Attempt

THEOREM NeverOverCap == Spec => []UnderCap
<1>1. CASE Skew <= 1
  <2> DEFINE Inv == TypeInv /\ ReplyInv /\ PacedInv
  <2>1. Init => Inv
    <3>1. Init => own = 0 /\ blind = 0 /\ used = 0 /\ pc = "next"
      BY DEF Init
    <3> QED BY <3>1, InitTyped, PacedNext DEF PacedInv
  <2>2. Inv /\ [Next]_vars => Inv'
    BY <1>1, StepTyped, StepPaced
  <2>3. Inv => UnderCap
    BY DEF PacedInv, UnderCap
  <2> HIDE DEF Inv
  <2> QED BY <2>1, <2>2, <2>3, PTL DEF Spec
<1>2. CASE ~(Skew <= 1)
  <2>1. UnderCap
    BY <1>2 DEF UnderCap
  <2> QED BY <2>1, PTL
<1> QED BY <1>1, <1>2

-----------------------------------------------------------------------------
(* BackoffsPaidFor.  A request that was answered 429 asks again only in a    *)
(* later minute, so what others use then they have used since: a burst that  *)
(* no back-off of this request has been set against yet.                     *)

\* The limit leaves room for what the pacer allows in this minute.
Room == Paced(blind) <= Limit

\* Others have used no weight, or a burst is not yet set against a back-off.
Unpaid == others > 0 => throttled + 1 <= bursts

BackoffInv ==
    /\ throttled <= bursts
    /\ others > 0 => bursts >= 1
    /\ pc = "ask" /\ used < Threshold => Unpaid
    /\ pc = "wait" => Unpaid
    /\ pc = "wait" /\ reply.code = 429 => throttled + 1 <= bursts
    /\ pc = "backoff" => used >= Threshold
    /\ pc = "pause" => Unpaid \/ sec + sleeping >= Minute
    /\ reply.code = 429 => reply.weight >= Threshold

LEMMA StepPaidFor ==
    ASSUME TypeInv, ReplyInv, PacedInv, BackoffInv, Skew <= 1, Room, [Next]_vars
    PROVE  BackoffInv'
<1> USE DEF BackoffInv, Unpaid
<1>typed. /\ own \in Nat /\ used \in Nat /\ blind \in Nat /\ sec \in 0 .. Minute - 1
          /\ sleeping \in Nat /\ others \in Nat /\ reply.weight \in Nat
          /\ throttled \in Nat /\ bursts \in Nat
  BY DEF TypeInv, TypeOK
<1>1. CASE Tick
  <2>1. UNCHANGED <<pc, used, throttled, reply, bursts>> /\ (others' = 0 \/ others' = others)
    BY <1>1 DEF Tick, budgets, bounds
  <2>2. CASE sec = Minute - 1
    BY <1>1, <2>1, <2>2, <1>typed DEF Tick
  <2>3. CASE sec # Minute - 1
    <3>1. /\ sec' = sec + 1 /\ others' = others
          /\ sleeping' = IF sleeping = 0 THEN 0 ELSE sleeping - 1
      BY <1>1, <2>3 DEF Tick
    <3>2. sec + sleeping >= Minute => sec' + sleeping' >= Minute
      BY <3>1, <2>3, <1>typed
    <3> QED BY <2>1, <3>1, <3>2, <1>typed
  <2> QED BY <2>2, <2>3
<1>2. CASE OthersBurst
  BY <1>2, <1>typed DEF OthersBurst, budgets
<1>3. CASE StartBridge
  BY <1>3, <1>typed DEF StartBridge, server, bounds
<1>4. CASE Pause
  <2>1. sec' + sleeping' >= Minute
    BY <1>4, <1>typed, ClockInMinute DEF Pause, server
  <2> QED BY <1>4, <2>1, <1>typed DEF Pause, server, budgets, bounds
<1>5. CASE PauseOver
  BY <1>5, <1>typed DEF PauseOver, server, budgets, bounds
<1>6. CASE Send
  <2>1. /\ own' = own + Weight /\ others' = others /\ pc' = "wait"
        /\ reply'.code = (IF own' + others > Limit THEN 429 ELSE 200)
        /\ reply'.weight = own' + others
        /\ UNCHANGED <<throttled, bursts, used>>
    BY <1>6 DEF Send, budgets, bounds
  <2>2. own' <= Limit
    <3>0. Weight * blind \in Nat /\ Paced(blind) = Threshold - 1 + Weight * blind + Weight
      BY <1>typed, PacedNext
    <3>1. own <= Threshold - 1 + Weight * blind
      BY <1>6, <1>typed, <3>0 DEF Send, PacedInv, Knows
    <3> QED BY <2>1, <3>0, <3>1, <1>typed DEF Room
  <2>3. Threshold <= Limit
    <3>1. Paced(blind) = Threshold - 1 + Weight * blind + Weight /\ Weight * blind \in Nat
      BY <1>typed, PacedNext
    <3> QED BY <3>1 DEF Room
  <2>4. Unpaid
    BY <1>6 DEF Send
  <2> QED BY <2>1, <2>2, <2>3, <2>4, <1>typed
<1>7. CASE Page
  <2>1. /\ throttled' = 0 /\ UNCHANGED <<others, bursts>> /\ pc' \in {"ask", "next"}
        /\ reply'.code = 0
    BY <1>7 DEF Page, BridgeDone, server, bounds, NoReply
  <2> QED BY <2>1, <1>typed
<1>8. CASE RateLimited
  BY <1>8, <1>typed DEF RateLimited, UsedAfterError, server, bounds, NoReply
<1>9. CASE BackoffOver
  BY <1>9, <1>typed DEF BackoffOver, server, budgets, bounds
<1>10. CASE Unreachable
  BY <1>10, <1>typed DEF Unreachable, Fault, NetworkFailure, server, NoReply
<1>11. CASE AnswerLost
  BY <1>11, <1>typed DEF AnswerLost, Fault, NetworkFailure, server, NoReply
<1>12. CASE ServerError
  BY <1>12, <1>typed DEF ServerError, Fault, NetworkFailure, server, NoReply
<1>13. CASE NotFound
  BY <1>13, <1>typed DEF NotFound, Fault, BridgeDone, server, budgets, NoReply
<1>14. CASE Escapes
  BY <1>14, <1>typed DEF Escapes, Fault, server, budgets, NoReply
<1>15. CASE Restart
  BY <1>15, <1>typed DEF Restart, server, budgets, bounds
<1>16. CASE UNCHANGED vars
  BY <1>16 DEF vars
<1> QED BY <1>1, <1>2, <1>3, <1>4, <1>5, <1>6, <1>7, <1>8, <1>9, <1>10, <1>11,
           <1>12, <1>13, <1>14, <1>15, <1>16 DEF Next, Attempt

\* While the limit leaves room for what the pacer allows (6000 leaves it for 59
\* unknowing requests a minute), no 429 leads to the next one.
THEOREM BackoffsAlwaysPaidFor == Spec /\ []Room => []BackoffsPaidFor
<1>1. CASE Skew <= 1
  <2> DEFINE Inv == TypeInv /\ ReplyInv /\ PacedInv /\ BackoffInv
  <2>1. Init => Inv
    <3>1. Init => /\ own = 0 /\ blind = 0 /\ used = 0 /\ pc = "next" /\ others = 0
                  /\ throttled = 0 /\ bursts = 0 /\ reply.code = 0
      BY DEF Init, NoReply
    <3> QED BY <3>1, InitTyped, PacedNext DEF PacedInv, BackoffInv, Unpaid
  <2>2. Inv /\ Room /\ [Next]_vars => Inv'
    BY <1>1, StepTyped, StepPaced, StepPaidFor
  <2>3. Inv => BackoffsPaidFor
    BY DEF BackoffInv, BackoffsPaidFor
  <2> HIDE DEF Inv
  <2> QED BY <2>1, <2>2, <2>3, PTL DEF Spec
<1>2. CASE ~(Skew <= 1)
  <2>1. BackoffsPaidFor
    BY <1>2 DEF BackoffsPaidFor
  <2> QED BY <2>1, PTL
<1> QED BY <1>1, <1>2
=============================================================================
