------------------------------ MODULE TradeLog ------------------------------
(***************************************************************************)
(* What the 4B writer promises of the trades: per symbol, a log without     *)
(* holes that only grows at its end, a prefix of which is durable.  The     *)
(* process may die and fall back to the durable prefix, never behind it.    *)
(***************************************************************************)
EXTENDS Naturals

CONSTANT Symbols

VARIABLES
    high,   \* high[s]: trades 1 .. high[s] are stored
    saved   \* saved[s]: trades 1 .. saved[s] are on disk

logVars == <<high, saved>>

Init ==
    /\ high \in [Symbols -> Nat]
    /\ saved = high

Extend(s) ==
    /\ high'[s] \in Nat /\ high'[s] > high[s]
    /\ high' = [high EXCEPT ![s] = high'[s]]
    /\ saved' \in {saved, high}     \* the rollover saves what was there before

Save == saved' = high /\ UNCHANGED high

Recover == high' = saved /\ UNCHANGED saved

Next == (\E s \in Symbols : Extend(s)) \/ Save \/ Recover

Spec == Init /\ [][Next]_logVars
=============================================================================
