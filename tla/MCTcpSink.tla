----------------------------- MODULE MCTcpSink -----------------------------
(* Instances of TcpSink for TLC: even entries are longer than odd ones.     *)
EXTENDS TcpSink

MCSize == [n \in Seqs |-> IF n % 2 = 0 THEN 2 ELSE 1]
=============================================================================
