----------------------------- MODULE MCSavedown -----------------------------
(* An instance of Savedown for TLC: three days of two bars each.            *)
EXTENDS Savedown

MCTime       == <<0, 1, 4, 5, 5, 6, 8, 9>>
MCTrades     == {1, 3, 5, 6, 7}
MCPrice      == <<1, 2, 0, 1, 2, 1, 2, 0>>
MCQty        == <<1, 0, 1, 0, 2, 1, 1, 0>>
MCBuyerMaker == <<TRUE, FALSE, FALSE, FALSE, TRUE, FALSE, FALSE, FALSE>>
=============================================================================
