------------------------ MODULE MCPositionAccounting -----------------------
(* Four fills of one or two.  The prices are multiples of 840 * 840, so that *)
(* the two divisions by up to eight that a position sees are exact.          *)
EXTENDS PositionAccounting

UpToTwo == {-2, -1, 1, 2}
DivisiblePrices == {705600, 1411200}
=============================================================================
