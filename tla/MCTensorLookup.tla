--------------------------- MODULE MCTensorLookup ---------------------------
(* TensorLookup over every sorted table of a few names, and over the table  *)
(* of the released artifact: 866 source tensors, of which 851 precede the   *)
(* draft head's two tensors in the order of names.                          *)
EXTENDS TensorLookup, FiniteSets

SmallNames == {2, 4, 5, 6, 9}

(* The strictly increasing sequences of small names.                        *)
MCInventories ==
  {s \in UNION {[1..n -> SmallNames] : n \in 0..5} : Sorted(s)}

RealInventory == [i \in 1..866 |-> IF i <= 851 THEN i ELSE i + 2]
RealInventories == {RealInventory}
RealDraftHead == 852
RealDraftTokenIds == 853
=============================================================================
