----------------------------- MODULE MCRegisters -----------------------------
(* The register bank on a small instance; the bounds are explained in       *)
(* README.md.                                                              *)
EXTENDS Registers

TwoBits == {0, 1}
ReadOnly == {0}
Control == {2, 3}
Protected == {5}
Tests == {7}
Nowhere == {}
Everywhere == {0, 2, 3, 5, 7}
Reload1 == {0}
Key1 == {1}
Pattern1 == {0, 1}
Version == [a \in ReadOnly |-> {1}]
=============================================================================
