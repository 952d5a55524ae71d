------------------------------ MODULE MCModbus ------------------------------
(* The receiver on small instances; the bounds are explained in README.md. *)
EXTENDS Modbus

Single == {"mine"}
Mixed == {"mine", "broadcast", "other", "damaged"}
OneToFour == {1, 4}
TwoOnly == {2}
=============================================================================
