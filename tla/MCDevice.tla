------------------------------- MODULE MCDevice -------------------------------
(* The sensor on a small instance; the bounds are explained in README.md. *)
EXTENDS Device

CONSTANT factory

OneBit == {0}
Nowhere == {}
Control == {2, 3}
Protected == {5}
Tests == {8}
Everywhere == {2, 3, 5, 8}
On == {0}
NoIdentity == [a \in Nowhere |-> {}]
UartThenOta == <<"uart", "ota">>
Rates == [Protected -> SUBSET OneBit] \cup {factory}
AllFactory == [k \in KeySet |-> factory]
NothingWritten == {"before"}
AnyFailure == {"before", "after"}
=============================================================================
