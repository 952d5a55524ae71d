------------------------------- MODULE MCMeasure -------------------------------
(* Two water sensors, the second of which is now half and now fully in water,   *)
(* and a thermometer.  An id in the list of a device that has left is as good as *)
(* a phantom.                                                                    *)
EXTENDS Measure

CONSTANTS m1, m2, t

ThreeDevices == {m1, m2, t}
FoundBefore == {<<m1, t>>, <<m1, m2>>, <<t, m2>>}
Kinds == [d \in ThreeDevices |-> IF d = t THEN "MY18B20Z" ELSE "MDC02"]
HalfOrFull == [d \in ThreeDevices |-> IF d = m2 THEN {{1}, {1, 2}} ELSE {{1, 2}}]
NothingRight == {{}}
===============================================================================
