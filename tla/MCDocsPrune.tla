---------------------------- MODULE MCDocsPrune ----------------------------
(* DocsPrune for TLC: chains, cycles, sharing, and references that cannot   *)
(* be followed.                                                             *)
EXTENDS DocsPrune

CONSTANTS o1, o2, a, b, c

OfOperations == {{}, {a}, {Broken}}
OfComponents == {{}, {a}, {b}, {c}, {Broken}, {a, b}, {b, c}, {c, Absent}}
=============================================================================
