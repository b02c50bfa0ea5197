---------------------------- MODULE MCSpeedLimit ----------------------------
(* SpeedLimit for TLC: two keys, and a request that cannot be identified.  *)
EXTENDS SpeedLimit, TLC

CONSTANTS a, b, a1, a2, a3, a4, b1, x

Keys == [r \in Request |-> IF r = b1 THEN b ELSE IF r = x THEN NoKey ELSE a]
=============================================================================
