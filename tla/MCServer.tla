------------------------------ MODULE MCServer ------------------------------
EXTENDS S4Server, TLC

CONSTANTS p1, p2, t1, t2, n1, n2

(* p1 and p2: two devices, or one device that reconnected *)
TwoDevices == p1 :> n1 @@ p2 :> n2
Reconnect  == p1 :> n1 @@ p2 :> n1
OneDevice  == p1 :> n1

TerminalSymmetry == Permutations({t1, t2})
=============================================================================
