----------------------------- MODULE MCAdbServer -----------------------------
(* Instances of AdbServer for TLC.  Addresses are a1 and a2; h1 and h2 are  *)
(* host names that resolve to them, l1 and l2 the literal targets, e1 an    *)
(* emulator on a1.                                                          *)
EXTENDS AdbServer, TLC

CONSTANTS a1, a2

MCAddrs == {a1, a2}
MCAddrString == [a \in Addrs |-> IF a = a1 THEN "l1" ELSE "l2"]

\* h1 and h2 reach the same device first.
MCResolve ==
    [t \in Targets |-> CASE t = "h1" -> <<a1, a2>>
                         [] t = "h2" -> <<a1>>
                         [] t = "e1" -> <<a1>>
                         [] t = "l1" -> <<a1>>
                         [] t = "l2" -> <<a2>>]

MCSymmetry == Permutations(Threads)
=============================================================================
