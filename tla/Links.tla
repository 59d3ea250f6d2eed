-------------------------------- MODULE Links --------------------------------
(* What the server's forwards consist of: the table with its listeners, and    *)
(* the relays that carry bytes between a connection and a device, those of the *)
(* bridges and of the client's commands included.  The two are components with *)
(* state of their own; the table is extended, the relays have the names given  *)
(* here.                                                                       *)
EXTENDS ForwardTable

CONSTANTS RelayKinds, Up, Down  \* Relays

ASSUME ChunksAssumption == Up \in Nat /\ Down \in Nat

VARIABLES kind, answers, input, hung, wire, line, relays_got, shown, dev, rd, wr, lock,
          queue, inflight

R == INSTANCE Relays WITH Kinds <- RelayKinds, got <- relays_got
-----------------------------------------------------------------------------
(* Relays: no bridge, forward, pump or client stream reorders or repeats a     *)
(* chunk, and one with a transport of its own loses none, see Relays.          *)
InOrder == R!InOrder
=============================================================================
