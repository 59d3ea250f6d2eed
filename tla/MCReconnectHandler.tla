-------------------------- MODULE MCReconnectHandler --------------------------
(* Instances of ReconnectHandler for TLC, and the sweep of the queue as the    *)
(* loop that the code runs.                                                    *)
EXTENDS ReconnectHandler, TLC

MCSymmetry == Permutations(Serials)

\* The last element takes the place of the one that is removed.
swap_remove(q, i) ==
    IF i = Len(q)
      THEN SubSeq(q, 1, Len(q) - 1)
      ELSE [SubSeq(q, 1, Len(q) - 1) EXCEPT ![i] = q[Len(q)]]

RECURSIVE SweepLoop(_, _)
SweepLoop(q, i) ==
    IF i > Len(q) THEN q
    ELSE IF q[i].kicked THEN SweepLoop(swap_remove(q, i), i)
    ELSE SweepLoop(q, i + 1)

\* The closed form of the sweep gives the queue the loop gives, order included,
\* for every pattern of kicked entries up to length eight.
ASSUME SweepIsSwapRemove ==
    \A n \in 0 .. 8 : \A kicks \in SUBSET (1 .. n) :
        LET q == [i \in 1 .. n |-> [serial |-> i, kicked |-> i \in kicks]]
        IN  Swept(q) = SweepLoop(q, 1)
===============================================================================
