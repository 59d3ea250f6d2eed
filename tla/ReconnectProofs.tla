--------------------------- MODULE ReconnectProofs ---------------------------
(***************************************************************************)
(* TypeOK and QueueIsSound of ReconnectHandler, for any transports,        *)
(* threads and bounds.  Most of the work is about the queue as a Vec: what *)
(* a retain or a sweep by swap_remove leaves are entries of the queue,     *)
(* each of them once, in whatever order.                                   *)
(***************************************************************************)
EXTENDS ReconnectHandler, FiniteSetTheorems, WellFoundedInduction, TLAPS

\* q consists of the entries of r at positions of keep, none of them twice.
Picks(q, r, keep) ==
    \E h \in [DOMAIN q -> keep] :
        /\ \A i, j \in DOMAIN q : h[i] = h[j] => i = j
        /\ \A i \in DOMAIN q : q[i] = r[h[i]]

\* The entries the sweep leaves, and where it takes what it puts at a position.
Unkicked(q) == {i \in DOMAIN q : ~q[i].kicked}
Gaps(S, i) == Cardinality((1 .. i) \ S)
Source(S) ==
    [i \in 1 .. Cardinality(S) |-> IF i \in S THEN i ELSE Nth(S, Cardinality(S) + 1 - Gaps(S, i))]
-----------------------------------------------------------------------------
\* A set of natural numbers that is not empty has a least element.
LEMMA Least ==
    ASSUME NEW M \in SUBSET Nat, M # {}
    PROVE  \E m \in M : \A k \in M : m <= k
<1>1. PICK m \in M : \A k \in M : ~(<<k, m>> \in OpToRel(<, Nat))
  BY NatLessThanWellFounded, WFMin, Zenon
<1>2. ASSUME NEW k \in M PROVE m <= k
  <2>1. ~(k < m)
    BY <1>1, Zenon DEF OpToRel
  <2> QED
    BY <2>1
<1> QED
  BY <1>2, Zenon

\* The positions of a set up to a given one: one more than before exactly when
\* that position is in the set.
LEMMA CountUpTo ==
    ASSUME NEW n \in Nat, NEW S \in SUBSET (1 .. n)
    PROVE  /\ IsFiniteSet(S) /\ Cardinality(S) \in Nat
           /\ \A m \in 0 .. n : Cardinality({j \in S : j <= m}) \in Nat
           /\ Cardinality({j \in S : j <= 0}) = 0
           /\ Cardinality({j \in S : j <= n}) = Cardinality(S)
           /\ \A m \in 1 .. n :
                 Cardinality({j \in S : j <= m}) =
                     Cardinality({j \in S : j <= m - 1}) + (IF m \in S THEN 1 ELSE 0)
<1>1. IsFiniteSet(S) /\ Cardinality(S) \in Nat
  <2>1. IsFiniteSet(1 .. n)
    BY FS_Interval
  <2> QED
    BY <2>1, FS_Subset, FS_CardinalityType, Zenon
<1>2. ASSUME NEW m \in 0 .. n
      PROVE  IsFiniteSet({j \in S : j <= m}) /\ Cardinality({j \in S : j <= m}) \in Nat
  <2>1. {j \in S : j <= m} \in SUBSET S
    BY Zenon
  <2> QED
    BY <1>1, <2>1, FS_Subset, FS_CardinalityType, Zenon
<1>3. {j \in S : j <= 0} = {} /\ {j \in S : j <= n} = S
  <2>1. \A j \in S : ~(j <= 0) /\ j <= n
    OBVIOUS
  <2> QED
    BY <2>1, Zenon
<1>4. ASSUME NEW m \in 1 .. n
      PROVE  Cardinality({j \in S : j <= m}) =
                 Cardinality({j \in S : j <= m - 1}) + (IF m \in S THEN 1 ELSE 0)
  <2>1. m - 1 \in 0 .. n
    OBVIOUS
  <2>2. CASE m \in S
    <3>1. {j \in S : j <= m} = {j \in S : j <= m - 1} \cup {m} /\ m \notin {j \in S : j <= m - 1}
      <4>1. \A j \in S : j <= m <=> (j <= m - 1 \/ j = m)
        OBVIOUS
      <4>2. ~(m <= m - 1)
        OBVIOUS
      <4> QED
        BY <2>2, <4>1, <4>2, Zenon
    <3> QED
      BY <1>2, <2>1, <2>2, <3>1, FS_AddElement, Zenon
  <2>3. CASE m \notin S
    <3>1. {j \in S : j <= m} = {j \in S : j <= m - 1}
      <4>1. \A j \in S : j <= m <=> (j <= m - 1 \/ j = m)
        OBVIOUS
      <4> QED
        BY <2>3, <4>1, Zenon
    <3> QED
      BY <1>2, <2>1, <2>3, <3>1
  <2> QED
    BY <2>2, <2>3, Zenon
<1> QED
  BY <1>1, <1>2, <1>3, <1>4, FS_EmptySet, Zenon

\* Nth finds the k-th position.
LEMMA NthIs ==
    ASSUME NEW n \in Nat, NEW S \in SUBSET (1 .. n), NEW k \in 1 .. Cardinality(S)
    PROVE  Nth(S, k) \in S /\ Cardinality({j \in S : j <= Nth(S, k)}) = k
<1> DEFINE C(m) == Cardinality({j \in S : j <= m})
           M == {m \in 0 .. n : C(m) >= k}
<1>1. /\ Cardinality(S) \in Nat /\ C(0) = 0 /\ C(n) = Cardinality(S)
      /\ \A m \in 0 .. n : C(m) \in Nat
      /\ \A m \in 1 .. n : C(m) = C(m - 1) + (IF m \in S THEN 1 ELSE 0)
  BY CountUpTo, Zenon
<1>2. PICK p \in M : \A m \in M : p <= m
  <2>1. n \in M /\ M \in SUBSET Nat
    <3> HIDE DEF C
    <3> QED
      BY <1>1
  <2> QED
    BY <2>1, Least, Zenon
<1>3. p \in S /\ C(p) = k
  <2> HIDE DEF C
  <2>1. p \in 1 .. n /\ C(p) >= k
    BY <1>1, <1>2
  <2>2. p - 1 \in 0 .. n /\ p - 1 \notin M
    BY <1>2, <2>1
  <2>3. C(p - 1) < k
    BY <1>1, <2>2
  <2> QED
    BY <1>1, <2>1, <2>2, <2>3
<1> QED
  BY <1>3, Zenon DEF Nth

\* A sequence is a function on its positions.
LEMMA FunctionIsSeq ==
    ASSUME NEW E, NEW n \in Nat, NEW f \in [1 .. n -> E]
    PROVE  f \in Seq(E) /\ DOMAIN f = 1 .. n /\ Len(f) = n
OBVIOUS

\* retain and filter leave the entries they keep.
LEMMA KeptPicks ==
    ASSUME NEW E, NEW q \in Seq(E), NEW keep \in SUBSET (DOMAIN q)
    PROVE  Kept(q, keep) \in Seq(E) /\ Picks(Kept(q, keep), q, keep)
<1> DEFINE n == Cardinality(keep)
           h == [k \in 1 .. n |-> Nth(keep, k)]
<1>1. Len(q) \in Nat /\ DOMAIN q = 1 .. Len(q)
  OBVIOUS
<1>2. n \in Nat
  BY <1>1, CountUpTo, Zenon
<1>3. \A k \in 1 .. n : h[k] \in keep /\ Cardinality({j \in keep : j <= h[k]}) = k
  BY <1>1, NthIs, Zenon
<1>4. Kept(q, keep) = [k \in 1 .. n |-> q[h[k]]]
  BY Zenon DEF Kept
<1> HIDE DEF h, n
<1>5. Kept(q, keep) \in Seq(E) /\ DOMAIN Kept(q, keep) = 1 .. n
  <2>1. \A k \in 1 .. n : q[h[k]] \in E
    <3>1. \A i \in DOMAIN q : q[i] \in E
      OBVIOUS
    <3> QED
      BY <1>3, <3>1, Zenon
  <2>2. Kept(q, keep) \in [1 .. n -> E]
    BY <1>4, <2>1, Zenon
  <2> QED
    BY <1>2, <2>2, FunctionIsSeq, Zenon
<1>6. h \in [1 .. n -> keep]
  BY <1>3, Zenon DEF h
<1>7. \A i, j \in 1 .. n : h[i] = h[j] => i = j
  BY <1>3, Zenon
<1> QED
  BY <1>4, <1>5, <1>6, <1>7, ZenonT(60) DEF Picks

\* The positions up to n.
LEMMA UpTo ==
    ASSUME NEW n \in Nat
    PROVE  IsFiniteSet(1 .. n) /\ Cardinality(1 .. n) = n
<1>1. n = n - 1 + 1 /\ (1 > n => n = 0)
  OBVIOUS
<1> QED
  BY <1>1, FS_Interval

\* The number of gaps grows at each gap.
LEMMA GapsGrow ==
    ASSUME NEW n \in Nat, NEW S
    PROVE  /\ \A i \in 1 .. n : IsFiniteSet((1 .. i) \ S) /\ Gaps(S, i) \in Nat /\ Gaps(S, i) <= i
           /\ \A i, j \in 1 .. n : i < j /\ j \notin S => Gaps(S, i) < Gaps(S, j)
           /\ \A i \in 1 .. n : i \notin S => Gaps(S, i) # 0
<1>1. ASSUME NEW i \in 1 .. n
      PROVE  IsFiniteSet((1 .. i) \ S) /\ Gaps(S, i) \in Nat /\ Gaps(S, i) <= i
  <2>1. i \in Nat /\ (1 .. i) \ S \in SUBSET (1 .. i)
    OBVIOUS
  <2>2. IsFiniteSet(1 .. i) /\ Cardinality(1 .. i) = i
    BY <2>1, UpTo, Zenon
  <2> QED
    BY <2>1, <2>2, FS_Subset, FS_CardinalityType, Zenon DEF Gaps
<1>2. ASSUME NEW i \in 1 .. n, NEW j \in 1 .. n, i < j, j \notin S
      PROVE  Gaps(S, i) < Gaps(S, j)
  <2> DEFINE A == (1 .. i) \ S
             B == (1 .. j) \ S
  <2>1. IsFiniteSet(A) /\ IsFiniteSet(B) /\ Cardinality(A) \in Nat /\ Cardinality(B) \in Nat
    BY <1>1, Zenon DEF Gaps
  <2>2. A \cup {j} \in SUBSET B /\ j \notin A
    BY <1>2
  <2> HIDE DEF A, B
  <2>3. Cardinality(A \cup {j}) = Cardinality(A) + 1
    BY <2>1, <2>2, FS_AddElement, Zenon
  <2>4. Cardinality(A) + 1 <= Cardinality(B)
    BY <2>1, <2>2, <2>3, FS_Subset, Zenon
  <2>5. Cardinality(A) < Cardinality(B)
    BY <2>1, <2>4
  <2> QED
    BY <2>5, Zenon DEF A, B, Gaps
<1>3. ASSUME NEW i \in 1 .. n, i \notin S
      PROVE  Gaps(S, i) # 0
  <2>1. i \in (1 .. i) \ S
    BY <1>3
  <2> QED
    BY <1>1, <2>1, FS_EmptySet, Zenon DEF Gaps
<1> QED
  BY <1>1, <1>2, <1>3, Zenon

\* A gap i is filled from beyond the first n positions, where n is the number
\* of entries that stay: at most n - g of them are among the first n when g
\* counts the gaps up to i, and the one with rank n + 1 - g is taken.
LEMMA FilledFromBeyond ==
    ASSUME NEW m \in Nat, NEW S \in SUBSET (1 .. m), NEW i \in 1 .. Cardinality(S), i \notin S
    PROVE  /\ Source(S)[i] \in S /\ Source(S)[i] > Cardinality(S)
           /\ Cardinality({j \in S : j <= Source(S)[i]}) = Cardinality(S) + 1 - Gaps(S, i)
           /\ Gaps(S, i) \in Nat
<1> DEFINE n == Cardinality(S)
           g == Gaps(S, i)
           p == Source(S)[i]
           A == (1 .. n) \ S
           B == {j \in S : j <= p}
           D == (1 .. n) \cap S
<1>1. n \in Nat /\ i \in 1 .. n
  BY CountUpTo, Zenon
<1>2. g \in Nat /\ g <= i /\ g # 0
  BY <1>1, GapsGrow, Zenon
<1>3. p = Nth(S, n + 1 - g)
  BY Zenon DEF Source
<1>4. n + 1 - g \in 1 .. n
  <2> HIDE DEF n, g
  <2> QED
    BY <1>1, <1>2
<1>5. p \in S /\ Cardinality(B) = n + 1 - g
  <2> HIDE DEF p, g
  <2> QED
    BY <1>3, <1>4, NthIs, Zenon
<1>6. ASSUME p <= n PROVE FALSE
  <2>1. IsFiniteSet(1 .. n) /\ Cardinality(1 .. n) = n
    BY <1>1, UpTo, Zenon
  <2>2. IsFiniteSet(A) /\ Cardinality(A) = n - Cardinality(D)
    BY <2>1, FS_Difference, Zenon
  <2>3. IsFiniteSet(D) /\ Cardinality(D) \in Nat
    BY <2>1, FS_Intersection, FS_CardinalityType, Zenon
  <2>4. (1 .. i) \ S \in SUBSET A
    <3> HIDE DEF n
    <3> QED
      BY <1>1
  <2>5. B \in SUBSET D
    <3>1. \A j \in S : j <= p => j \in 1 .. n
      <4> HIDE DEF p, n
      <4> QED
        BY <1>1, <1>5, <1>6
    <3> QED
      BY <3>1, Zenon
  <2>6. g <= Cardinality(A)
    BY <2>2, <2>4, FS_Subset, Zenon DEF Gaps
  <2>7. Cardinality(B) <= Cardinality(D)
    BY <2>3, <2>5, FS_Subset, Zenon
  <2> HIDE DEF A, B, D, g, n, p
  <2> QED
    BY <1>1, <1>2, <1>5, <2>2, <2>3, <2>6, <2>7
<1>7. p > n
  <2>1. p \in Nat
    <3> HIDE DEF p
    <3> QED
      BY <1>5
  <2> HIDE DEF p, n
  <2> QED
    BY <1>1, <1>6, <2>1
<1> QED
  BY <1>2, <1>5, <1>7, Zenon

\* So no entry that stays is put in two places.
LEMMA SourceIsInjective ==
    ASSUME NEW m \in Nat, NEW S \in SUBSET (1 .. m)
    PROVE  /\ Cardinality(S) \in Nat
           /\ Source(S) \in [1 .. Cardinality(S) -> S]
           /\ \A i, j \in 1 .. Cardinality(S) : Source(S)[i] = Source(S)[j] => i = j
<1> DEFINE n == Cardinality(S)
<1>1. n \in Nat
  BY CountUpTo, Zenon
<1>2. \A i \in 1 .. n : i \in S => Source(S)[i] = i
  BY Zenon DEF Source
<1>3. \A i \in 1 .. n : i \notin S =>
          /\ Source(S)[i] \in S /\ Source(S)[i] > n
          /\ Cardinality({j \in S : j <= Source(S)[i]}) = n + 1 - Gaps(S, i)
          /\ Gaps(S, i) \in Nat
  BY FilledFromBeyond, Zenon
<1>4. \A i, j \in 1 .. n : i < j /\ j \notin S => Gaps(S, i) < Gaps(S, j)
  BY <1>1, GapsGrow, Zenon
<1>5. Source(S) \in [1 .. n -> S]
  BY <1>2, <1>3, Zenon DEF Source
<1> HIDE DEF n
<1>6. ASSUME NEW i \in 1 .. n, NEW j \in 1 .. n, Source(S)[i] = Source(S)[j], i # j
      PROVE  FALSE
  <2>1. ~(i \in S /\ j \in S)
    BY <1>2, <1>6, Zenon
  <2>2. ~(i \in S /\ j \notin S) /\ ~(j \in S /\ i \notin S)
    <3>1. ASSUME NEW a \in 1 .. n, NEW b \in 1 .. n, a \in S, b \notin S
          PROVE  Source(S)[a] # Source(S)[b]
      <4>1. Source(S)[a] = a
        BY <1>2, <3>1, Zenon
      <4>2. Source(S)[b] > n
        BY <1>3, <3>1, Zenon
      <4>3. ~(a > n)
        BY <1>1
      <4> QED
        BY <4>1, <4>2, <4>3, Zenon
    <3> QED
      BY <1>6, <3>1, Zenon
  <2>3. i \notin S /\ j \notin S
    BY <2>1, <2>2, Zenon
  <2>4. n + 1 - Gaps(S, i) = n + 1 - Gaps(S, j) /\ Gaps(S, i) \in Nat /\ Gaps(S, j) \in Nat
    BY <1>3, <1>6, <2>3, Zenon
  <2>5. Gaps(S, i) = Gaps(S, j)
    BY <1>1, <2>4
  <2>6. i < j \/ j < i
    BY <1>6
  <2> QED
    BY <1>4, <2>3, <2>4, <2>5, <2>6
<1> QED
  BY <1>1, <1>5, <1>6, Zenon DEF n

\* The sweep leaves the entries that were not kicked.
LEMMA SweptPicks ==
    ASSUME NEW q \in Seq(Entry)
    PROVE  Swept(q) \in Seq(Entry) /\ Picks(Swept(q), q, Unkicked(q))
<1> DEFINE S == Unkicked(q)
           n == Cardinality(S)
           h == Source(S)
<1>1. Len(q) \in Nat /\ DOMAIN q = 1 .. Len(q) /\ S \in SUBSET (1 .. Len(q))
  BY DEF Unkicked
<1>2. n \in Nat /\ h \in [1 .. n -> S] /\ \A i, j \in 1 .. n : h[i] = h[j] => i = j
  BY <1>1, SourceIsInjective, Zenon
<1>3. Swept(q) = [i \in 1 .. n |-> q[h[i]]]
  BY Zenon DEF Swept, Source, Unkicked, Gaps
<1> HIDE DEF h, n, S
<1>4. \A i \in 1 .. n : q[h[i]] \in Entry
  <2>1. \A i \in DOMAIN q : q[i] \in Entry
    OBVIOUS
  <2> QED
    BY <1>1, <1>2, <2>1, Zenon
<1>5. Swept(q) \in [1 .. n -> Entry]
  BY <1>3, <1>4, Zenon
<1>6. Swept(q) \in Seq(Entry) /\ DOMAIN Swept(q) = 1 .. n
  BY <1>2, <1>5, FunctionIsSeq, Zenon
<1>7. Picks(Swept(q), q, S)
  BY <1>2, <1>3, <1>6 DEF Picks
<1> QED
  BY <1>6, <1>7, Zenon DEF S
-----------------------------------------------------------------------------
\* What QueueIsSound says of a queue and counts.
Sound(q, counts) ==
    /\ \A i, j \in DOMAIN q : q[i].serial = q[j].serial => i = j
    /\ \A i \in DOMAIN q : counts[q[i].serial] > 0

\* Besides the types and the property itself: the poller has an entry to work
\* on while it works.
IInv ==
    /\ TypeOK
    /\ QueueIsSound
    /\ poller.pc \in {"work", "connecting"} => poller.work # <<>>

\* Entries picked from a sound queue are a sound queue.
LEMMA PicksSound ==
    ASSUME NEW q, NEW r, NEW keep \in SUBSET (DOMAIN r), NEW counts, Picks(q, r, keep), Sound(r, counts)
    PROVE  Sound(q, counts)
<1>1. PICK h \in [DOMAIN q -> keep] :
          /\ \A i, j \in DOMAIN q : h[i] = h[j] => i = j
          /\ \A i \in DOMAIN q : q[i] = r[h[i]]
  BY Zenon DEF Picks
<1> QED
  BY <1>1 DEF Sound

\* Updating entries in place, without changing a serial, keeps a queue sound.
LEMMA UpdateSound ==
    ASSUME NEW q \in Seq(Entry), NEW r \in Seq(Entry), NEW counts, Sound(q, counts), DOMAIN r = DOMAIN q,
           \A i \in DOMAIN q : r[i].serial = q[i].serial
    PROVE  Sound(r, counts)
BY Zenon DEF Sound

\* Taking a transport out leaves a sound queue without it.
LEMMA WithoutSound ==
    ASSUME NEW s, TypeOK, QueueIsSound
    PROVE  /\ Without(s) \in Seq(Entry) /\ Sound(Without(s), ref_counts)
           /\ \A i \in DOMAIN Without(s) : Without(s)[i].serial # s
<1> DEFINE keep == {i \in DOMAIN queue : queue[i].serial # s}
<1>1. queue \in Seq(Entry) /\ keep \in SUBSET (DOMAIN queue) /\ Sound(queue, ref_counts)
  BY Zenon DEF TypeOK, QueueIsSound, Sound
<1>2. Without(s) = Kept(queue, keep)
  BY Zenon DEF Without
<1>3. \A i \in keep : queue[i].serial # s
  BY Zenon
<1> HIDE DEF keep
<1>4. Without(s) \in Seq(Entry) /\ Picks(Without(s), queue, keep)
  BY <1>1, <1>2, KeptPicks, Zenon
<1>5. Sound(Without(s), ref_counts)
  BY <1>1, <1>4, PicksSound, Zenon
<1>6. \A i \in DOMAIN Without(s) : Without(s)[i].serial # s
  BY <1>3, <1>4 DEF Picks
<1> QED
  BY <1>4, <1>5, <1>6, Zenon

\* The snapshot of the poller: positions and entries.
LEMMA ReadyType ==
    ASSUME NEW q \in Seq(Entry)
    PROVE  Ready(q) \in Seq(Nat \X Entry)
<1> DEFINE r == [i \in DOMAIN q |-> <<i, q[i]>>]
           keep == {i \in DOMAIN q : q[i].due}
<1>1. Len(q) \in Nat /\ DOMAIN q = 1 .. Len(q)
  OBVIOUS
<1>2. r \in [1 .. Len(q) -> Nat \X Entry]
  <2>1. \A i \in DOMAIN q : i \in Nat /\ q[i] \in Entry
    OBVIOUS
  <2> QED
    BY <1>1, <2>1, Zenon
<1>3. r \in Seq(Nat \X Entry) /\ keep \in SUBSET (DOMAIN r)
  BY <1>1, <1>2, FunctionIsSeq, Zenon
<1>4. Ready(q) = Kept(r, keep)
  BY Zenon DEF Ready
<1> HIDE DEF r, keep
<1> QED
  BY <1>3, <1>4, KeptPicks, Zenon


\* What is left to show once the parts of the next state are known.
LEMMA Holds ==
    ASSUME queue' \in Seq(Entry), ref_counts' \in [Serials -> Nat],
           client' \in [Clients -> [op : {"idle", "clear"}] \cup [op : {"add", "unref"}, serial : Serials]],
           poller' \in [pc : {"sleep", "work", "connecting", "done"}, work : Seq(Nat \X Entry)],
           shutdown' \in BOOLEAN, Sound(queue', ref_counts'),
           poller'.pc \in {"work", "connecting"} => poller'.work # <<>>
    PROVE  IInv'
BY Zenon DEF IInv, TypeOK, QueueIsSound, Sound

\* The entries of a queue name transports.
LEMMA EntriesOf ==
    ASSUME NEW q \in Seq(Entry)
    PROVE  /\ Len(q) \in Nat /\ DOMAIN q = 1 .. Len(q)
           /\ \A i \in DOMAIN q : q[i] \in Entry /\ q[i].serial \in Serials
<1>1. \A i \in DOMAIN q : q[i] \in Entry
  OBVIOUS
<1>2. \A e \in Entry : e.serial \in Serials
  BY Zenon DEF Entry
<1> QED
  BY <1>1, <1>2

\* Growing counts keep a queue sound.
LEMMA GrowSound ==
    ASSUME NEW q \in Seq(Entry), NEW m \in [Serials -> Nat], NEW n \in [Serials -> Nat], Sound(q, m),
           \A s \in Serials : m[s] > 0 => n[s] > 0
    PROVE  Sound(q, n)
<1>1. \A i \in DOMAIN q : q[i].serial \in Serials
  BY EntriesOf, Zenon
<1> QED
  BY <1>1, Zenon DEF Sound

\* add_transport.
LEMMA AddOK ==
    ASSUME IInv, NEW c \in Clients, AddFinish(c)
    PROVE  IInv'
<1> DEFINE s == client[c].serial
           new == [serial |-> s, retry_count |-> 0, kicked |-> FALSE, due |-> TRUE]
<1>1. TypeOK /\ queue \in Seq(Entry) /\ ref_counts \in [Serials -> Nat] /\ Sound(queue, ref_counts)
  BY Zenon DEF IInv, TypeOK, QueueIsSound, Sound
<1>2. s \in Serials
  BY <1>1, Zenon DEF TypeOK, AddFinish
<1>3. new \in Entry
  BY <1>2, Zenon DEF Entry
<1>4. ref_counts' = [ref_counts EXCEPT ![s] = @ + 1]
  BY Zenon DEF AddFinish
<1> HIDE DEF s
<1>5. /\ ref_counts' \in [Serials -> Nat] /\ ref_counts'[s] > 0
      /\ \A t \in Serials : ref_counts[t] > 0 => ref_counts'[t] > 0
  BY <1>1, <1>2, <1>4
<1>6. queue' \in Seq(Entry) /\ Sound(queue', ref_counts')
  <2>1. Sound(queue, ref_counts')
    BY <1>1, <1>5, GrowSound, Zenon
  <2>2. CASE Queued(s)
    <3>1. queue' = [i \in DOMAIN queue |-> IF queue[i].serial = s THEN new ELSE queue[i]]
      BY <2>2, Zenon DEF AddFinish, s
    <3>2. Len(queue) \in Nat /\ DOMAIN queue = 1 .. Len(queue) /\ \A i \in DOMAIN queue : queue[i] \in Entry
      BY <1>1
    <3>3. queue' \in [1 .. Len(queue) -> Entry]
      BY <1>3, <3>1, <3>2, Zenon
    <3>4. queue' \in Seq(Entry) /\ DOMAIN queue' = DOMAIN queue
      BY <3>2, <3>3, FunctionIsSeq, Zenon
    <3>5. \A i \in DOMAIN queue : queue'[i].serial = queue[i].serial
      BY <3>1, Zenon
    <3> QED
      BY <1>1, <2>1, <3>4, <3>5, UpdateSound, Zenon
  <2>3. CASE ~Queued(s)
    <3>1. queue' = Append(queue, new)
      BY <2>3, Zenon DEF AddFinish, s
    <3> HIDE DEF new
    <3>2. /\ queue' \in Seq(Entry) /\ DOMAIN queue' = DOMAIN queue \cup {Len(queue) + 1}
          /\ Len(queue) + 1 \notin DOMAIN queue
          /\ \A i \in DOMAIN queue : queue'[i] = queue[i]
          /\ queue'[Len(queue) + 1] = new
      BY <1>1, <1>3, <3>1
    <3>3. new.serial = s
      BY Zenon DEF new
    <3>4. \A i \in DOMAIN queue : queue[i].serial # s
      BY <2>3, Zenon DEF Queued
    <3> QED
      BY <1>5, <2>1, <3>2, <3>3, <3>4, Zenon DEF Sound
  <2> QED
    BY <2>2, <2>3, Zenon
<1> QED
  BY <1>1, <1>5, <1>6, Holds, Zenon DEF AddFinish, Returns, TypeOK, IInv

\* transport_unref of the last reference: count and entry go together.
LEMMA UnrefOK ==
    ASSUME IInv, NEW c \in Clients, UnrefFinish(c)
    PROVE  IInv'
<1> DEFINE s == client[c].serial
<1>1. TypeOK /\ QueueIsSound /\ ref_counts \in [Serials -> Nat]
  BY Zenon DEF IInv, TypeOK
<1>2. s \in Serials
  BY <1>1, Zenon DEF TypeOK, UnrefFinish
<1>3. queue' = Without(s) /\ ref_counts' = [ref_counts EXCEPT ![s] = 0]
  BY Zenon DEF UnrefFinish
<1> HIDE DEF s
<1>4. /\ queue' \in Seq(Entry) /\ Sound(queue', ref_counts)
      /\ \A i \in DOMAIN queue' : queue'[i].serial # s
  BY <1>1, <1>3, WithoutSound, Zenon
<1>5. /\ ref_counts' \in [Serials -> Nat]
      /\ \A t \in Serials : t # s => ref_counts'[t] = ref_counts[t]
  BY <1>1, <1>2, <1>3, Zenon
<1>6. \A i \in DOMAIN queue' : queue'[i].serial \in Serials
  BY <1>4, EntriesOf, Zenon
<1>7. Sound(queue', ref_counts')
  BY <1>4, <1>5, <1>6, Zenon DEF Sound
<1> QED
  BY <1>1, <1>4, <1>5, <1>7, Holds, Zenon DEF UnrefFinish, Returns, TypeOK, IInv


\* An update of the queue in place, the counts left alone.
LEMMA UpdateOK ==
    ASSUME IInv, NEW U, DOMAIN U = DOMAIN queue,
           \A i \in DOMAIN queue : U[i] \in Entry /\ U[i].serial = queue[i].serial,
           queue' = [i \in DOMAIN queue |-> U[i]], UNCHANGED ref_counts
    PROVE  queue' \in Seq(Entry) /\ Sound(queue', ref_counts')
<1>1. queue \in Seq(Entry) /\ Sound(queue, ref_counts)
  BY Zenon DEF IInv, TypeOK, QueueIsSound, Sound
<1>2. Len(queue) \in Nat /\ DOMAIN queue = 1 .. Len(queue)
  BY <1>1
<1>3. queue' \in [1 .. Len(queue) -> Entry]
  BY <1>2, Zenon
<1>4. queue' \in Seq(Entry) /\ DOMAIN queue' = DOMAIN queue
  BY <1>2, <1>3, FunctionIsSeq, Zenon
<1>5. \A i \in DOMAIN queue : queue'[i].serial = queue[i].serial
  BY Zenon
<1> QED
  BY <1>1, <1>4, <1>5, UpdateSound, Zenon

\* kick_transport, and the end of a back-off.
LEMMA MarkOK ==
    ASSUME IInv, NEW s, (\E c \in Clients : Kick(c, s)) \/ Elapse(s)
    PROVE  IInv'
<1>1. TypeOK /\ queue \in Seq(Entry)
  BY Zenon DEF IInv, TypeOK
<1>2. \A i \in DOMAIN queue : queue[i] \in Entry
  BY <1>1, EntriesOf, Zenon
<1>3. UNCHANGED <<ref_counts, client, poller, shutdown>>
  BY Zenon DEF Kick, Elapse
<1>4. queue' \in Seq(Entry) /\ Sound(queue', ref_counts')
  <2>1. CASE \E c \in Clients : Kick(c, s)
    <3> DEFINE U == [i \in DOMAIN queue |->
                       IF queue[i].serial = s THEN [queue[i] EXCEPT !.kicked = TRUE] ELSE queue[i]]
    <3>1. \A i \in DOMAIN queue : U[i] \in Entry /\ U[i].serial = queue[i].serial
      BY <1>2, Zenon DEF Entry
    <3>2. queue' = [i \in DOMAIN queue |-> U[i]] /\ DOMAIN U = DOMAIN queue
      BY <2>1, Zenon DEF Kick
    <3> HIDE DEF U
    <3> QED
      BY <1>3, <3>1, <3>2, UpdateOK, Zenon
  <2>2. CASE Elapse(s)
    <3> DEFINE U == [i \in DOMAIN queue |->
                       IF queue[i].serial = s THEN [queue[i] EXCEPT !.due = TRUE] ELSE queue[i]]
    <3>1. \A i \in DOMAIN queue : U[i] \in Entry /\ U[i].serial = queue[i].serial
      BY <1>2, Zenon DEF Entry
    <3>2. queue' = [i \in DOMAIN queue |-> U[i]] /\ DOMAIN U = DOMAIN queue
      BY <2>2, Zenon DEF Elapse
    <3> HIDE DEF U
    <3> QED
      BY <1>3, <3>1, <3>2, UpdateOK, Zenon
  <2> QED
    BY <2>1, <2>2, Zenon
<1> QED
  BY <1>1, <1>3, <1>4, Holds, Zenon DEF TypeOK, IInv

\* The poller moves on to the next entry of its snapshot.
LEMMA AdvanceOK ==
    ASSUME IInv, poller.pc \in {"work", "connecting"}, Advance
    PROVE  /\ poller' \in [pc : {"sleep", "work", "connecting", "done"}, work : Seq(Nat \X Entry)]
           /\ poller'.pc \in {"work", "connecting"} => poller'.work # <<>>
<1> DEFINE w == poller.work
<1>1. w \in Seq(Nat \X Entry) /\ w # <<>>
  BY Zenon DEF IInv, TypeOK
<1>2. poller' = [pc |-> IF Len(w) = 1 THEN "sleep" ELSE "work", work |-> Tail(w)]
  BY Zenon DEF Advance
<1> HIDE DEF w
<1>3. Tail(w) \in Seq(Nat \X Entry) /\ (Len(w) # 1 => Tail(w) # <<>>)
  <2>1. Tail(w) \in Seq(Nat \X Entry) /\ Len(Tail(w)) = Len(w) - 1 /\ Len(w) \in Nat
    BY <1>1
  <2>2. Len(w) # 1 => Len(Tail(w)) # 0
    BY <2>1
  <2>3. Len(<<>>) = 0
    BY Zenon
  <2> QED
    BY <2>1, <2>2, <2>3, Zenon
<1> QED
  BY <1>2, <1>3, Zenon

\* The entry the poller works on.
LEMMA CurrentIs ==
    ASSUME IInv, poller.pc \in {"work", "connecting"}
    PROVE  Current \in Entry /\ Head(poller.work) \in Nat \X Entry
<1>1. poller.work \in Seq(Nat \X Entry) /\ poller.work # <<>>
  BY Zenon DEF IInv, TypeOK
<1>2. Head(poller.work) \in Nat \X Entry
  BY <1>1
<1> QED
  BY <1>2, Zenon DEF Current

\* The poller's steps.
LEMMA PollerOK ==
    ASSUME IInv, PollerStep
    PROVE  IInv'
<1>1. /\ TypeOK /\ QueueIsSound /\ queue \in Seq(Entry) /\ Sound(queue, ref_counts)
      /\ poller \in [pc : {"sleep", "work", "connecting", "done"}, work : Seq(Nat \X Entry)]
  BY Zenon DEF IInv, TypeOK, QueueIsSound, Sound
<1>2. UNCHANGED <<ref_counts, client, shutdown>>
  BY Zenon DEF PollerStep, Poll, GiveUp, Attempt, ConnectOk, ConnectErr, Exit
<1>3. CASE Poll
  <2>1. queue' = Swept(queue) /\ poller' = [pc |-> IF Ready(queue') = <<>> THEN "sleep" ELSE "work",
                                            work |-> Ready(queue')]
    BY <1>3, Zenon DEF Poll
  <2>2. queue' \in Seq(Entry) /\ Picks(queue', queue, Unkicked(queue))
    BY <1>1, <2>1, SweptPicks, Zenon
  <2>3. Sound(queue', ref_counts)
    <3>1. Unkicked(queue) \in SUBSET (DOMAIN queue)
      BY Zenon DEF Unkicked
    <3> QED
      BY <1>1, <2>2, <3>1, PicksSound, Zenon
  <2>4. Ready(queue') \in Seq(Nat \X Entry)
    BY <2>2, ReadyType, Zenon
  <2> QED
    BY <1>1, <1>2, <2>1, <2>2, <2>3, <2>4, Holds, Zenon DEF TypeOK
<1>4. CASE GiveUp \/ ConnectOk
  <2>1. queue' = Without(Current.serial) /\ Advance /\ poller.pc \in {"work", "connecting"}
    BY <1>4, Zenon DEF GiveUp, ConnectOk
  <2>2. queue' \in Seq(Entry) /\ Sound(queue', ref_counts)
    BY <1>1, <2>1, WithoutSound, Zenon
  <2> QED
    BY <1>1, <1>2, <2>1, <2>2, AdvanceOK, Holds, Zenon DEF TypeOK
<1>5. CASE ConnectErr
  <2> DEFINE idx == Head(poller.work)[1]
  <2>1. Advance /\ poller.pc = "connecting"
    BY <1>5, Zenon DEF ConnectErr
  <2>2. Current \in Entry /\ Current.retry_count + 1 \in Nat
    BY <2>1, CurrentIs, SMTT(60) DEF Entry
  <2>3. queue' \in Seq(Entry) /\ Sound(queue', ref_counts')
    <3>1. CASE queue' = queue
      BY <1>1, <1>2, <3>1, Zenon
    <3>2. CASE /\ idx \in DOMAIN queue
               /\ queue' = [queue EXCEPT ![idx].retry_count = Current.retry_count + 1, ![idx].due = FALSE]
      <4> DEFINE U == [i \in DOMAIN queue |->
                         IF i = idx THEN [queue[idx] EXCEPT !.retry_count = Current.retry_count + 1, !.due = FALSE]
                         ELSE queue[i]]
      <4>1. \A i \in DOMAIN queue : queue[i] \in Entry
        BY <1>1, EntriesOf, Zenon
      <4>2. \A i \in DOMAIN queue : U[i] \in Entry /\ U[i].serial = queue[i].serial
        BY <2>2, <3>2, <4>1, Zenon DEF Entry
      <4>3. queue' = [i \in DOMAIN queue |-> U[i]] /\ DOMAIN U = DOMAIN queue
        BY <3>2, <4>1, Zenon DEF Entry
      <4> HIDE DEF U
      <4> QED
        BY <1>2, <4>2, <4>3, UpdateOK, Zenon
    <3> QED
      BY <1>5, <3>1, <3>2, Zenon DEF ConnectErr
  <2> QED
    BY <1>1, <1>2, <2>1, <2>3, AdvanceOK, Holds, Zenon DEF TypeOK
<1>6. CASE Attempt \/ Exit
  <2>1. queue' = queue
    BY <1>6, Zenon DEF Attempt, Exit
  <2>2. /\ poller' \in [pc : {"sleep", "work", "connecting", "done"}, work : Seq(Nat \X Entry)]
        /\ poller'.pc \in {"work", "connecting"} => poller'.work # <<>>
    BY <1>1, <1>6, Zenon DEF Attempt, Exit, IInv
  <2> QED
    BY <1>1, <1>2, <2>1, <2>2, Holds, Zenon DEF TypeOK
<1> QED
  BY <1>3, <1>4, <1>5, <1>6, Zenon DEF PollerStep


\* The steps that lock a mutex, drop a reference that is not the last, or
\* clear the queue with its counts.
LEMMA OtherCallsOK ==
    ASSUME IInv, NEW c \in Clients,
           \/ \E s \in Serials : AddLock(c, s) \/ Unref(c, s) \/ UnrefLock(c, s)
           \/ ClearLock(c) \/ ClearFinish(c)
    PROVE  IInv'
<1>1. /\ TypeOK /\ queue \in Seq(Entry) /\ Sound(queue, ref_counts) /\ ref_counts \in [Serials -> Nat]
      /\ client \in [Clients -> [op : {"idle", "clear"}] \cup [op : {"add", "unref"}, serial : Serials]]
  BY Zenon DEF IInv, TypeOK, QueueIsSound, Sound
<1>2. UNCHANGED <<poller, shutdown>>
  BY Zenon DEF AddLock, Unref, UnrefLock, ClearLock, ClearFinish
<1>3. CASE \E s \in Serials : AddLock(c, s) \/ UnrefLock(c, s)
  <2>1. PICK s \in Serials : AddLock(c, s) \/ UnrefLock(c, s)
    BY <1>3, Zenon
  <2>2. client' \in [Clients -> [op : {"idle", "clear"}] \cup [op : {"add", "unref"}, serial : Serials]]
    BY <1>1, <2>1 DEF AddLock, UnrefLock, Calls
  <2> QED
    BY <1>1, <1>2, <2>1, <2>2, Holds, Zenon DEF AddLock, UnrefLock, TypeOK, IInv
<1>4. CASE \E s \in Serials : Unref(c, s)
  <2>1. PICK s \in Serials : Unref(c, s)
    BY <1>4, Zenon
  <2>2. ref_counts[s] > 1 /\ ref_counts' = [ref_counts EXCEPT ![s] = @ - 1] /\ UNCHANGED <<queue, client>>
    BY <2>1, Zenon DEF Unref
  <2>3. /\ ref_counts' \in [Serials -> Nat]
        /\ \A t \in Serials : ref_counts[t] > 0 => ref_counts'[t] > 0
    BY <1>1, <2>2
  <2>4. Sound(queue, ref_counts')
    BY <1>1, <2>3, GrowSound, Zenon
  <2> QED
    BY <1>1, <1>2, <2>2, <2>3, <2>4, Holds, Zenon DEF TypeOK, IInv
<1>5. CASE ClearLock(c)
  <2>1. client' \in [Clients -> [op : {"idle", "clear"}] \cup [op : {"add", "unref"}, serial : Serials]]
    BY <1>1, <1>5, Zenon DEF ClearLock, Calls
  <2> QED
    BY <1>1, <1>2, <1>5, <2>1, Holds, Zenon DEF ClearLock, TypeOK, IInv
<1>6. CASE ClearFinish(c)
  <2>1. client' \in [Clients -> [op : {"idle", "clear"}] \cup [op : {"add", "unref"}, serial : Serials]]
    BY <1>1, <1>6, Zenon DEF ClearFinish, Returns
  <2>2. queue' \in Seq(Entry) /\ DOMAIN queue' = {} /\ ref_counts' \in [Serials -> Nat]
    BY <1>6 DEF ClearFinish
  <2>3. Sound(queue', ref_counts')
    BY <2>2, Zenon DEF Sound
  <2> QED
    BY <1>1, <1>2, <2>1, <2>2, <2>3, Holds, Zenon DEF TypeOK, IInv
<1> QED
  BY <1>3, <1>4, <1>5, <1>6, Zenon

\* The invariant is inductive.
LEMMA Inductive ==
    ASSUME IInv, [Next]_vars
    PROVE  IInv'
<1>1. CASE UNCHANGED vars
  BY <1>1, Zenon DEF vars, IInv, TypeOK, QueueIsSound
<1>2. ASSUME NEW c \in Clients, ClientStep(c) PROVE IInv'
  BY <1>2, AddOK, UnrefOK, MarkOK, OtherCallsOK, Zenon DEF ClientStep
<1>3. CASE Stop
  BY <1>3, Zenon DEF Stop, IInv, TypeOK, QueueIsSound
<1>4. CASE PollerStep
  BY <1>4, PollerOK, Zenon
<1>5. ASSUME NEW s \in Serials, Elapse(s) PROVE IInv'
  BY <1>5, MarkOK, Zenon
<1> QED
  BY <1>1, <1>2, <1>3, <1>4, <1>5, Zenon DEF Next

\* It holds before anything was queued.
LEMMA Initially ==
    ASSUME Init
    PROVE  IInv
<1>1. queue = <<>> /\ DOMAIN queue = {}
  BY DEF Init
<1>2. queue \in Seq(Entry) /\ ref_counts \in [Serials -> Nat] /\ shutdown \in BOOLEAN
  <2>1. <<>> \in Seq(Entry)
    OBVIOUS
  <2>2. ref_counts \in [Serials -> Nat]
    BY Zenon DEF Init
  <2>3. shutdown \in BOOLEAN
    BY Zenon DEF Init
  <2> QED
    BY <1>1, <2>1, <2>2, <2>3, Zenon
<1>3. client \in [Clients -> [op : {"idle", "clear"}] \cup [op : {"add", "unref"}, serial : Serials]]
  BY Zenon DEF Init
<1>4. /\ poller \in [pc : {"sleep", "work", "connecting", "done"}, work : Seq(Nat \X Entry)]
      /\ poller.pc = "sleep"
  BY DEF Init
<1>5. QueueIsSound
  BY <1>1, Zenon DEF QueueIsSound
<1> QED
  BY <1>2, <1>3, <1>4, <1>5, Zenon DEF IInv, TypeOK

\* However many threads use the handler of server/transport.rs, no reference
\* count goes below zero and every entry, call and snapshot is well formed.
THEOREM TypeCorrect == Spec => []TypeOK
<1>1. Init => IInv
  BY Initially, Zenon
<1>2. IInv /\ [Next]_vars => IInv'
  BY Inductive, Zenon
<1>3. IInv => TypeOK
  BY Zenon DEF IInv
<1> QED
  BY <1>1, <1>2, <1>3, PTL DEF Spec

\* However add_transport, kick_transport, transport_unref, clear_queue and the
\* poller interleave, a transport is queued at most once and only while it is
\* referenced.
THEOREM QueueSound == Spec => []QueueIsSound
<1>1. Init => IInv
  BY Initially, Zenon
<1>2. IInv /\ [Next]_vars => IInv'
  BY Inductive, Zenon
<1>3. IInv => QueueIsSound
  BY Zenon DEF IInv
<1> QED
  BY <1>1, <1>2, <1>3, PTL DEF Spec

=============================================================================
