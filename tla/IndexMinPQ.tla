----------------------------- MODULE IndexMinPQ -----------------------------
(* The indexed binary heap behind the attention queue of the mDNS engine: an  *)
(* array of items and, for each item, its place in the array. An item is a    *)
(* key (which equality and hash look at) with the deadline it is ordered by.  *)
(* The machine pushes and pops; "wanted" is the map from keys to deadlines    *)
(* the queue stands for (ZeroConfig's attention).                             *)
EXTENDS Integers, Sequences, FiniteSets, FiniteSetsExt, Functions, TLC

CONSTANTS Keys, Deadlines

VARIABLES pq,      \* [data, index]
          wanted,  \* key |-> deadline
          popped   \* what the last pop returned: {} or {item}

Item(k, d) == [key |-> k, at |-> d]
Less(pq_, i, j) == pq_.data[i].at < pq_.data[j].at
Empty == [data |-> <<>>, index |-> [k \in {} |-> 0]]

(* Defective form of Swap: only one of the two index entries is written.      *)
SwapOneIndex(h, i, j) ==
  [data  |-> [h.data EXCEPT ![i] = h.data[j], ![j] = h.data[i]],
   index |-> [h.index EXCEPT ![h.data[i].key] = j]]
Swap(h, i, j) ==
  [data  |-> [h.data EXCEPT ![i] = h.data[j], ![j] = h.data[i]],
   index |-> (h.data[j].key :> i) @@ (h.data[i].key :> j) @@ h.index]

RECURSIVE Swim(_, _)
Swim(h, i) == IF i = 1 \/ ~Less(h, i, i \div 2) THEN h
              ELSE Swim(Swap(h, i, i \div 2), i \div 2)

Smallest(h, i) ==
  LET left == IF 2 * i <= Len(h.data) /\ Less(h, 2 * i, i) THEN 2 * i ELSE i
  IN IF 2 * i + 1 <= Len(h.data) /\ Less(h, 2 * i + 1, left) THEN 2 * i + 1 ELSE left

RECURSIVE Sink(_, _)
Sink(h, i) == IF Smallest(h, i) = i THEN h ELSE Sink(Swap(h, i, Smallest(h, i)), Smallest(h, i))

Insert(h, item) ==
  Swim([data |-> Append(h.data, item), index |-> (item.key :> Len(h.data) + 1) @@ h.index],
       Len(h.data) + 1)

Overwrite(h, item) ==
  LET i == h.index[item.key]
      new == [h EXCEPT !.data[i] = item]
  IN CASE item.at < h.data[i].at -> Swim(new, i)
       [] item.at > h.data[i].at -> Sink(new, i)
       [] OTHER -> new
PushItem(h, item) == IF item.key \in DOMAIN h.index THEN Overwrite(h, item) ELSE Insert(h, item)

PopItem(h) ==
  LET last == Len(h.data)
      swapped == Swap(h, 1, last)
      rest == [data  |-> SubSeq(swapped.data, 1, last - 1),
               index |-> Restrict(swapped.index, DOMAIN h.index \ {h.data[1].key})]
  IN IF rest.data = <<>> THEN rest ELSE Sink(rest, 1)

-----------------------------------------------------------------------------
Init == pq = Empty /\ wanted = [k \in {} |-> 0] /\ popped = {}

Push(k, d) == /\ pq' = PushItem(pq, Item(k, d))
              /\ wanted' = (k :> d) @@ wanted
              /\ popped' = {}

Pop == /\ pq.data # <<>>
       /\ popped' = {pq.data[1]}
       /\ pq' = PopItem(pq)
       /\ wanted' = Restrict(wanted, DOMAIN wanted \ {pq.data[1].key})

Next == (\E k \in Keys, d \in Deadlines : Push(k, d)) \/ Pop

-----------------------------------------------------------------------------
(* Through any pushes, re-pushes with another deadline and pops, the array    *)
(* holds exactly the items wanted, each once, the index says where, and the   *)
(* first item, which peek reads and pop takes, has the earliest deadline.     *)
HeapIsSound ==
  /\ DOMAIN pq.index = DOMAIN wanted /\ Len(pq.data) = Cardinality(DOMAIN wanted)
  /\ \A k \in DOMAIN wanted : pq.data[pq.index[k]] = Item(k, wanted[k])
  /\ pq.data # <<>> => pq.data[1].at = Min({wanted[k] : k \in DOMAIN wanted})
=============================================================================
