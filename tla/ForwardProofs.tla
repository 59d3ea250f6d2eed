---------------------------- MODULE ForwardProofs ----------------------------
(***************************************************************************)
(* Forwards: the table of the rules first, then the relays.                *)
(*                                                                         *)
(* RulesAreServed of ForwardTable for any ports, specs and number of       *)
(* requests.  A rule is removed from the table and its listener silenced   *)
(* under one lock; the thread notices later.  The invariant therefore says *)
(* what a thread may still do: one more connection gets through only if it *)
(* had read the flag already, and the next thing it does is to read it     *)
(* again.                                                                  *)
(***************************************************************************)
EXTENDS Links, TLAPS

Rule == [local : Ports \cup Named, remote : Remotes, id : Nat]
Thread == [port : Ports \cup Named, active : BOOLEAN, at : {"check", "accept", "closed"},
           remote : Remotes, waiting : Nat, late : {0, 1}]

Serves(l, f) ==
    /\ l.active /\ l.remote = f.remote /\ l.port = f.local
    /\ l.port \in Ports => l.at # "closed"

Lately(l) ==
    /\ l.active => l.late = 0
    /\ l.late = 1 => l.at # "accept"

\* The rules fs and the threads ls agree.
Sound(fs, ls) ==
    /\ ls \in Seq(Thread) /\ fs \in SUBSET Rule
    /\ \A f, g \in fs : f.local = g.local => f = g
    /\ \A f \in fs : f.id \in DOMAIN ls /\ Serves(ls[f.id], f)
    /\ \A i \in DOMAIN ls : ls[i].active => \E f \in fs : f.id = i
    /\ \A i \in DOMAIN ls : Lately(ls[i])

IInv ==
    /\ Sound(forwards, listeners)
    /\ \A r, q \in reverses : r.remote = q.remote => r = q
-----------------------------------------------------------------------------
\* The threads by rule id.
LEMMA Threads ==
    ASSUME NEW ls \in Seq(Thread)
    PROVE  /\ Len(ls) \in Nat /\ DOMAIN ls = 1 .. Len(ls)
           /\ \A i \in DOMAIN ls : ls[i] \in Thread
OBVIOUS

\* A change of the threads one by one leaves a sequence of threads.
LEMMA ThreadsChanged ==
    ASSUME NEW ls \in Seq(Thread), NEW F, F \in [DOMAIN ls -> Thread]
    PROVE  F \in Seq(Thread) /\ DOMAIN F = DOMAIN ls /\ Len(F) = Len(ls)
<1>1. Len(ls) \in Nat /\ DOMAIN ls = 1 .. Len(ls)
  OBVIOUS
<1>2. F \in [1 .. Len(ls) -> Thread]
  BY <1>1, Zenon
<1> QED
  BY <1>1, <1>2

\* Clearing flags changes nothing else.
LEMMA Silenced ==
    ASSUME NEW ls \in Seq(Thread), NEW gone
    PROVE  /\ Silence(ls, gone) \in Seq(Thread)
           /\ DOMAIN Silence(ls, gone) = DOMAIN ls /\ Len(Silence(ls, gone)) = Len(ls)
           /\ \A i \in DOMAIN ls :
                 LET l == ls[i]
                     m == Silence(ls, gone)[i]
                 IN  /\ m.active = (l.active /\ i \notin gone)
                     /\ m.port = l.port /\ m.remote = l.remote /\ m.at = l.at /\ m.late = l.late
<1>1. \A i \in DOMAIN ls : ls[i] \in Thread
  BY Threads, Zenon
<1>2. \A i \in DOMAIN ls :
          LET l == ls[i]
              m == Silence(ls, gone)[i]
          IN  /\ m \in Thread /\ m.active = (l.active /\ i \notin gone)
              /\ m.port = l.port /\ m.remote = l.remote /\ m.at = l.at /\ m.late = l.late
  BY <1>1, Zenon DEF Silence, Thread
<1>3. Silence(ls, gone) \in [DOMAIN ls -> Thread]
  BY <1>2, Zenon DEF Silence
<1> QED
  BY <1>2, <1>3, ThreadsChanged, Zenon

\* Rules and the flags of their threads go together.
LEMMA RemoveOK ==
    ASSUME NEW fs, NEW ls, Sound(fs, ls), NEW gone \in SUBSET fs
    PROVE  Sound(fs \ gone, Silence(ls, {f.id : f \in gone}))
<1> DEFINE ids == {f.id : f \in gone}
           ms == Silence(ls, ids)
<1>1. ls \in Seq(Thread) /\ fs \in SUBSET Rule
  BY Zenon DEF Sound
<1>2. /\ ms \in Seq(Thread) /\ DOMAIN ms = DOMAIN ls
      /\ \A i \in DOMAIN ls :
            /\ ms[i].active = (ls[i].active /\ i \notin ids)
            /\ ms[i].port = ls[i].port /\ ms[i].remote = ls[i].remote
            /\ ms[i].at = ls[i].at /\ ms[i].late = ls[i].late
  BY <1>1, Silenced
<1>3. \A f, g \in fs : f.id = g.id => f = g
  BY DEF Sound, Serves
<1>4. \A f \in fs : f \notin gone => f.id \notin ids
  BY <1>3, Zenon
<1>5. \A f \in gone : f.id \in ids
  BY Zenon
<1> HIDE DEF ms, ids
<1>6. \A f \in fs \ gone : f.id \in DOMAIN ms /\ Serves(ms[f.id], f)
  <2> TAKE f \in fs \ gone
  <2>1. f.id \in DOMAIN ls /\ Serves(ls[f.id], f) /\ f.id \notin ids
    BY <1>4, Zenon DEF Sound
  <2> QED
    BY <1>2, <2>1, Zenon DEF Serves
<1>7. \A i \in DOMAIN ms : ms[i].active => \E f \in fs \ gone : f.id = i
  <2> SUFFICES ASSUME NEW i \in DOMAIN ls, ms[i].active
               PROVE  \E f \in fs \ gone : f.id = i
    BY <1>2, Zenon
  <2>1. PICK f \in fs : f.id = i
    BY <1>2, Zenon DEF Sound
  <2>2. i \notin ids
    BY <1>2, Zenon
  <2> QED
    BY <1>5, <2>1, <2>2, Zenon
<1>8. \A i \in DOMAIN ms : Lately(ms[i])
  BY <1>2, Zenon DEF Sound, Lately
<1>9. \A f, g \in fs \ gone : f.local = g.local => f = g
  BY Zenon DEF Sound
<1>10. Sound(fs \ gone, ms)
  BY <1>1, <1>2, <1>6, <1>7, <1>8, <1>9, Zenon DEF Sound
<1> QED
  BY <1>10, Zenon DEF ms, ids

\* A rule whose local spec has none yet comes with a thread of its own.
LEMMA AppendOK ==
    ASSUME NEW fs, NEW ls, Sound(fs, ls),
           NEW local \in Ports \cup Named, NEW remote \in Remotes,
           NEW at \in {"check", "closed"}, local \in Ports => at = "check",
           \A f \in fs : f.local # local
    PROVE  Sound(fs \cup {[local |-> local, remote |-> remote, id |-> Len(ls) + 1]},
                 Append(ls, [port |-> local, active |-> TRUE, at |-> at,
                             remote |-> remote, waiting |-> 0, late |-> 0]))
<1> DEFINE rule == [local |-> local, remote |-> remote, id |-> Len(ls) + 1]
           new == [port |-> local, active |-> TRUE, at |-> at,
                   remote |-> remote, waiting |-> 0, late |-> 0]
           ms == Append(ls, new)
           gs == fs \cup {rule}
<1>1. ls \in Seq(Thread) /\ fs \in SUBSET Rule
  BY Zenon DEF Sound
<1>2. Len(ls) \in Nat /\ DOMAIN ls = 1 .. Len(ls)
  BY <1>1
<1>3. new \in Thread /\ rule \in Rule
  BY <1>2 DEF Thread, Rule
<1>4. Lately(new) /\ Serves(new, rule)
  BY Zenon DEF Lately, Serves
<1>5. rule.local = local /\ rule.id = Len(ls) + 1
  BY Zenon
<1> HIDE DEF new, rule
<1>6. /\ ms \in Seq(Thread) /\ DOMAIN ms = 1 .. Len(ls) + 1
      /\ ms[Len(ls) + 1] = new /\ \A i \in DOMAIN ls : ms[i] = ls[i]
  BY <1>1, <1>2, <1>3
<1>7. DOMAIN ms = DOMAIN ls \cup {Len(ls) + 1}
  BY <1>2, <1>6
<1> HIDE DEF ms
<1>8. \A f \in gs : f.id \in DOMAIN ms /\ Serves(ms[f.id], f)
  <2>1. \A f \in fs : f.id \in DOMAIN ms /\ Serves(ms[f.id], f)
    BY <1>6, <1>7, Zenon DEF Sound
  <2> QED
    BY <1>4, <1>5, <1>6, <1>7, <2>1, Zenon
<1>9. \A i \in DOMAIN ms : ms[i].active => \E f \in gs : f.id = i
  <2>1. \A i \in DOMAIN ls : ms[i].active => \E f \in gs : f.id = i
    BY <1>6, Zenon DEF Sound
  <2> QED
    BY <1>5, <1>7, <2>1, Zenon
<1>10. \A i \in DOMAIN ms : Lately(ms[i])
  <2>1. \A i \in DOMAIN ls : Lately(ms[i])
    BY <1>6, Zenon DEF Sound
  <2> QED
    BY <1>4, <1>6, <1>7, <2>1, Zenon
<1>11. \A f, g \in gs : f.local = g.local => f = g
  BY <1>5, Zenon DEF Sound
<1>12. Sound(gs, ms)
  BY <1>1, <1>3, <1>6, <1>8, <1>9, <1>10, <1>11, Zenon DEF Sound
<1> QED
  BY <1>12, Zenon DEF ms, new, rule

\* A step of one thread that keeps its flag and what it carries.
LEMMA ThreadOK ==
    ASSUME NEW fs, NEW ls, Sound(fs, ls), NEW i \in DOMAIN ls, NEW l \in Thread, Lately(l),
           l.active = ls[i].active, l.remote = ls[i].remote, l.port = ls[i].port,
           l.active /\ ls[i].at # "closed" => l.at # "closed"
    PROVE  Sound(fs, [ls EXCEPT ![i] = l])
<1> DEFINE ms == [ls EXCEPT ![i] = l]
<1>1. ls \in Seq(Thread) /\ \A j \in DOMAIN ls : ls[j] \in Thread
  BY Threads, Zenon DEF Sound
<1>2. ms \in [DOMAIN ls -> Thread]
  BY <1>1, Zenon
<1>3. ms \in Seq(Thread) /\ DOMAIN ms = DOMAIN ls
  BY <1>1, <1>2, ThreadsChanged, Zenon
<1>4. \A j \in DOMAIN ls : ms[j] = IF j = i THEN l ELSE ls[j]
  BY <1>1, Zenon
<1> HIDE DEF ms
<1>5. \A f \in fs : f.id \in DOMAIN ms /\ Serves(ms[f.id], f)
  BY <1>3, <1>4 DEF Sound, Serves
<1>6. \A j \in DOMAIN ms : Lately(ms[j])
  BY <1>3, <1>4, Zenon DEF Sound
<1>7. \A j \in DOMAIN ms : ms[j].active => \E f \in fs : f.id = j
  BY <1>3, <1>4, Zenon DEF Sound
<1>8. Sound(fs, ms)
  BY <1>3, <1>5, <1>6, <1>7, Zenon DEF Sound
<1> QED
  BY <1>8, Zenon DEF ms
-----------------------------------------------------------------------------
\* add_forward, for a port it was given or found.
LEMMA AddOK ==
    ASSUME Sound(forwards, listeners), NEW local \in Ports \cup Named, NEW remote \in Remotes,
           NEW no_rebind \in BOOLEAN, add_forward(local, remote, no_rebind)
    PROVE  Sound(forwards, listeners)'
<1> DEFINE at == IF local \in Ports THEN "check" ELSE "closed"
           gone == {f \in forwards : f.local = local}
           ls == Silence(listeners, {f.id : f \in gone})
<1>1. CASE UNCHANGED <<forwards, listeners>>
  BY <1>1, Zenon DEF Sound
<1>2. CASE /\ forwards' = Without(local) \cup {[local |-> local, remote |-> remote, id |-> Len(listeners) + 1]}
           /\ listeners' = Append(Silence(listeners, IdsOf(local)),
                  [port |-> local, active |-> TRUE, at |-> at, remote |-> remote,
                   waiting |-> 0, late |-> 0])
  <2>1. Without(local) = forwards \ gone /\ IdsOf(local) = {f.id : f \in gone}
    BY Zenon DEF Without, IdsOf
  <2>2. Sound(forwards \ gone, ls) /\ Len(ls) = Len(listeners)
    <3>1. Sound(forwards \ gone, ls)
      BY RemoveOK, Zenon
    <3>2. listeners \in Seq(Thread)
      BY Zenon DEF Sound
    <3>3. Len(ls) = Len(listeners)
      BY <3>2, Silenced, Zenon
    <3> QED
      BY <3>1, <3>3, Zenon
  <2>3. \A f \in forwards \ gone : f.local # local
    BY Zenon
  <2>4. at \in {"check", "closed"} /\ (local \in Ports => at = "check")
    BY Zenon
  <2> HIDE DEF gone, ls, at
  <2>5. Sound((forwards \ gone) \cup {[local |-> local, remote |-> remote, id |-> Len(ls) + 1]},
              Append(ls, [port |-> local, active |-> TRUE, at |-> at,
                          remote |-> remote, waiting |-> 0, late |-> 0]))
    BY <2>2, <2>3, <2>4, AppendOK, Zenon
  <2>6. /\ forwards' = (forwards \ gone) \cup {[local |-> local, remote |-> remote, id |-> Len(ls) + 1]}
        /\ listeners' = Append(ls, [port |-> local, active |-> TRUE, at |-> at,
                                    remote |-> remote, waiting |-> 0, late |-> 0])
    BY <1>2, <2>1, <2>2, Zenon DEF ls
  <2> QED
    BY <2>5, <2>6, Zenon DEF Sound
<1> QED
  BY <1>1, <1>2, Zenon DEF add_forward

\* Every request to the forward table keeps rules and threads together.
LEMMA ForwardOK ==
    ASSUME IInv, handle_forward
    PROVE  IInv'
<1>1. Sound(forwards, listeners) /\ reverses' = reverses
  BY Zenon DEF IInv, handle_forward, AddForward, RemoveForward, RemoveAllForwards
<1>2. CASE AddForward
  <2>1. PICK local \in (0 .. MaxPort) \cup Named, remote \in Remotes, no_rebind \in BOOLEAN :
            IF local = 0
            THEN \E p \in Ports : ~Bound(p) /\ add_forward(p, remote, no_rebind)
            ELSE add_forward(local, remote, no_rebind)
    BY <1>2, Zenon DEF AddForward
  <2>2. \E p \in Ports \cup Named : add_forward(p, remote, no_rebind)
    <3>1. CASE local = 0
      BY <2>1, <3>1, Zenon
    <3>2. CASE local # 0
      <4>1. local \in Ports \cup Named
        BY <3>2 DEF Ports
      <4> QED
        BY <2>1, <3>2, <4>1, Zenon
    <3> QED
      BY <3>1, <3>2, Zenon
  <2>3. Sound(forwards, listeners)'
    BY <1>1, <2>2, AddOK, Zenon
  <2> QED
    BY <1>1, <2>3, Zenon DEF IInv
<1>3. CASE RemoveForward
  <2>1. PICK local \in Ports \cup Named :
            forwards' = Without(local) /\ listeners' = Silence(listeners, IdsOf(local))
    BY <1>3, Zenon DEF RemoveForward
  <2> DEFINE gone == {f \in forwards : f.local = local}
  <2>2. Without(local) = forwards \ gone /\ IdsOf(local) = {f.id : f \in gone}
    BY Zenon DEF Without, IdsOf
  <2>3. Sound(forwards \ gone, Silence(listeners, {f.id : f \in gone}))
    BY <1>1, RemoveOK, Zenon
  <2> HIDE DEF gone
  <2>4. Sound(forwards, listeners)'
    BY <2>1, <2>2, <2>3, Zenon DEF Sound
  <2> QED
    BY <1>1, <2>4, Zenon DEF IInv
<1>4. CASE RemoveAllForwards
  <2>1. Sound(forwards \ forwards, Silence(listeners, {f.id : f \in forwards}))
    BY <1>1, RemoveOK, Zenon
  <2>2. forwards \ forwards = {}
    BY Zenon
  <2>3. Sound(forwards, listeners)'
    BY <1>4, <2>1, <2>2, Zenon DEF RemoveAllForwards, Sound
  <2> QED
    BY <1>1, <2>3, Zenon DEF IInv
<1> QED
  BY <1>2, <1>3, <1>4, Zenon DEF handle_forward

\* A request to the reverse table leaves one rule per remote spec.
LEMMA ReverseOK ==
    ASSUME IInv, handle_reverse
    PROVE  IInv'
<1>1. UNCHANGED <<forwards, listeners>>
  BY Zenon DEF handle_reverse, AddReverse, RemoveReverse, RemoveAllReverses
<1>2. Sound(forwards, listeners)'
  BY <1>1, Zenon DEF IInv, Sound
<1>3. \A r, q \in reverses' : r.remote = q.remote => r = q
  BY DEF IInv, handle_reverse, AddReverse, add_reverse, RemoveReverse, RemoveAllReverses
<1> QED
  BY <1>2, <1>3, Zenon DEF IInv

\* A thread that took a step.
After(l, at, w, k) == [l EXCEPT !.at = at, !.waiting = w, !.late = k]

\* A thread that read its flag.
LEMMA Checked ==
    ASSUME NEW l \in Thread, Lately(l), NEW n,
           n = After(l, IF l.active THEN "accept" ELSE "closed",
                     IF l.active THEN l.waiting ELSE 0, l.late)
    PROVE  /\ n \in Thread /\ Lately(n)
           /\ n.active = l.active /\ n.remote = l.remote /\ n.port = l.port
           /\ n.active => n.at # "closed"
<1>1. l.waiting \in Nat /\ l.late \in {0, 1} /\ l.active \in BOOLEAN
  BY Zenon DEF Thread
<1>2. CASE l.active
  <2>1. n = After(l, "accept", l.waiting, l.late)
    BY <1>2, Zenon
  <2>2. /\ n \in Thread /\ n.at = "accept" /\ n.late = l.late
        /\ n.active = l.active /\ n.remote = l.remote /\ n.port = l.port
    BY <1>1, <2>1, Zenon DEF Thread, After
  <2>3. l.late = 0 /\ n.late # 1
    BY <1>2, <2>2 DEF Lately
  <2> QED
    BY <1>2, <2>2, <2>3, Zenon DEF Lately
<1>3. CASE ~l.active
  <2>1. n = After(l, "closed", 0, l.late)
    BY <1>3, Zenon
  <2>2. /\ n \in Thread /\ n.at = "closed" /\ n.late = l.late
        /\ n.active = l.active /\ n.remote = l.remote /\ n.port = l.port
    <3>1. After(l, "closed", 0, l.late) \in Thread
      BY <1>1, Zenon DEF Thread, After
    <3>2. /\ n.at = "closed" /\ n.late = l.late
          /\ n.active = l.active /\ n.remote = l.remote /\ n.port = l.port
      BY <2>1, Zenon DEF Thread, After
    <3> QED
      BY <2>1, <3>1, <3>2, Zenon
  <2> QED
    BY <1>3, <2>2, Zenon DEF Lately
<1> QED
  BY <1>2, <1>3, Zenon

\* A thread that polled its port.
LEMMA Accepted ==
    ASSUME NEW l \in Thread, Lately(l), l.at = "accept", NEW taken \in {0, 1},
           taken = 1 => l.waiting > 0, NEW n,
           n = After(l, "check", l.waiting - taken, l.late + (IF l.active THEN 0 ELSE taken))
    PROVE  /\ n \in Thread /\ Lately(n)
           /\ n.active = l.active /\ n.remote = l.remote /\ n.port = l.port
           /\ n.at = "check"
<1> DEFINE w == l.waiting - taken
           k == l.late + (IF l.active THEN 0 ELSE taken)
<1>1. l.late = 0 /\ l.waiting \in Nat
  BY Zenon DEF Thread, Lately
<1>2. w \in Nat /\ k \in {0, 1} /\ (l.active => k = 0)
  BY <1>1
<1>3. n = After(l, "check", w, k)
  BY Zenon
<1> HIDE DEF w, k
<1>4. /\ n \in Thread /\ n.at = "check" /\ n.late = k
      /\ n.active = l.active /\ n.remote = l.remote /\ n.port = l.port
  BY <1>2, <1>3, Zenon DEF Thread, After
<1> QED
  BY <1>2, <1>4, Zenon DEF Lately

\* A thread's step, and a program's that connects to it.
LEMMA ListenerOK ==
    ASSUME IInv, NEW i \in Ids, Check(i) \/ Accept(i) \/ Dial(i)
    PROVE  IInv'
<1> DEFINE l == listeners[i]
           m == listeners'[i]
<1>1. /\ Sound(forwards, listeners) /\ UNCHANGED <<forwards, reverses>>
      /\ i \in DOMAIN listeners /\ l \in Thread /\ Lately(l)
  BY Threads, Zenon DEF IInv, Sound, Ids, Check, Accept, Dial
<1>2. /\ listeners' = [listeners EXCEPT ![i] = m] /\ m \in Thread /\ Lately(m)
      /\ m.active = l.active /\ m.remote = l.remote /\ m.port = l.port
      /\ m.active /\ l.at # "closed" => m.at # "closed"
  <2>1. CASE Check(i)
    <3> DEFINE n == After(l, IF l.active THEN "accept" ELSE "closed",
                          IF l.active THEN l.waiting ELSE 0, l.late)
    <3>1. listeners' = [listeners EXCEPT ![i] = n] /\ m = n
      BY <1>1, <2>1, Zenon DEF Check, After, Thread
    <3> HIDE DEF l
    <3>2. /\ n \in Thread /\ Lately(n)
          /\ n.active = l.active /\ n.remote = l.remote /\ n.port = l.port
          /\ n.active => n.at # "closed"
      BY <1>1, Checked, Zenon
    <3> HIDE DEF n
    <3> QED
      BY <3>1, <3>2, Zenon
  <2>2. CASE Accept(i)
    <3> DEFINE taken == IF l.waiting > 0 THEN 1 ELSE 0
               n == After(l, "check", l.waiting - taken, l.late + (IF l.active THEN 0 ELSE taken))
    <3>1. listeners' = [listeners EXCEPT ![i] = n] /\ m = n
      BY <1>1, <2>2, Zenon DEF Accept, After, Thread
    <3>2. l.at = "accept" /\ taken \in {0, 1} /\ (taken = 1 => l.waiting > 0)
      BY <2>2 DEF Accept
    <3> HIDE DEF l, taken
    <3>3. /\ n \in Thread /\ Lately(n)
          /\ n.active = l.active /\ n.remote = l.remote /\ n.port = l.port
          /\ n.at = "check"
      BY <1>1, <3>2, Accepted
    <3> HIDE DEF n
    <3> QED
      BY <3>1, <3>3, Zenon
  <2>3. CASE Dial(i)
    BY <1>1, <2>3 DEF Dial, Thread, Lately
  <2> QED
    BY <2>1, <2>2, <2>3, Zenon
<1> HIDE DEF m
<1>3. Sound(forwards, [listeners EXCEPT ![i] = m])
  BY <1>1, <1>2, ThreadOK, Zenon
<1>4. Sound(forwards, listeners)'
  BY <1>1, <1>2, <1>3, Zenon DEF Sound
<1> QED
  BY <1>1, <1>4, Zenon DEF IInv

\* What the invariant says of the state is the property.
LEMMA SoundIsServed ==
    ASSUME IInv
    PROVE  RulesAreServed
<1>1. \A i \in Ids : listeners[i].late <= 1
  <2>1. \A i \in Ids : listeners[i] \in Thread
    BY Threads, Zenon DEF IInv, Sound, Ids
  <2>2. \A i \in Ids : listeners[i].late \in {0, 1}
    BY <2>1, Zenon DEF Thread
  <2> QED
    BY <2>2
<1> QED
  BY <1>1, Zenon DEF IInv, Sound, Serves, RulesAreServed, Ids

\* For any ports, specs and number of requests: no two rules share a local
\* spec, every rule's listener runs and carries its remote, and a listener
\* without a rule lets at most one more connection through (add_forward,
\* remove_forward, run_forward_listener).
THEOREM Served == Spec => []RulesAreServed
<1>1. Init => IInv
  <2>1. <<>> \in Seq(Thread)
    OBVIOUS
  <2> QED
    BY <2>1 DEF Init, IInv, Sound
<1>2. IInv /\ [Next]_vars => IInv'
  <2> SUFFICES ASSUME IInv, [Next]_vars
               PROVE  IInv'
    BY Zenon
  <2>1. CASE handle_forward
    BY <2>1, ForwardOK, Zenon
  <2>2. CASE handle_reverse
    BY <2>2, ReverseOK, Zenon
  <2>3. CASE \E i \in Ids : Listener(i) \/ Dial(i)
    BY <2>3, ListenerOK, Zenon DEF Listener
  <2>4. CASE UNCHANGED vars
    BY <2>4, Zenon DEF vars, IInv, Sound
  <2> QED
    BY <2>1, <2>2, <2>3, <2>4, Zenon DEF Next
<1>3. IInv => RulesAreServed
  BY SoundIsServed, Zenon
<1> QED
  BY <1>1, <1>2, <1>3, PTL DEF Spec
-----------------------------------------------------------------------------
(***************************************************************************)
(* The relays.  Frames are taken from one end of a connection in the order *)
(* in which they were put on the other, so what an end has received, the   *)
(* chunks on the wire, the chunks in the host's queue and what the sender  *)
(* still has follow one another without a gap.  A reader and a writer that *)
(* share a transport may each take a frame the other waited for: there the *)
(* chunks only increase.                                                   *)
(***************************************************************************)
Frame == ({"WRTE"} \X Nat) \cup {R!Okay, R!Clse}

\* The chunks of q are increasing and lie above lo and up to hi.
Within(q, lo, hi) ==
    /\ \A i \in DOMAIN q : q[i][1] = "WRTE" => lo < q[i][2] /\ q[i][2] <= hi
    /\ \A i, j \in DOMAIN q : i < j /\ q[i][1] = "WRTE" /\ q[j][1] = "WRTE" => q[i][2] < q[j][2]

\* The chunks of q are those after lo up to hi, in order.
Carries(q, lo, hi) ==
    /\ Within(q, lo, hi) /\ lo <= hi
    /\ \A n \in Nat : lo < n /\ n <= hi => \E i \in DOMAIN q : q[i] = R!Wrte(n)

\* The chunks after a up to b.
Run(a, b) == [i \in 1 .. b - a |-> a + i]

\* A frame is a chunk, an acknowledgement or the end, and these differ.
LEMMA Frames ==
    /\ R!Okay \in Frame /\ R!Clse \in Frame /\ R!Okay[1] # "WRTE" /\ R!Clse[1] # "WRTE"
    /\ R!Okay # R!Clse
    /\ \A n \in Nat : R!Wrte(n) \in Frame /\ R!Wrte(n)[1] = "WRTE" /\ R!Wrte(n)[2] = n
    /\ \A f \in Frame : f[1] = "WRTE" => f[2] \in Nat /\ f = R!Wrte(f[2]) /\ f # R!Okay /\ f # R!Clse
    /\ \A f \in Frame : f[1] = "WRTE" \/ f = R!Okay \/ f = R!Clse
BY DEF Frame, R!Okay, R!Clse, R!Wrte

\* The ends of a sequence of frames.
LEMMA FrameSeq ==
    ASSUME NEW q \in Seq(Frame)
    PROVE  /\ Len(q) \in Nat /\ DOMAIN q = 1 .. Len(q) /\ \A i \in DOMAIN q : q[i] \in Frame
           /\ \A f \in Frame : /\ Append(q, f) \in Seq(Frame) /\ Len(Append(q, f)) = Len(q) + 1
                               /\ DOMAIN Append(q, f) = 1 .. Len(q) + 1
                               /\ Append(q, f)[Len(q) + 1] = f
                               /\ \A i \in DOMAIN q : Append(q, f)[i] = q[i]
           /\ q # <<>> => /\ Head(q) \in Frame /\ Tail(q) \in Seq(Frame) /\ Head(q) = q[1]
                          /\ 1 \in DOMAIN q
                          /\ DOMAIN Tail(q) = 1 .. Len(q) - 1
                          /\ \A i \in DOMAIN Tail(q) : Tail(q)[i] = q[i + 1] /\ i + 1 \in DOMAIN q
OBVIOUS

\* Writing the next chunk.
LEMMA WithinAppended ==
    ASSUME NEW q \in Seq(Frame), NEW lo \in Nat, NEW hi \in Nat, lo <= hi, Within(q, lo, hi)
    PROVE  Within(Append(q, R!Wrte(hi + 1)), lo, hi + 1)
<1> DEFINE f == R!Wrte(hi + 1)
           s == Append(q, f)
<1>1. f \in Frame /\ f[1] = "WRTE" /\ f[2] = hi + 1
  BY Frames
<1> HIDE DEF f
<1>2. /\ Len(q) \in Nat /\ DOMAIN q = 1 .. Len(q) /\ \A i \in DOMAIN q : q[i] \in Frame
      /\ DOMAIN s = 1 .. Len(q) + 1 /\ s[Len(q) + 1] = f /\ \A i \in DOMAIN q : s[i] = q[i]
  BY <1>1, FrameSeq, Zenon
<1> HIDE DEF s
<1>3. \A i \in DOMAIN q : q[i][1] = "WRTE" => q[i][2] \in Nat
  BY <1>2, Frames, Zenon
<1>4. \A i \in DOMAIN s : i \in DOMAIN q \/ i = Len(q) + 1
  BY <1>2
<1>5. \A i \in DOMAIN s : s[i][1] = "WRTE" => lo < s[i][2] /\ s[i][2] <= hi + 1
  BY <1>1, <1>2, <1>3, <1>4 DEF Within
<1>6. \A i, j \in DOMAIN s : i < j /\ s[i][1] = "WRTE" /\ s[j][1] = "WRTE" => s[i][2] < s[j][2]
  BY <1>1, <1>2, <1>3, <1>4 DEF Within
<1> QED
  BY <1>5, <1>6, Zenon DEF Within, s, f

\* Writing something else.
LEMMA WithinOther ==
    ASSUME NEW q \in Seq(Frame), NEW lo, NEW hi, Within(q, lo, hi),
           NEW f \in Frame, f[1] # "WRTE"
    PROVE  Within(Append(q, f), lo, hi)
<1> DEFINE s == Append(q, f)
<1>2. /\ Len(q) \in Nat /\ DOMAIN q = 1 .. Len(q)
      /\ DOMAIN s = 1 .. Len(q) + 1 /\ s[Len(q) + 1] = f /\ \A i \in DOMAIN q : s[i] = q[i]
  BY FrameSeq, Zenon
<1> HIDE DEF s
<1>4. \A i \in DOMAIN s : i \in DOMAIN q \/ i = Len(q) + 1
  BY <1>2
<1> QED
  BY <1>2, <1>4, Zenon DEF Within, s

\* Taking a frame: a chunk is the least one.
LEMMA WithinTaken ==
    ASSUME NEW q \in Seq(Frame), NEW lo \in Nat, NEW hi \in Nat, Within(q, lo, hi), q # <<>>
    PROVE  /\ Within(Tail(q), lo, hi)
           /\ Head(q)[1] = "WRTE" => /\ Head(q)[2] \in Nat /\ lo < Head(q)[2] /\ Head(q)[2] <= hi
                                     /\ Within(Tail(q), Head(q)[2], hi)
<1> DEFINE s == Tail(q)
           f == Head(q)
<1>1. /\ f \in Frame /\ f = q[1] /\ 1 \in DOMAIN q /\ DOMAIN s = 1 .. Len(q) - 1
      /\ Len(q) \in Nat
      /\ \A i \in DOMAIN s : s[i] = q[i + 1] /\ i + 1 \in DOMAIN q
      /\ \A i \in DOMAIN q : q[i] \in Frame
  BY FrameSeq, Zenon
<1> HIDE DEF s, f
<1>2. \A i \in DOMAIN q : q[i][1] = "WRTE" => q[i][2] \in Nat
  BY <1>1, Frames, Zenon
<1>3. \A i, j \in DOMAIN s : i < j => i + 1 < j + 1
  BY <1>1
<1>4. \A i \in DOMAIN s : 1 < i + 1
  BY <1>1
<1>5. Within(s, lo, hi)
  <2>1. \A i \in DOMAIN s : s[i][1] = "WRTE" => lo < s[i][2] /\ s[i][2] <= hi
    BY <1>1, Zenon DEF Within
  <2>2. \A i, j \in DOMAIN s : i < j /\ s[i][1] = "WRTE" /\ s[j][1] = "WRTE" => s[i][2] < s[j][2]
    BY <1>1, <1>3 DEF Within
  <2> QED
    BY <2>1, <2>2, Zenon DEF Within
<1>6. f[1] = "WRTE" => f[2] \in Nat /\ lo < f[2] /\ f[2] <= hi
  BY <1>1, <1>2, Zenon DEF Within
<1>7. f[1] = "WRTE" => \A i \in DOMAIN s : s[i][1] = "WRTE" => f[2] < s[i][2]
  BY <1>1, <1>4, Zenon DEF Within
<1> QED
  BY <1>5, <1>6, <1>7, Zenon DEF Within, s, f

\* The same for all the chunks in a row.
LEMMA CarriesAppended ==
    ASSUME NEW q \in Seq(Frame), NEW lo \in Nat, NEW hi \in Nat, Carries(q, lo, hi)
    PROVE  Carries(Append(q, R!Wrte(hi + 1)), lo, hi + 1)
<1> DEFINE f == R!Wrte(hi + 1)
           s == Append(q, f)
<1>1. f \in Frame
  BY Frames
<1>2. Within(s, lo, hi + 1)
  BY WithinAppended, Zenon DEF Carries
<1>3. /\ Len(q) \in Nat /\ DOMAIN q = 1 .. Len(q)
      /\ DOMAIN s = 1 .. Len(q) + 1 /\ s[Len(q) + 1] = f /\ \A i \in DOMAIN q : s[i] = q[i]
  BY <1>1, FrameSeq, Zenon
<1> HIDE DEF s
<1>4. \A n \in Nat : lo < n /\ n <= hi + 1 => n <= hi \/ n = hi + 1
  OBVIOUS
<1>5. \A n \in Nat : lo < n /\ n <= hi + 1 => \E i \in DOMAIN s : s[i] = R!Wrte(n)
  <2> TAKE n \in Nat
  <2> HAVE lo < n /\ n <= hi + 1
  <2>1. CASE n <= hi
    <3>1. PICK i \in DOMAIN q : q[i] = R!Wrte(n)
      BY <2>1, Zenon DEF Carries
    <3> QED
      BY <3>1, <1>3
  <2>2. CASE n = hi + 1
    BY <2>2, <1>3
  <2> QED
    BY <2>1, <2>2, <1>4, Zenon
<1>6. lo <= hi + 1
  BY DEF Carries
<1> QED
  BY <1>2, <1>5, <1>6, Zenon DEF Carries, s

\* A frame of another kind, queued behind.
LEMMA CarriesOther ==
    ASSUME NEW q \in Seq(Frame), NEW lo, NEW hi, Carries(q, lo, hi),
           NEW f \in Frame, f[1] # "WRTE"
    PROVE  Carries(Append(q, f), lo, hi)
<1> DEFINE s == Append(q, f)
<1>1. /\ Len(q) \in Nat /\ DOMAIN q = 1 .. Len(q)
      /\ DOMAIN s = 1 .. Len(q) + 1 /\ \A i \in DOMAIN q : s[i] = q[i]
  BY FrameSeq, Zenon
<1>2. Within(s, lo, hi)
  BY WithinOther, Zenon DEF Carries
<1> HIDE DEF s
<1>3. \A i \in DOMAIN q : i \in DOMAIN s
  BY <1>1
<1>4. \A n \in Nat : lo < n /\ n <= hi => \E i \in DOMAIN s : s[i] = R!Wrte(n)
  BY <1>1, <1>3, Zenon DEF Carries
<1> QED
  BY <1>2, <1>4, Zenon DEF Carries, s

\* The first frame of a queue, taken.
LEMMA CarriesTaken ==
    ASSUME NEW q \in Seq(Frame), NEW lo \in Nat, NEW hi \in Nat, Carries(q, lo, hi), q # <<>>
    PROVE  /\ Head(q)[1] = "WRTE" => Head(q)[2] = lo + 1 /\ Carries(Tail(q), lo + 1, hi)
           /\ Head(q)[1] # "WRTE" => Carries(Tail(q), lo, hi)
<1> DEFINE s == Tail(q)
           f == Head(q)
<1>1. /\ f \in Frame /\ f = q[1] /\ 1 \in DOMAIN q /\ DOMAIN s = 1 .. Len(q) - 1
      /\ Len(q) \in Nat /\ DOMAIN q = 1 .. Len(q)
      /\ \A i \in DOMAIN s : s[i] = q[i + 1] /\ i + 1 \in DOMAIN q
      /\ \A i \in DOMAIN q : q[i] \in Frame
  BY FrameSeq, Zenon
<1>2. /\ Within(s, lo, hi)
      /\ f[1] = "WRTE" => f[2] \in Nat /\ lo < f[2] /\ f[2] <= hi /\ Within(s, f[2], hi)
  BY WithinTaken, Zenon DEF Carries
<1> HIDE DEF s, f
<1>3. \A i \in DOMAIN q : i = 1 \/ (i > 1 /\ i - 1 \in DOMAIN s /\ s[i - 1] = q[i])
  BY <1>1
<1>4. ASSUME f[1] = "WRTE"
      PROVE  f[2] = lo + 1 /\ Carries(s, lo + 1, hi)
  <2>1. lo < lo + 1 /\ lo + 1 <= hi /\ lo + 1 \in Nat
    BY <1>2, <1>4
  <2>2. PICK i \in DOMAIN q : q[i] = R!Wrte(lo + 1)
    BY <2>1, Zenon DEF Carries
  <2>3. q[i][1] = "WRTE" /\ q[i][2] = lo + 1
    BY <2>1, <2>2, Frames, Zenon
  <2>4. i # 1 => f[2] < lo + 1
    BY <1>1, <1>3, <1>4, <2>3 DEF Carries, Within
  <2>5. f[2] = lo + 1
    BY <1>1, <1>2, <1>4, <2>3, <2>4
  <2>6. f = R!Wrte(lo + 1)
    BY <1>1, <1>4, <2>5, Frames
  <2>7. \A n \in Nat : lo + 1 < n /\ n <= hi => \E j \in DOMAIN s : s[j] = R!Wrte(n)
    <3> TAKE n \in Nat
    <3> HAVE lo + 1 < n /\ n <= hi
    <3>1. PICK j \in DOMAIN q : q[j] = R!Wrte(n)
      BY DEF Carries
    <3>2. j # 1
      BY <3>1, <1>1, <2>5, Frames
    <3> QED
      BY <3>1, <3>2, <1>3, Zenon
  <2> QED
    BY <1>2, <1>4, <2>1, <2>5, <2>7, Zenon DEF Carries
<1>5. ASSUME f[1] # "WRTE"
      PROVE  Carries(s, lo, hi)
  <2>1. \A n \in Nat : lo < n /\ n <= hi => \E j \in DOMAIN s : s[j] = R!Wrte(n)
    <3> TAKE n \in Nat
    <3> HAVE lo < n /\ n <= hi
    <3>1. PICK j \in DOMAIN q : q[j] = R!Wrte(n)
      BY Zenon DEF Carries
    <3>2. j # 1
      BY <3>1, <1>1, <1>5, Frames
    <3> QED
      BY <3>1, <3>2, <1>3, Zenon
  <2> QED
    BY <1>2, <2>1, Zenon DEF Carries
<1> QED
  BY <1>4, <1>5, Zenon DEF s, f

\* The ends of a sequence of chunks.
LEMMA ChunkSeq ==
    ASSUME NEW s \in Seq(Nat)
    PROVE  /\ s # <<>> => Head(s) \in Nat /\ Tail(s) \in Seq(Nat)
           /\ \A n \in Nat : Append(s, n) \in Seq(Nat)
OBVIOUS

\* Numbers in a row: the first, the others, and one more.
LEMMA Runs ==
    ASSUME NEW a \in Nat, NEW b \in Nat, a <= b
    PROVE  /\ Run(a, b) \in Seq(Nat) /\ Len(Run(a, b)) = b - a
           /\ Run(a, b) = <<>> <=> a = b
           /\ Run(a, b) # <<>> => /\ a + 1 <= b
                                 /\ Head(Run(a, b)) = a + 1 /\ Tail(Run(a, b)) = Run(a + 1, b)
           /\ Append(Run(a, b), b + 1) = Run(a, b + 1)
<1>1. b - a \in Nat
  OBVIOUS
<1>2. Run(a, b) \in [1 .. b - a -> Nat]
  BY DEF Run
<1>3. Run(a, b) \in Seq(Nat) /\ Len(Run(a, b)) = b - a /\ DOMAIN Run(a, b) = 1 .. b - a
  BY <1>1, <1>2
<1>4. Run(a, b) = <<>> <=> a = b
  BY <1>3
<1>5. ASSUME Run(a, b) # <<>>
      PROVE  /\ a + 1 <= b /\ Head(Run(a, b)) = a + 1 /\ Tail(Run(a, b)) = Run(a + 1, b)
  <2>1. a + 1 <= b
    BY <1>4, <1>5
  <2>2. Head(Run(a, b)) = a + 1
    BY <2>1, <1>3, <1>5 DEF Run
  <2> DEFINE s == Tail(Run(a, b))
             t == Run(a + 1, b)
  <2>3. /\ s \in Seq(Nat) /\ Len(s) = b - a - 1
        /\ \A i \in 1 .. b - a - 1 : s[i] = Run(a, b)[i + 1]
    BY <1>3, <1>5
  <2>4. t \in [1 .. b - (a + 1) -> Nat] /\ b - (a + 1) = b - a - 1
    BY DEF Run
  <2>5. DOMAIN s = 1 .. b - a - 1 /\ DOMAIN t = 1 .. b - a - 1
    BY <2>3, <2>4
  <2>6. \A i \in 1 .. b - a - 1 : s[i] = t[i]
    BY <2>3 DEF Run
  <2> HIDE DEF s, t
  <2>7. s = t
    BY <2>3, <2>4, <2>5, <2>6
  <2> QED
    BY <2>1, <2>2, <2>7, Zenon DEF s, t
<1>6. Append(Run(a, b), b + 1) = Run(a, b + 1)
  <2> DEFINE s == Append(Run(a, b), b + 1)
             t == Run(a, b + 1)
  <2>1. s \in Seq(Nat) /\ Len(s) = b - a + 1
    BY <1>3
  <2>2. t \in [1 .. (b + 1) - a -> Nat] /\ (b + 1) - a = b - a + 1
    BY DEF Run
  <2>3. DOMAIN s = 1 .. b - a + 1 /\ DOMAIN t = 1 .. b - a + 1
    BY <2>1, <2>2
  <2>4. \A i \in 1 .. b - a + 1 : s[i] = t[i]
    BY <1>3 DEF Run
  <2> QED
    BY <2>1, <2>2, <2>3, <2>4
<1> QED
  BY <1>3, <1>4, <1>5, <1>6, Zenon

\* What an end received so far, and one chunk more.
LEMMA Prefixes ==
    ASSUME NEW s \in Seq(Nat), s = R!Upto(Len(s))
    PROVE  /\ R!Increasing(s) /\ Len(s) \in Nat
           /\ LET t == Append(s, Len(s) + 1)
              IN  t \in Seq(Nat) /\ t = R!Upto(Len(t)) /\ Len(t) = Len(s) + 1
<1> DEFINE t == Append(s, Len(s) + 1)
<1>1. Len(s) \in Nat /\ t \in Seq(Nat) /\ Len(t) = Len(s) + 1
  OBVIOUS
<1>2. \A i \in 1 .. Len(s) : s[i] = i
  BY Zenon DEF R!Upto
<1>3. \A i \in 1 .. Len(s) + 1 : t[i] = i
  BY <1>2
<1>4. R!Upto(Len(t)) = [i \in 1 .. Len(s) + 1 |-> i]
  BY <1>1, Zenon DEF R!Upto
<1>5. t = [i \in 1 .. Len(s) + 1 |-> i]
  BY <1>1, <1>3
<1> QED
  BY <1>1, <1>2, <1>4, <1>5, Zenon DEF R!Increasing
-----------------------------------------------------------------------------
\* What a run starts with, and what is left of it then.
LEMMA RunHead ==
    ASSUME NEW a \in Nat, NEW b \in Nat, a <= b, Run(a, b) # <<>>
    PROVE  a + 1 <= b /\ Head(Run(a, b)) = a + 1 /\ Tail(Run(a, b)) = Run(a + 1, b)
BY Runs, ZenonT(60)

\* From the sender to the receiver: w on the wire, g received, q queued, in left.
Sends(w, g, q, in, top) ==
    \E m, n \in Nat : /\ m <= n /\ n <= top
                      /\ Carries(w, Len(g), m) /\ q = Run(m, n) /\ in = Run(n, top)

\* Handing a chunk over: to the wire, to the queue, and from there to the wire.
LEMMA SendsOn ==
    ASSUME NEW w \in Seq(Frame), NEW g \in Seq(Nat), NEW q \in Seq(Nat), NEW in \in Seq(Nat), NEW top \in Nat,
           Sends(w, g, q, in, top)
    PROVE  /\ in # <<>> => Sends(w, g, Append(q, Head(in)), Tail(in), top)
           /\ q # <<>> => Sends(Append(w, R!Wrte(Head(q))), g, Tail(q), in, top)
           /\ in # <<>> /\ q = <<>> => Sends(Append(w, R!Wrte(Head(in))), g, q, Tail(in), top)
<1>1. PICK m, n \in Nat : /\ m <= n /\ n <= top
                         /\ Carries(w, Len(g), m) /\ q = Run(m, n) /\ in = Run(n, top)
  BY Zenon DEF Sends
<1>0. Len(g) \in Nat
  OBVIOUS
<1>2. Carries(Append(w, R!Wrte(m + 1)), Len(g), m + 1)
  BY <1>0, <1>1, CarriesAppended, Zenon
<1>3. ASSUME in # <<>>
      PROVE  Sends(w, g, Append(q, Head(in)), Tail(in), top)
  <2>1. n + 1 <= top /\ Head(in) = n + 1 /\ Tail(in) = Run(n + 1, top) /\ Append(q, n + 1) = Run(m, n + 1)
    <3>1. /\ in = <<>> \/ /\ n + 1 <= top
                          /\ Head(in) = n + 1 /\ Tail(in) = Run(n + 1, top)
      BY <1>1, Runs
    <3>2. Append(q, n + 1) = Run(m, n + 1)
      BY <1>1, Runs, Zenon
    <3> QED
      BY <3>1, <3>2, <1>3, Zenon
  <2>2. m <= n + 1 /\ n + 1 \in Nat
    BY <1>1
  <2> QED
    BY <1>1, <2>1, <2>2, Zenon DEF Sends
<1>4. ASSUME q # <<>>
      PROVE  Sends(Append(w, R!Wrte(Head(q))), g, Tail(q), in, top)
  <2>1. m + 1 <= n /\ Head(q) = m + 1 /\ Tail(q) = Run(m + 1, n)
    <3>1. m \in Nat /\ n \in Nat /\ m <= n /\ q = Run(m, n) /\ Run(m, n) # <<>>
      BY <1>1, <1>4, Zenon
    <3>2. m + 1 <= n /\ Head(Run(m, n)) = m + 1 /\ Tail(Run(m, n)) = Run(m + 1, n)
      BY <3>1, RunHead, Zenon
    <3> QED
      BY <3>1, <3>2, Zenon
  <2> QED
    BY <1>1, <1>2, <2>1 DEF Sends
<1>5. ASSUME in # <<>>, q = <<>>
      PROVE  Sends(Append(w, R!Wrte(Head(in))), g, q, Tail(in), top)
  <2>1. n + 1 <= top /\ Head(in) = n + 1 /\ Tail(in) = Run(n + 1, top)
    BY <1>1, <1>5, Runs
  <2>2. m = n
    <3>1. Run(m, n) = <<>> <=> m = n
      BY <1>1, Runs, Zenon
    <3> QED
      BY <3>1, <1>1, <1>5, Zenon
  <2>3. q = Run(n + 1, n + 1) /\ n + 1 \in Nat /\ n + 1 <= n + 1
    <3>1. n + 1 \in Nat /\ n + 1 <= n + 1
      BY <1>1
    <3>2. Run(n + 1, n + 1) = <<>> <=> n + 1 = n + 1
      BY <3>1, Runs
    <3> QED
      BY <3>1, <3>2, <1>5, Zenon
  <2> QED
    BY <1>1, <1>2, <2>1, <2>2, <2>3, Zenon DEF Sends
<1> QED
  BY <1>3, <1>4, <1>5, Zenon

\* Other frames on the way to the receiver change nothing.
LEMMA SendsOther ==
    ASSUME NEW w \in Seq(Frame), NEW g \in Seq(Nat), NEW q, NEW in, NEW top \in Nat,
           Sends(w, g, q, in, top), NEW f \in Frame, f[1] # "WRTE"
    PROVE  Sends(Append(w, f), g, q, in, top)
BY CarriesOther, Zenon DEF Sends

\* The receiver takes the chunk that follows the last one it received.
LEMMA Receives ==
    ASSUME NEW w \in Seq(Frame), NEW g \in Seq(Nat), NEW q, NEW in, NEW top \in Nat,
           g = R!Upto(Len(g)), Sends(w, g, q, in, top), w # <<>>
    PROVE  LET f == Head(w)
               h == IF f[1] = "WRTE" THEN Append(g, f[2]) ELSE g
           IN  h \in Seq(Nat) /\ h = R!Upto(Len(h)) /\ Sends(Tail(w), h, q, in, top)
<1>0. Len(g) \in Nat
  OBVIOUS
<1>1. PICK m, n \in Nat : /\ m <= n /\ n <= top
                         /\ Carries(w, Len(g), m) /\ q = Run(m, n) /\ in = Run(n, top)
  BY Zenon DEF Sends
<1>2. /\ Head(w)[1] = "WRTE" => Head(w)[2] = Len(g) + 1 /\ Carries(Tail(w), Len(g) + 1, m)
      /\ Head(w)[1] # "WRTE" => Carries(Tail(w), Len(g), m)
  BY <1>0, <1>1, CarriesTaken, Zenon
<1>3. CASE Head(w)[1] = "WRTE"
  <2> DEFINE h == Append(g, Len(g) + 1)
  <2>1. h \in Seq(Nat) /\ h = R!Upto(Len(h)) /\ Len(h) = Len(g) + 1
    BY Prefixes, Zenon
  <2> HIDE DEF h
  <2>2. Sends(Tail(w), h, q, in, top)
    BY <1>1, <1>2, <1>3, <2>1, Zenon DEF Sends
  <2> QED
    BY <1>2, <1>3, <2>1, <2>2, Zenon DEF h
<1>4. CASE Head(w)[1] # "WRTE"
  BY <1>1, <1>2, <1>4, Zenon DEF Sends
<1> QED
  BY <1>3, <1>4, Zenon

\* From the device to a local peer that loses nothing: n sent, l on the line, s shown.
Shows(l, s, n) == s = R!Upto(Len(s)) /\ Carries(l, Len(s), n)

\* The device writes, and the relay takes a frame.
LEMMA Showing ==
    ASSUME NEW l \in Seq(Frame), NEW s \in Seq(Nat), NEW n \in Nat, Shows(l, s, n)
    PROVE  /\ Shows(Append(l, R!Wrte(n + 1)), s, n + 1)
           /\ \A f \in Frame : f[1] # "WRTE" => Shows(Append(l, f), s, n)
           /\ l # <<>> => LET f == Head(l)
                              t == IF f[1] = "WRTE" THEN Append(s, f[2]) ELSE s
                          IN  t \in Seq(Nat) /\ Shows(Tail(l), t, n)
<1>0. Len(s) \in Nat
  OBVIOUS
<1>1. Shows(Append(l, R!Wrte(n + 1)), s, n + 1)
  BY <1>0, CarriesAppended, Zenon DEF Shows
<1>2. ASSUME NEW f \in Frame, f[1] # "WRTE"
      PROVE  Shows(Append(l, f), s, n)
  BY <1>2, CarriesOther, Zenon DEF Shows
<1>3. ASSUME l # <<>>
      PROVE  LET f == Head(l)
                 t == IF f[1] = "WRTE" THEN Append(s, f[2]) ELSE s
             IN  t \in Seq(Nat) /\ Shows(Tail(l), t, n)
  <2>1. /\ Head(l)[1] = "WRTE" => Head(l)[2] = Len(s) + 1 /\ Carries(Tail(l), Len(s) + 1, n)
        /\ Head(l)[1] # "WRTE" => Carries(Tail(l), Len(s), n)
    BY <1>0, <1>3, CarriesTaken, Zenon DEF Shows
  <2> DEFINE t == Append(s, Len(s) + 1)
  <2>2. t \in Seq(Nat) /\ t = R!Upto(Len(t)) /\ Len(t) = Len(s) + 1
    BY Prefixes, Zenon DEF Shows
  <2>3. CASE Head(l)[1] = "WRTE"
    <3> HIDE DEF t
    <3>1. Shows(Tail(l), t, n)
      BY <2>1, <2>2, <2>3, Zenon DEF Shows
    <3> QED
      BY <2>1, <2>2, <2>3, <3>1, Zenon DEF t
  <2>4. CASE Head(l)[1] # "WRTE"
    BY <2>1, <2>4, Zenon DEF Shows
  <2> QED
    BY <2>3, <2>4, Zenon
<1> QED
  BY <1>1, <1>2, <1>3, Zenon

\* Nothing shown lies above t, nor the chunk h the reader holds, which is the latest.
Below(s, h, t) ==
    /\ \A i \in DOMAIN s : s[i] <= t
    /\ \A x \in h : x <= t /\ (\A i \in DOMAIN s : s[i] < x)

\* The same where the writer may take frames too, and lose them.
Follows(l, s, h, n) ==
    /\ R!Increasing(s)
    /\ \E t \in Nat : t <= n /\ Within(l, t, n) /\ Below(s, h, t)

\* The device writes; a frame is taken by the reader, or lost with the writer; the
\* reader shows what it holds.
LEMMA Following ==
    ASSUME NEW l \in Seq(Frame), NEW s \in Seq(Nat), NEW h, NEW n \in Nat, Follows(l, s, h, n)
    PROVE  /\ Follows(Append(l, R!Wrte(n + 1)), s, h, n + 1)
           /\ \A f \in Frame : f[1] # "WRTE" => Follows(Append(l, f), s, h, n)
           /\ l # <<>> => /\ Follows(Tail(l), s, h, n)
                          /\ Head(l)[1] = "WRTE" => Follows(Tail(l), s, {Head(l)[2]}, n)
           /\ Follows(l, s, {}, n)
           /\ \A x \in Nat : x \in h => Follows(l, Append(s, x), {}, n)
<1>1. PICK t \in Nat : t <= n /\ Within(l, t, n) /\ Below(s, h, t)
  BY Zenon DEF Follows
<1>2. R!Increasing(s) /\ Len(s) \in Nat /\ DOMAIN s = 1 .. Len(s) /\ \A i \in DOMAIN s : s[i] \in Nat
  BY DEF Follows
<1>3. Follows(Append(l, R!Wrte(n + 1)), s, h, n + 1)
  <2>1. Within(Append(l, R!Wrte(n + 1)), t, n + 1) /\ t <= n + 1
    BY <1>1, WithinAppended
  <2> QED
    BY <1>1, <1>2, <2>1, Zenon DEF Follows
<1>4. ASSUME NEW f \in Frame, f[1] # "WRTE"
      PROVE  Follows(Append(l, f), s, h, n)
  <2>1. Within(Append(l, f), t, n)
    BY <1>1, <1>4, WithinOther, Zenon
  <2> QED
    BY <1>1, <1>2, <2>1, Zenon DEF Follows
<1>5. ASSUME l # <<>>
      PROVE  /\ Follows(Tail(l), s, h, n)
             /\ Head(l)[1] = "WRTE" => Follows(Tail(l), s, {Head(l)[2]}, n)
  <2>1. /\ Within(Tail(l), t, n)
        /\ Head(l)[1] = "WRTE" => /\ Head(l)[2] \in Nat /\ t < Head(l)[2] /\ Head(l)[2] <= n
                                  /\ Within(Tail(l), Head(l)[2], n)
    BY <1>1, <1>5, WithinTaken, Zenon
  <2>2. Follows(Tail(l), s, h, n)
    BY <1>1, <1>2, <2>1, Zenon DEF Follows
  <2>3. ASSUME Head(l)[1] = "WRTE"
        PROVE  Follows(Tail(l), s, {Head(l)[2]}, n)
    <3> DEFINE x == Head(l)[2]
    <3>1. x \in Nat /\ t < x /\ x <= n /\ Within(Tail(l), x, n)
      BY <2>1, <2>3, Zenon
    <3> HIDE DEF x
    <3>2. \A i \in DOMAIN s : s[i] <= x /\ s[i] < x
      BY <1>1, <1>2, <3>1 DEF Below
    <3>3. Below(s, {x}, x)
      BY <3>1, <3>2 DEF Below
    <3>4. Follows(Tail(l), s, {x}, n)
      BY <1>2, <3>1, <3>3, Zenon DEF Follows
    <3> QED
      BY <3>4, Zenon DEF x
  <2> QED
    BY <2>2, <2>3, Zenon
<1>6. Follows(l, s, {}, n)
  <2>1. Below(s, {}, t)
    BY <1>1, Zenon DEF Below
  <2> QED
    BY <1>1, <1>2, <2>1, Zenon DEF Follows
<1>7. ASSUME NEW x \in Nat, x \in h
      PROVE  Follows(l, Append(s, x), {}, n)
  <2> DEFINE u == Append(s, x)
  <2>1. x <= t /\ \A i \in DOMAIN s : s[i] < x
    BY <1>1, <1>7, Zenon DEF Below
  <2>2. /\ Len(u) = Len(s) + 1 /\ DOMAIN u = 1 .. Len(s) + 1
        /\ u[Len(s) + 1] = x /\ \A i \in DOMAIN s : u[i] = s[i]
    BY <1>2
  <2> HIDE DEF u
  <2>3. \A i \in DOMAIN u : i \in DOMAIN s \/ i = Len(s) + 1
    BY <1>2, <2>2
  <2>4. \A i \in DOMAIN u : u[i] <= t
    BY <1>1, <2>1, <2>2, <2>3, Zenon DEF Below
  <2>5. R!Increasing(u)
    <3> SUFFICES ASSUME NEW i \in DOMAIN u, NEW j \in DOMAIN u, i < j
                 PROVE  u[i] < u[j]
      BY <2>2, Zenon DEF R!Increasing
    <3>1. i \in DOMAIN s /\ u[i] = s[i]
      BY <1>2, <2>2, <2>3
    <3>2. CASE j \in DOMAIN s
      BY <1>2, <2>2, <3>1, <3>2, Zenon DEF R!Increasing
    <3>3. CASE j = Len(s) + 1
      BY <2>1, <2>2, <3>1, <3>3, Zenon
    <3> QED
      BY <2>3, <3>2, <3>3, Zenon
  <2>6. Below(u, {}, t)
    BY <2>4, Zenon DEF Below
  <2> QED
    BY <1>1, <2>5, <2>6, Zenon DEF Follows, u
<1> QED
  BY <1>3, <1>4, <1>5, <1>6, <1>7, Zenon
-----------------------------------------------------------------------------
Top == IF kind \in {"exec_out", "shell", "server_out"} THEN 0 ELSE Up
Queued == IF kind = "usb" THEN <<>> ELSE queue
Held == IF kind = "usb" /\ rd = "ack" /\ Head(queue)[1] = "WRTE" THEN {Head(queue)[2]} ELSE {}
Listening == dev.open \/ rd = "open"

RTypes ==
    /\ wire \in Seq(Frame) /\ line \in Seq(Frame)
    /\ relays_got \in Seq(Nat) /\ shown \in Seq(Nat) /\ input \in Seq(Nat) /\ Queued \in Seq(Nat)
    /\ dev \in [sent : Nat, unacked : BOOLEAN, open : BOOLEAN]

\* Where the threads of each kind of relay can be, and what they have seen there.
RThreads ==
    /\ kind = "usb" => rd \in {"clone", "lock", "recv", "ack", "stopped"}
    /\ kind # "usb" => /\ rd \in {"clone", "open", "run", "await", "stopped"}
                       /\ wr \in {"clone", "open", "run", "stopped"}
    /\ kind = "usb" /\ rd = "ack" => Head(queue) \in Frame /\ Head(queue) # R!Okay
    /\ rd = "open" => kind = "forward" /\ wr = "open" /\ wire = <<>>
    /\ kind \in {"forward", "install", "abb_in"} => queue = <<>>
    /\ kind = "pump" /\ rd = "run" /\ ~inflight => queue = <<>>
    /\ wr = "send" => input # <<>>
    /\ R!Raw => \A i \in DOMAIN line : line[i] # R!Okay

RUp ==
    /\ relays_got = R!Upto(Len(relays_got))
    /\ Listening => Sends(wire, relays_got, Queued, input, Top)

RDown ==
    IF kind = "usb" THEN Follows(line, shown, Held, dev.sent) ELSE Shows(line, shown, dev.sent)

RInv == RTypes /\ RThreads /\ RUp /\ RDown
-----------------------------------------------------------------------------
\* What the invariant gives on the way up and on the way down.
LEMMA Streams ==
    ASSUME RInv
    PROVE  /\ wire \in Seq(Frame) /\ line \in Seq(Frame) /\ relays_got \in Seq(Nat) /\ shown \in Seq(Nat)
           /\ input \in Seq(Nat) /\ Queued \in Seq(Nat) /\ Top \in Nat
           /\ dev.sent \in Nat /\ dev.unacked \in BOOLEAN /\ dev.open \in BOOLEAN
BY ChunksAssumption, Zenon DEF RInv, RTypes, Top

\* The way up, when nothing moves there but other frames than chunks.
LEMMA UpSame ==
    ASSUME RInv, kind' = kind, relays_got' = relays_got, input' = input, Queued' = Queued,
           Listening' => Listening,
           wire' = wire \/ \E f \in Frame : f[1] # "WRTE" /\ wire' = Append(wire, f)
    PROVE  RUp' /\ wire' \in Seq(Frame)
<1>1. Top' = Top
  BY Zenon DEF Top
<1>2. CASE wire' = wire
  BY <1>1, <1>2, Streams, Zenon DEF RInv, RUp
<1>3. ASSUME NEW f \in Frame, f[1] # "WRTE", wire' = Append(wire, f)
      PROVE  RUp' /\ wire' \in Seq(Frame)
  <2>1. Listening => Sends(Append(wire, f), relays_got, Queued, input, Top)
    BY <1>3, Streams, SendsOther, Zenon DEF RInv, RUp
  <2>2. Append(wire, f) \in Seq(Frame)
    BY Streams
  <2> QED
    BY <1>1, <1>3, <2>1, <2>2, Zenon DEF RInv, RUp
<1> QED
  BY <1>2, <1>3, Zenon

\* The way up, when the next chunk of the input goes to the wire, to the queue, or
\* the next one of the queue to the wire.
LEMMA UpMoves ==
    ASSUME RInv, kind' = kind, relays_got' = relays_got, Listening' => Listening,
           \/ /\ input # <<>> /\ Queued = <<>> /\ Queued' = Queued
              /\ wire' = Append(wire, R!Wrte(Head(input))) /\ input' = Tail(input)
           \/ /\ input # <<>> /\ Queued' = Append(Queued, Head(input))
              /\ wire' = wire /\ input' = Tail(input)
           \/ /\ Queued # <<>> /\ Queued' = Tail(Queued)
              /\ wire' = Append(wire, R!Wrte(Head(Queued))) /\ input' = input
    PROVE  RUp' /\ wire' \in Seq(Frame) /\ input' \in Seq(Nat) /\ Queued' \in Seq(Nat)
<1>1. Top' = Top
  BY Zenon DEF Top
<1>2. \A s \in Seq(Nat) : s # <<>> => Head(s) \in Nat /\ Tail(s) \in Seq(Nat)
  BY ChunkSeq, Zenon
<1>3. \A n \in Nat : Append(wire, R!Wrte(n)) \in Seq(Frame)
  BY Streams, FrameSeq, Frames, Zenon
<1>4. \A n \in Nat : Append(Queued, n) \in Seq(Nat)
  BY Streams
<1>5. wire' \in Seq(Frame) /\ input' \in Seq(Nat) /\ Queued' \in Seq(Nat)
  BY <1>2, <1>3, <1>4, Streams, Zenon
<1>6. Listening => /\ input # <<>> => Sends(wire, relays_got, Append(Queued, Head(input)), Tail(input), Top)
                   /\ Queued # <<>> => Sends(Append(wire, R!Wrte(Head(Queued))), relays_got, Tail(Queued), input, Top)
                   /\ input # <<>> /\ Queued = <<>> =>
                         Sends(Append(wire, R!Wrte(Head(input))), relays_got, Queued, Tail(input), Top)
  <2>1. Listening => Sends(wire, relays_got, Queued, input, Top)
    BY Zenon DEF RInv, RUp
  <2> HIDE DEF Queued
  <2> QED
    BY <2>1, Streams, SendsOn, Zenon
<1>7. Listening => Sends(wire', relays_got, Queued', input', Top)
  BY <1>6, Zenon
<1> QED
  BY <1>1, <1>5, <1>7, Zenon DEF RInv, RUp

\* The way down, when nothing moves there.
LEMMA DownSame ==
    ASSUME RInv, kind' = kind, line' = line, shown' = shown, Held' = Held, dev'.sent = dev.sent
    PROVE  RDown' /\ line' \in Seq(Frame) /\ shown' \in Seq(Nat)
BY Streams, Zenon DEF RInv, RDown

\* The way down, when a relay that loses nothing takes a frame.
LEMMA DownTaken ==
    ASSUME RInv, kind # "usb", kind' = kind, line # <<>>, line' = Tail(line), dev'.sent = dev.sent,
           shown' = IF Head(line)[1] = "WRTE" THEN Append(shown, Head(line)[2]) ELSE shown
    PROVE  /\ RDown' /\ line' \in Seq(Frame) /\ shown' \in Seq(Nat)
           /\ (\A i \in DOMAIN line : line[i] # R!Okay) => \A i \in DOMAIN line' : line'[i] # R!Okay
<1>1. Shows(line, shown, dev.sent)
  BY Zenon DEF RInv, RDown
<1>2. shown' \in Seq(Nat) /\ Shows(Tail(line), shown', dev.sent)
  BY <1>1, Streams, Showing, Zenon
<1>3. Tail(line) \in Seq(Frame) /\ \A i \in DOMAIN Tail(line) : Tail(line)[i] = line[i + 1] /\ i + 1 \in DOMAIN line
  BY Streams, FrameSeq, Zenon
<1> QED
  BY <1>2, <1>3, Zenon DEF RDown

\* The way down, when the device puts a frame on the line: a chunk is the next one.
LEMMA DownWritten ==
    ASSUME RInv, kind' = kind, shown' = shown, Held' = Held, dev'.sent \in Nat,
           \/ line' = line /\ dev'.sent = dev.sent
           \/ line' = Append(line, R!Wrte(dev.sent + 1)) /\ dev'.sent = dev.sent + 1
           \/ line' = Append(line, R!Clse) /\ dev'.sent = dev.sent
           \/ ~R!Raw /\ line' = Append(line, R!Okay) /\ dev'.sent = dev.sent
    PROVE  /\ RDown' /\ line' \in Seq(Frame) /\ shown' \in Seq(Nat)
           /\ R!Raw => \A i \in DOMAIN line' : line'[i] # R!Okay
<1>0. /\ R!Clse \in Frame /\ R!Clse[1] # "WRTE" /\ R!Okay \in Frame /\ R!Okay[1] # "WRTE"
      /\ R!Wrte(dev.sent + 1) \in Frame
  BY Streams, Frames
<1>1. kind # "usb" => Shows(line', shown', dev'.sent)
  <2> HAVE kind # "usb"
  <2>1. Shows(line, shown, dev.sent)
    BY Zenon DEF RInv, RDown
  <2>2. /\ Shows(Append(line, R!Wrte(dev.sent + 1)), shown, dev.sent + 1)
        /\ \A f \in Frame : f[1] # "WRTE" => Shows(Append(line, f), shown, dev.sent)
    BY <2>1, Streams, Showing, Zenon
  <2> QED
    BY <1>0, <2>1, <2>2, Zenon
<1>2. kind = "usb" => Follows(line', shown', Held', dev'.sent)
  <2> HAVE kind = "usb"
  <2>1. Follows(line, shown, Held, dev.sent)
    BY Zenon DEF RInv, RDown
  <2>2. /\ Follows(Append(line, R!Wrte(dev.sent + 1)), shown, Held, dev.sent + 1)
        /\ \A f \in Frame : f[1] # "WRTE" => Follows(Append(line, f), shown, Held, dev.sent)
    BY <2>1, Streams, Following, Zenon
  <2> QED
    BY <1>0, <2>1, <2>2, Zenon
<1>3. line' \in Seq(Frame)
  <2>1. \A f \in Frame : Append(line, f) \in Seq(Frame)
    BY Streams, FrameSeq, Zenon
  <2> QED
    BY <1>0, <2>1, Streams, Zenon
<1>4. R!Raw => \A i \in DOMAIN line' : line'[i] # R!Okay
  <2> SUFFICES ASSUME R!Raw, NEW i \in DOMAIN line', line'[i] = R!Okay
               PROVE  FALSE
    BY Zenon
  <2>1. \A j \in DOMAIN line : line[j] # R!Okay
    BY Zenon DEF RInv, RThreads
  <2>2. PICK f \in Frame : f # R!Okay /\ line' = Append(line, f)
    BY <2>1, Streams, Frames, Zenon
  <2>3. i \in DOMAIN line \/ i = Len(line) + 1
    BY <2>2, Streams, FrameSeq
  <2> QED
    BY <2>1, <2>2, <2>3, Streams, FrameSeq
<1> QED
  BY <1>1, <1>2, <1>3, <1>4, Streams, Zenon DEF RDown

\* The device sends a chunk.
LEMMA DevWritesOK ==
    ASSUME RInv, R!DevWrites
    PROVE  RInv'
<1> USE DEF R!DevWrites
<1>1. dev' \in [sent : Nat, unacked : BOOLEAN, open : BOOLEAN] /\ dev'.sent = dev.sent + 1 /\ dev'.open = dev.open
  <2> DEFINE b == ~R!Raw
  <2>1. b \in BOOLEAN
    BY Zenon DEF R!Raw
  <2>2. /\ dev' = [dev EXCEPT !.sent = dev.sent + 1, !.unacked = b]
        /\ dev \in [sent : Nat, unacked : BOOLEAN, open : BOOLEAN]
    BY Zenon DEF RInv, RTypes
  <2>3. dev.sent + 1 \in Nat
    BY <2>2
  <2> HIDE DEF b, R!DevWrites
  <2> QED
    BY <2>1, <2>2, <2>3, Zenon
<1>2. Queued' = Queued /\ Held' = Held /\ Listening' = Listening /\ R!Raw' = R!Raw
  BY <1>1, Zenon DEF Queued, Held, Listening, R!Raw
<1>3. RUp' /\ wire' \in Seq(Frame)
  BY <1>2, UpSame, Zenon
<1>4. /\ RDown' /\ line' \in Seq(Frame) /\ shown' \in Seq(Nat)
      /\ R!Raw => \A i \in DOMAIN line' : line'[i] # R!Okay
  BY <1>1, <1>2, DownWritten, Zenon
<1>5. RThreads'
  BY <1>2, <1>4, Zenon DEF RInv, RThreads
<1> QED
  BY <1>1, <1>2, <1>3, <1>4, <1>5, Zenon DEF RInv, RTypes

\* The device takes a frame.
LEMMA DevReadsOK ==
    ASSUME RInv, R!DevReads
    PROVE  RInv'
<1> USE DEF R!DevReads
<1> DEFINE f == Head(wire)
<1>0. f \in Frame /\ Tail(wire) \in Seq(Frame) /\ Top' = Top
  BY Streams, FrameSeq, Zenon DEF Top
<1>1. /\ dev' \in [sent : Nat, unacked : BOOLEAN, open : BOOLEAN] /\ dev'.sent = dev.sent
      /\ dev'.open = (dev.open /\ f # R!Clse)
  BY Zenon DEF RInv, RTypes
<1>2. Queued' = Queued /\ Held' = Held /\ R!Raw' = R!Raw /\ rd # "open" /\ rd' = rd
  BY Zenon DEF Queued, Held, R!Raw, RInv, RThreads
<1>3. RUp' /\ relays_got' \in Seq(Nat)
  <2>1. CASE dev.open
    <3>1. Sends(wire, relays_got, Queued, input, Top) /\ relays_got = R!Upto(Len(relays_got))
      BY <2>1, Zenon DEF RInv, RUp, Listening
    <3> DEFINE h == IF f[1] = "WRTE" THEN Append(relays_got, f[2]) ELSE relays_got
    <3> HIDE DEF Queued
    <3>2. h \in Seq(Nat) /\ h = R!Upto(Len(h)) /\ Sends(Tail(wire), h, Queued, input, Top)
      BY <3>1, Streams, Receives, Zenon
    <3>3. relays_got' = h
      BY <2>1, Zenon
    <3> QED
      BY <1>0, <1>2, <3>2, <3>3, Zenon DEF RUp
  <2>2. CASE ~dev.open
    <3>1. ~Listening' /\ relays_got' = relays_got
      BY <1>1, <1>2, <2>2, Zenon DEF Listening
    <3> QED
      BY <3>1, Streams, Zenon DEF RInv, RUp
  <2> QED
    BY <2>1, <2>2, Streams, Zenon
<1>4. /\ RDown' /\ line' \in Seq(Frame) /\ shown' \in Seq(Nat)
      /\ R!Raw => \A i \in DOMAIN line' : line'[i] # R!Okay
  <2>1. \/ line' = line \/ line' = Append(line, R!Clse)
        \/ ~R!Raw /\ line' = Append(line, R!Okay)
    BY Streams
  <2> QED
    BY <1>1, <1>2, <2>1, DownWritten, Zenon
<1>5. RThreads'
  BY <1>2, <1>4, Zenon DEF RInv, RThreads
<1> QED
  BY <1>0, <1>1, <1>2, <1>3, <1>4, <1>5, Zenon DEF RInv, RTypes

\* The device closes its end.
LEMMA DevClosesOK ==
    ASSUME RInv, R!DevCloses
    PROVE  RInv'
<1> USE DEF R!DevCloses
<1>1. dev' \in [sent : Nat, unacked : BOOLEAN, open : BOOLEAN] /\ dev'.sent = dev.sent /\ dev'.open = FALSE
  BY Zenon DEF RInv, RTypes
<1>2. Queued' = Queued /\ Held' = Held /\ (Listening' => Listening) /\ R!Raw' = R!Raw
  BY <1>1, Zenon DEF Queued, Held, Listening, R!Raw
<1>3. RUp' /\ wire' \in Seq(Frame)
  BY <1>2, UpSame, Zenon
<1>4. /\ RDown' /\ line' \in Seq(Frame) /\ shown' \in Seq(Nat)
      /\ R!Raw => \A i \in DOMAIN line' : line'[i] # R!Okay
  BY <1>1, <1>2, Streams, DownWritten, Zenon
<1>5. RThreads'
  BY <1>2, <1>4, Zenon DEF RInv, RThreads
<1> QED
  BY <1>1, <1>2, <1>3, <1>4, <1>5, Zenon DEF RInv, RTypes

\* Steps that move no frame and no chunk.
LEMMA Still ==
    ASSUME RInv, RThreads', UNCHANGED <<kind, input, queue, wire, line, relays_got, shown>>,
           dev' \in [sent : Nat, unacked : BOOLEAN, open : BOOLEAN], dev'.sent = dev.sent,
           Listening' => Listening, rd' # "ack" \/ rd' = rd
    PROVE  RInv'
<1>1. Queued' = Queued
  BY Zenon DEF Queued
<1>2. RUp' /\ wire' \in Seq(Frame)
  BY <1>1, UpSame, Zenon
<1>3. Held' = Held \/ (Held' = {} /\ kind = "usb")
  BY Zenon DEF Held
<1>4. RDown'
  <2>1. CASE Held' = Held
    BY <2>1, DownSame, Zenon
  <2>2. CASE Held' = {} /\ kind = "usb"
    BY <2>2, Streams, Following, Zenon DEF RInv, RDown
  <2> QED
    BY <1>3, <2>1, <2>2, Zenon
<1> QED
  BY <1>1, <1>2, <1>4, Zenon DEF RInv, RTypes

\* A relay that loses nothing takes a frame, and answers it at most.
LEMMA Relayed ==
    ASSUME RInv, RThreads', kind # "usb", line # <<>>, line' = Tail(line),
           UNCHANGED <<kind, input, queue, relays_got, dev>>, Listening' => Listening,
           shown' = IF Head(line)[1] = "WRTE" THEN Append(shown, Head(line)[2]) ELSE shown,
           wire' = wire \/ wire' = Append(wire, R!Okay) \/ wire' = Append(wire, R!Clse)
    PROVE  RInv'
<1>1. Queued' = Queued
  BY Zenon DEF Queued
<1>2. RUp' /\ wire' \in Seq(Frame)
  BY <1>1, Frames, UpSame, Zenon
<1>3. RDown' /\ line' \in Seq(Frame) /\ shown' \in Seq(Nat)
  BY DownTaken, Zenon
<1> QED
  BY <1>1, <1>2, <1>3, Zenon DEF RInv, RTypes

\* What the first frame of the line can be.
LEMMA Taken ==
    ASSUME RInv, line # <<>>
    PROVE  /\ Head(line) \in Frame
           /\ Head(line)[1] = "WRTE" \/ Head(line) = R!Okay \/ Head(line) = R!Clse
           /\ Head(line)[1] = "WRTE" <=> Head(line) # R!Okay /\ Head(line) # R!Clse
           /\ R!Raw => Head(line) # R!Okay
           /\ Tail(line) \in Seq(Frame)
           /\ R!Raw => \A i \in DOMAIN Tail(line) : Tail(line)[i] # R!Okay
<1>1. /\ Head(line) \in Frame /\ Head(line) = line[1] /\ 1 \in DOMAIN line /\ Tail(line) \in Seq(Frame)
      /\ \A i \in DOMAIN Tail(line) : Tail(line)[i] = line[i + 1] /\ i + 1 \in DOMAIN line
  BY Streams, FrameSeq, Zenon
<1>2. R!Raw => \A i \in DOMAIN line : line[i] # R!Okay
  BY Zenon DEF RInv, RThreads
<1>3. /\ Head(line)[1] = "WRTE" \/ Head(line) = R!Okay \/ Head(line) = R!Clse
      /\ Head(line)[1] = "WRTE" <=> Head(line) # R!Okay /\ Head(line) # R!Clse
  BY <1>1, Frames, Zenon
<1> QED
  BY <1>1, <1>2, <1>3, Zenon

\* bridge_smart_remote, the reader.
LEMMA ReaderOK ==
    ASSUME RInv, R!Bridge \/ R!ReaderLocks \/ R!ReaderReceives \/ R!ReaderAcks \/ R!ReaderTimesOut
    PROVE  RInv'
<1>0. dev \in [sent : Nat, unacked : BOOLEAN, open : BOOLEAN]
  BY Zenon DEF RInv, RTypes
<1>1. CASE R!Bridge
  <2> USE <1>1 DEF R!Bridge, R!device
  <2>1. RThreads'
    BY Zenon DEF RInv, RThreads, R!try_clone_box, R!Raw
  <2>2. (Listening' => Listening) /\ rd' # "ack"
    BY Zenon DEF Listening, R!try_clone_box
  <2> QED
    BY <1>0, <2>1, <2>2, Still, Zenon
<1>2. CASE R!ReaderLocks
  <2> USE <1>2 DEF R!ReaderLocks, R!device
  <2>1. RThreads'
    BY Zenon DEF RInv, RThreads, R!Raw
  <2>2. (Listening' => Listening) /\ rd' # "ack"
    BY Zenon DEF Listening
  <2> QED
    BY <1>0, <2>1, <2>2, Still, Zenon
<1>3. CASE R!ReaderTimesOut
  <2> USE <1>3 DEF R!ReaderTimesOut, R!device
  <2>1. RThreads'
    BY Zenon DEF RInv, RThreads, R!Raw
  <2>2. (Listening' => Listening) /\ rd' # "ack"
    BY Zenon DEF Listening
  <2> QED
    BY <1>0, <2>1, <2>2, Still
<1>4. CASE R!ReaderReceives
  <2> USE <1>4 DEF R!ReaderReceives
  <2> DEFINE f == Head(line)
  <2>1. kind = "usb" /\ kind' = kind /\ rd' \in {"lock", "ack"} /\ dev' = dev
    BY Zenon DEF RInv, RThreads
  <2>2. /\ f \in Frame /\ (f[1] = "WRTE" <=> f # R!Okay /\ f # R!Clse)
        /\ Tail(line) \in Seq(Frame)
    BY Taken, Zenon
  <2>3. rd' = "ack" => f # R!Okay /\ Head(queue') = f
    BY DEF R!Okay
  <2>4. RThreads'
    BY <2>1, <2>2, <2>3, Zenon DEF RInv, RThreads, R!Raw
  <2>5. Queued' = Queued /\ (Listening' => Listening)
    BY <2>1, Zenon DEF Queued, Listening
  <2>6. RUp' /\ wire' \in Seq(Frame)
    BY <2>5, UpSame, Zenon
  <2>7. RDown'
    <3>1. Held' = {} \/ (f[1] = "WRTE" /\ Held' = {f[2]})
      BY <2>1, <2>3, Zenon DEF Held
    <3>2. Follows(line, shown, Held, dev.sent)
      BY <2>1, Zenon DEF RInv, RDown
    <3>3. Follows(Tail(line), shown, Held, dev.sent) /\ (f[1] = "WRTE" => Follows(Tail(line), shown, {f[2]}, dev.sent))
      BY <3>2, Streams, Following, Zenon
    <3>4. Follows(Tail(line), shown, {}, dev.sent)
      BY <2>2, <3>3, Streams, Following, Zenon
    <3>5. Follows(line', shown', Held', dev'.sent)
      BY <2>1, <3>1, <3>3, <3>4, Zenon
    <3> QED
      BY <2>1, <3>5, Zenon DEF RDown
  <2> QED
    BY <1>0, <2>2, <2>4, <2>5, <2>6, <2>7 DEF RInv, RTypes
<1>5. CASE R!ReaderAcks
  <2> USE <1>5 DEF R!ReaderAcks
  <2> DEFINE f == Head(queue)
  <2>1. kind = "usb" /\ kind' = kind /\ rd' \in {"lock", "stopped"} /\ f \in Frame
    BY Zenon DEF RInv, RThreads
  <2>2. RThreads'
    BY <2>1, Zenon DEF RInv, RThreads, R!Raw
  <2>3. Queued' = Queued /\ (Listening' => Listening) /\ Held' = {}
    BY <2>1, Zenon DEF Queued, Listening, Held
  <2>4. RUp' /\ wire' \in Seq(Frame)
    BY <2>3, Frames, UpSame, Zenon
  <2>5. RDown' /\ shown' \in Seq(Nat)
    <3>1. Follows(line, shown, Held, dev.sent)
      BY <2>1, Zenon DEF RInv, RDown
    <3>2. f[1] = "WRTE" => f[2] \in Nat /\ f[2] \in Held /\ f # R!Clse
      BY <2>1, Frames DEF Held
    <3>3. f[1] # "WRTE" => shown' = shown
      BY <2>1, Frames DEF RInv, RThreads
    <3>4. Follows(line, shown', {}, dev.sent) /\ shown' \in Seq(Nat)
      <4>1. CASE f[1] = "WRTE"
        <5>1. shown' = Append(shown, f[2]) /\ Append(shown, f[2]) \in Seq(Nat)
          <6>1. shown' = Append(shown, f[2])
            BY <3>2, <4>1, Zenon
          <6>2. shown \in Seq(Nat) /\ f[2] \in Nat
            BY <3>2, <4>1, Streams, Zenon
          <6>3. \A x \in Nat : Append(shown, x) \in Seq(Nat)
            BY <6>2
          <6> QED
            BY <6>1, <6>2, <6>3, Zenon
        <5>2. \A x \in Nat : x \in Held => Follows(line, Append(shown, x), {}, dev.sent)
          BY <3>1, Streams, Following
        <5> QED
          BY <3>2, <4>1, <5>1, <5>2
      <4>2. CASE f[1] # "WRTE"
        BY <3>1, <3>3, <4>2, Streams, Following
      <4> QED
        BY <4>1, <4>2, Zenon
    <3> QED
      BY <2>1, <2>3, <3>4, Zenon DEF RDown
  <2> QED
    BY <1>0, <2>2, <2>3, <2>4, <2>5 DEF RInv, RTypes
<1> QED
  BY <1>1, <1>2, <1>3, <1>4, <1>5, Zenon

\* bridge_smart_remote, the writer.
LEMMA WriterOK ==
    ASSUME RInv, R!WriterReads \/ R!WriterSends \/ R!WriterLocks \/ R!WriterReceives \/ R!WriterCloses
    PROVE  RInv'
<1>0. /\ dev \in [sent : Nat, unacked : BOOLEAN, open : BOOLEAN]
      /\ wr \in {"read", "send", "await", "recv", "close"} => kind = "usb"
  BY Zenon DEF RInv, RTypes, RThreads
<1>1. CASE R!WriterReads
  <2> USE <1>1 DEF R!WriterReads, R!device
  <2>1. RThreads'
    BY Zenon DEF RInv, RThreads, R!Raw
  <2>2. (Listening' => Listening) /\ rd' = rd
    BY Zenon DEF Listening
  <2> QED
    BY <1>0, <2>1, <2>2, Still
<1>2. CASE R!WriterLocks
  <2> USE <1>2 DEF R!WriterLocks, R!device
  <2>1. RThreads'
    BY <1>0, Zenon DEF RInv, RThreads, R!Raw
  <2>2. (Listening' => Listening) /\ rd' = rd
    BY Zenon DEF Listening
  <2> QED
    BY <1>0, <2>1, <2>2, Still
<1>3. CASE R!WriterSends
  <2> USE <1>3 DEF R!WriterSends
  <2>1. kind = "usb" /\ input # <<>> /\ Queued = <<>> /\ Queued' = Queued /\ Held' = Held /\ Listening' = Listening
    BY <1>0, Zenon DEF RInv, RThreads, Queued, Held, Listening
  <2>2. RUp' /\ wire' \in Seq(Frame) /\ input' \in Seq(Nat) /\ Queued' \in Seq(Nat)
    BY <2>1, UpMoves, Zenon
  <2>3. RDown' /\ line' \in Seq(Frame) /\ shown' \in Seq(Nat)
    BY <2>1, DownSame, Zenon
  <2>4. RThreads'
    BY <2>1, Zenon DEF RInv, RThreads, R!Raw
  <2> QED
    BY <2>2, <2>3, <2>4 DEF RInv, RTypes
<1>4. CASE R!WriterCloses
  <2> USE <1>4 DEF R!WriterCloses
  <2>1. kind = "usb" /\ Queued' = Queued /\ Held' = Held /\ Listening' = Listening
    BY <1>0, Zenon DEF Queued, Held, Listening
  <2>2. RUp' /\ wire' \in Seq(Frame)
    BY <2>1, Frames, UpSame, Zenon
  <2>3. RDown' /\ line' \in Seq(Frame) /\ shown' \in Seq(Nat)
    BY <2>1, DownSame, Zenon
  <2>4. RThreads'
    BY <2>1, Zenon DEF RInv, RThreads, R!Raw
  <2> QED
    BY <2>1, <2>2, <2>3, <2>4, Zenon DEF RInv, RTypes
<1>5. CASE R!WriterReceives
  <2> USE <1>5 DEF R!WriterReceives
  <2>1. kind = "usb" /\ Queued' = Queued /\ Held' = Held /\ Listening' = Listening /\ wr' \in {"read", "stopped"}
    BY <1>0, Zenon DEF Queued, Held, Listening
  <2>2. RUp' /\ wire' \in Seq(Frame)
    BY <2>1, UpSame, Zenon
  <2>3. RDown' /\ line' \in Seq(Frame) /\ shown' \in Seq(Nat)
    <3>1. Follows(line, shown, Held, dev.sent)
      BY <2>1, Zenon DEF RInv, RDown
    <3>2. line # <<>> => Follows(Tail(line), shown, Held, dev.sent) /\ Tail(line) \in Seq(Frame)
      BY <3>1, Streams, Following, Taken, Zenon
    <3>3. line' = line \/ (line # <<>> /\ line' = Tail(line))
      BY Zenon
    <3>4. Follows(line', shown, Held, dev.sent) /\ line' \in Seq(Frame)
      BY <3>1, <3>2, <3>3, Streams, Zenon
    <3> QED
      BY <2>1, <3>4, Streams, Zenon DEF RDown
  <2>4. RThreads'
    BY <2>1, Zenon DEF RInv, RThreads, R!Raw
  <2> QED
    BY <2>1, <2>2, <2>3, <2>4, Zenon DEF RInv, RTypes
<1> QED
  BY <1>1, <1>2, <1>3, <1>4, <1>5, Zenon

\* forward_connection_to_device.
LEMMA ForwardsOK ==
    ASSUME RInv, R!ForwardOpens \/ R!ForwardUp \/ R!ForwardDown
    PROVE  RInv'
<1>0. /\ dev \in [sent : Nat, unacked : BOOLEAN, open : BOOLEAN]
      /\ kind = "forward" => queue = <<>>
  BY Zenon DEF RInv, RTypes, RThreads
<1>1. CASE R!ForwardOpens
  <2> USE <1>1 DEF R!ForwardOpens
  <2>1. RThreads'
    BY Zenon DEF RInv, RThreads, R!Raw
  <2>2. dev' \in [sent : Nat, unacked : BOOLEAN, open : BOOLEAN] /\ dev'.sent = dev.sent
    BY <1>0, Zenon
  <2>3. Listening /\ rd' # "ack"
    BY Zenon DEF Listening
  <2> QED
    BY <2>1, <2>2, <2>3, Still, Zenon
<1>2. CASE R!ForwardUp
  <2> USE <1>2 DEF R!ForwardUp
  <2>1. Queued = <<>> /\ Queued' = Queued /\ Held' = Held /\ Listening' = Listening /\ rd # "open"
    BY <1>0, Zenon DEF Queued, Held, Listening, RInv, RThreads
  <2>2. RUp' /\ wire' \in Seq(Frame) /\ input' \in Seq(Nat) /\ Queued' \in Seq(Nat)
    <3>1. CASE input # <<>> /\ wire' = Append(wire, R!Wrte(Head(input))) /\ input' = Tail(input)
      BY <2>1, <3>1, UpMoves, Zenon
    <3>2. CASE wire' = Append(wire, R!Clse) /\ input' = input
      BY <2>1, <3>2, Frames, UpSame, Streams
    <3> QED
      BY <3>1, <3>2, Zenon
  <2>3. RDown' /\ line' \in Seq(Frame) /\ shown' \in Seq(Nat)
    BY <2>1, DownSame, Zenon
  <2>4. RThreads'
    BY <2>1, Zenon DEF RInv, RThreads, R!Raw
  <2> QED
    BY <2>1, <2>2, <2>3, <2>4, Zenon DEF RInv, RTypes
<1>3. CASE R!ForwardDown
  <2> USE <1>3 DEF R!ForwardDown
  <2>1. RThreads'
    BY Zenon DEF RInv, RThreads, R!Raw
  <2>2. Listening' => Listening
    BY Zenon DEF Listening
  <2>3. wire' = wire \/ wire' = Append(wire, R!Okay) \/ wire' = Append(wire, R!Clse)
    OBVIOUS
  <2> QED
    BY <2>1, <2>2, <2>3, Relayed, Zenon
<1> QED
  BY <1>1, <1>2, <1>3, Zenon

\* inc-pump: the stages of a turn each keep the order of what they move, and a
\* turn that goes on leaves the outbox empty unless a frame is in flight.
LEMMA PumpOK ==
    ASSUME RInv, NEW a \in BOOLEAN, NEW b \in BOOLEAN, R!Pump(a, b)
    PROVE  RInv'
<1> DEFINE s0 == [wire |-> wire, outbox |-> queue, inflight |-> inflight, shown |-> shown, pc |-> rd]
           s1 == R!PumpUp(a, s0)
           s2 == R!PumpDown(b, s1)
           s3 == R!PumpFlush(s2)
           Kept(st) == /\ st.wire \in Seq(Frame) /\ st.outbox \in Seq(Nat)
                       /\ DOMAIN st = {"wire", "outbox", "inflight", "shown", "pc"}
                       /\ dev.open => Sends(st.wire, relays_got, st.outbox, input', Top)
<1>1. /\ kind = "pump" /\ rd = "run" /\ kind' = kind /\ dev' = dev /\ wr' = wr /\ relays_got' = relays_got
      /\ a => input # <<>> /\ input' = Tail(input)
      /\ ~a => input' = input
      /\ b => line # <<>> /\ line' = Tail(line)
      /\ ~b => line' = line
      /\ wire' = s3.wire /\ queue' = s3.outbox /\ inflight' = s3.inflight /\ shown' = s3.shown /\ rd' = s3.pc
  BY Zenon DEF R!Pump
<1>2. /\ Queued = queue /\ Queued' = queue' /\ Top' = Top /\ Held = {} /\ Held' = {}
      /\ ~inflight => queue = <<>>
      /\ Listening <=> dev.open
  <2>1. Queued = queue /\ Queued' = queue' /\ Top' = Top /\ Held = {} /\ Held' = {}
    BY <1>1, Zenon DEF Queued, Top, Held
  <2>2. (~inflight => queue = <<>>) /\ (Listening <=> dev.open)
    BY <1>1, Zenon DEF RInv, RThreads, Listening
  <2> QED
    BY <2>1, <2>2, Zenon
<1>3. /\ wire \in Seq(Frame) /\ queue \in Seq(Nat) /\ input \in Seq(Nat) /\ relays_got \in Seq(Nat)
      /\ Top \in Nat
      /\ dev.open => Sends(wire, relays_got, queue, input, Top)
  BY <1>2, Streams, Zenon DEF RInv, RUp
<1>4. /\ Kept(s1) /\ s1.shown = shown /\ s1.pc = "run" /\ (~s1.inflight => s1.outbox = <<>>)
      /\ input' \in Seq(Nat)
  <2>1. CASE ~a
    BY <1>1, <1>2, <1>3, <2>1, Zenon DEF R!PumpUp
  <2>2. CASE a /\ inflight
    <3>1. s1 = [s0 EXCEPT !.outbox = Append(queue, Head(input))]
      BY <2>2, Zenon DEF R!PumpUp
    <3>2. dev.open => Sends(wire, relays_got, Append(queue, Head(input)), Tail(input), Top)
      BY <1>1, <1>3, <2>2, SendsOn, Zenon
    <3>3. Append(queue, Head(input)) \in Seq(Nat) /\ Tail(input) \in Seq(Nat)
      BY <1>1, <1>3, <2>2, ChunkSeq, Zenon
    <3> QED
      BY <1>1, <1>3, <2>2, <3>1, <3>2, <3>3, Zenon
  <2>3. CASE a /\ ~inflight
    <3>1. s1 = [s0 EXCEPT !.wire = Append(wire, R!Wrte(Head(input))), !.inflight = TRUE]
      BY <2>3, Zenon DEF R!PumpUp
    <3>2. dev.open => Sends(Append(wire, R!Wrte(Head(input))), relays_got, queue, Tail(input), Top)
      BY <1>1, <1>2, <1>3, <2>3, SendsOn, Zenon
    <3>3. Head(input) \in Nat /\ Tail(input) \in Seq(Nat)
      BY <1>1, <1>3, <2>3, ChunkSeq, Zenon
    <3>4. Append(wire, R!Wrte(Head(input))) \in Seq(Frame)
      BY <1>3, <3>3, Frames, FrameSeq, Zenon
    <3> QED
      BY <1>1, <1>3, <2>3, <3>1, <3>2, <3>3, <3>4, Zenon
  <2> QED
    BY <2>1, <2>2, <2>3, Zenon
<1> HIDE DEF s1
<1>5. /\ Kept(s2) /\ s2.pc \in {"run", "stopped"}
      /\ s2.shown = IF b /\ Head(line)[1] = "WRTE" THEN Append(shown, Head(line)[2]) ELSE shown
  <2>1. CASE ~b
    BY <1>4, <2>1, Zenon DEF R!PumpDown
  <2>2. CASE b /\ Head(line)[1] = "WRTE"
    <3>1. s2 = [s1 EXCEPT !.wire = Append(s1.wire, R!Okay), !.shown = Append(s1.shown, Head(line)[2])]
      <4>1. Head(line) # R!Okay
        BY <1>1, <2>2, Taken, Zenon
      <4> QED
        BY <2>2, <4>1, Zenon DEF R!PumpDown
    <3>2. Append(s1.wire, R!Okay) \in Seq(Frame)
      BY <1>4, Frames, FrameSeq, Zenon
    <3>3. dev.open => Sends(Append(s1.wire, R!Okay), relays_got, s1.outbox, input', Top)
      BY <1>3, <1>4, Frames, SendsOther, Zenon
    <3> QED
      BY <1>4, <2>2, <3>1, <3>2, <3>3, Zenon
  <2>3. CASE b /\ Head(line)[1] # "WRTE"
    BY <1>4, <2>3, Zenon DEF R!PumpDown
  <2> QED
    BY <2>1, <2>2, <2>3, Zenon
<1> HIDE DEF s2
<1>6. /\ Kept(s3) /\ s3.pc = s2.pc /\ s3.shown = s2.shown
      /\ s3.pc = "run" /\ ~s3.inflight => s3.outbox = <<>>
  <2>1. CASE s2.pc = "stopped" \/ s2.inflight \/ s2.outbox = <<>>
    BY <1>5, <2>1, Zenon DEF R!PumpFlush
  <2>2. CASE ~(s2.pc = "stopped" \/ s2.inflight \/ s2.outbox = <<>>)
    <3>1. s3 = [s2 EXCEPT !.wire = Append(s2.wire, R!Wrte(Head(s2.outbox))),
                          !.outbox = Tail(s2.outbox), !.inflight = TRUE]
      BY <2>2, Zenon DEF R!PumpFlush
    <3>2. dev.open => Sends(Append(s2.wire, R!Wrte(Head(s2.outbox))), relays_got, Tail(s2.outbox), input', Top)
      BY <1>3, <1>4, <1>5, <2>2, SendsOn, Zenon
    <3>3. Head(s2.outbox) \in Nat /\ Tail(s2.outbox) \in Seq(Nat)
      BY <1>5, <2>2, ChunkSeq, Zenon
    <3>4. Append(s2.wire, R!Wrte(Head(s2.outbox))) \in Seq(Frame)
      BY <1>5, <3>3, Frames, FrameSeq, Zenon
    <3> QED
      BY <1>5, <2>2, <3>1, <3>2, <3>3, <3>4, Zenon
  <2> QED
    BY <2>1, <2>2, Zenon
<1> HIDE DEF s3
<1>7. RUp' /\ wire' \in Seq(Frame) /\ Queued' \in Seq(Nat)
  <2>1. rd' # "open"
    BY <1>1, <1>5, <1>6, Zenon
  <2>2. Listening' => Sends(wire', relays_got', Queued', input', Top')
    BY <1>1, <1>2, <1>6, <2>1, Zenon DEF Listening
  <2> QED
    BY <1>1, <1>2, <1>6, <2>2, Zenon DEF RUp, RInv
<1>8. RDown' /\ line' \in Seq(Frame) /\ shown' \in Seq(Nat)
  <2>1. CASE b
    BY <1>1, <1>5, <1>6, <2>1, DownTaken, Zenon
  <2>2. CASE ~b
    BY <1>1, <1>2, <1>5, <1>6, <2>2, DownSame, Zenon
  <2> QED
    BY <2>1, <2>2, Zenon
<1>9. RThreads'
  BY <1>1, <1>5, <1>6, Zenon DEF RInv, RThreads, R!Raw
<1> QED
  BY <1>1, <1>3, <1>4, <1>7, <1>8, <1>9, Zenon DEF RInv, RTypes

\* The loops of the commands that read and write frames themselves.
LEMMA ExecLoopOK ==
    ASSUME RInv, kind \in {"exec_out", "shell", "exec_in"}, R!ExecLoop
    PROVE  RInv'
<1> USE DEF R!ExecLoop
<1>1. /\ Head(line)[1] = "WRTE" \/ Head(line) = R!Okay \/ Head(line) = R!Clse
      /\ Head(line)[1] = "WRTE" <=> Head(line) # R!Okay /\ Head(line) # R!Clse
  BY Taken, Zenon
<1>2. R!Okay # R!Clse /\ (Listening' => Listening) /\ Queued = queue /\ Queued' = queue'
  BY Frames, Zenon DEF Listening, Queued
<1>3. RThreads'
  BY Zenon DEF RInv, RThreads, R!Raw
<1>4. CASE Head(line) = R!Okay /\ queue # <<>>
  <2>1. /\ queue' = Tail(queue) /\ wire' = Append(wire, R!Wrte(Head(queue))) /\ input' = input
        /\ kind' = kind /\ relays_got' = relays_got
    BY <1>1, <1>2, <1>4, Zenon
  <2>2. RUp' /\ wire' \in Seq(Frame) /\ input' \in Seq(Nat) /\ Queued' \in Seq(Nat)
    BY <1>2, <1>4, <2>1, UpMoves, Zenon
  <2>3. RDown' /\ line' \in Seq(Frame) /\ shown' \in Seq(Nat)
    BY DownTaken, Zenon
  <2> QED
    BY <1>3, <2>2, <2>3, Zenon DEF RInv, RTypes
<1>5. CASE ~(Head(line) = R!Okay /\ queue # <<>>)
  <2>1. wire' = wire \/ wire' = Append(wire, R!Okay) \/ wire' = Append(wire, R!Clse)
    BY <1>1, <1>2, <1>5, Zenon
  <2>2. queue' = queue
    BY <1>5, Zenon
  <2> QED
    BY <1>2, <1>3, <2>1, <2>2, Relayed, Zenon
<1> QED
  BY <1>4, <1>5, Zenon

\* Standard input: read ahead into the channel, or written at once.
LEMMA StdinOK ==
    ASSUME RInv, \/ kind \in {"exec_in", "server_in"} /\ R!StdinThread
                 \/ kind = "abb_in" /\ R!ShellStdin
    PROVE  RInv'
<1> USE DEF R!StdinThread, R!ShellStdin, R!device
<1>1. /\ kind' = kind /\ Queued = queue /\ Queued' = queue' /\ Held' = Held /\ (Listening' => Listening)
      /\ kind = "abb_in" => queue = <<>>
      /\ rd # "open" /\ dev' = dev
  BY Zenon DEF Queued, Held, Listening, RInv, RThreads
<1>2. RUp' /\ wire' \in Seq(Frame) /\ input' \in Seq(Nat) /\ Queued' \in Seq(Nat)
  <2>1. CASE R!StdinThread
    BY <1>1, <2>1, UpMoves, Zenon
  <2>2. CASE kind = "abb_in" /\ R!ShellStdin
    BY <1>1, <2>2, UpMoves, Zenon
  <2> QED
    BY <2>1, <2>2, Zenon
<1>3. RDown' /\ line' \in Seq(Frame) /\ shown' \in Seq(Nat)
  BY <1>1, DownSame, Zenon
<1>4. RThreads'
  BY <1>1, Zenon DEF RInv, RThreads, R!Raw
<1> QED
  BY <1>1, <1>2, <1>3, <1>4, Zenon DEF RInv, RTypes

\* Raw bytes through the server.
LEMMA RawLoopOK ==
    ASSUME RInv, kind \in {"server_in", "server_out", "abb_in"}, R!RawLoop
    PROVE  RInv'
<1> USE DEF R!RawLoop
<1>1. /\ Head(line)[1] = "WRTE" <=> Head(line) # R!Clse
      /\ R!Raw /\ \A i \in DOMAIN Tail(line) : Tail(line)[i] # R!Okay
  BY Taken, Zenon DEF R!Raw
<1>2. Listening' => Listening
  BY Zenon DEF Listening
<1>3. RThreads'
  BY <1>1, Zenon DEF RInv, RThreads, R!Raw
<1>4. shown' = IF Head(line)[1] = "WRTE" THEN Append(shown, Head(line)[2]) ELSE shown
  BY <1>1, Zenon
<1> QED
  BY <1>2, <1>3, <1>4, Relayed, Zenon

\* A file streamed to the package manager, then what that writes.
LEMMA InstallOK ==
    ASSUME RInv, R!stream_file_to_install_command
    PROVE  RInv'
<1> USE DEF R!stream_file_to_install_command, R!write_exec_payload, R!read_exec_output
<1>1. /\ kind = "install" /\ kind' = kind /\ dev' = dev /\ queue = <<>> /\ queue' = queue
      /\ rd' \in {"run", "await", "stopped"} /\ rd # "open"
  BY Zenon DEF RInv, RThreads
<1>2. (Listening' => Listening) /\ Queued = <<>> /\ Queued' = Queued /\ Held' = Held
  BY <1>1, Zenon DEF Listening, Queued, Held
<1>3. RThreads'
  BY <1>1, Zenon DEF RInv, RThreads, R!Raw
<1>4. CASE /\ rd = "run" /\ input # <<>>
           /\ wire' = Append(wire, R!Wrte(Head(input))) /\ input' = Tail(input) /\ rd' = "await"
           /\ UNCHANGED <<line, shown, relays_got>>
  <2>1. RUp' /\ wire' \in Seq(Frame) /\ input' \in Seq(Nat) /\ Queued' \in Seq(Nat)
    BY <1>1, <1>2, <1>4, UpMoves, Zenon
  <2>2. RDown' /\ line' \in Seq(Frame) /\ shown' \in Seq(Nat)
    BY <1>1, <1>2, <1>4, DownSame, Zenon
  <2> QED
    BY <1>1, <1>3, <2>1, <2>2, Zenon DEF RInv, RTypes
<1>5. CASE /\ line # <<>> /\ line' = Tail(line)
           /\ UNCHANGED <<input, relays_got>>
           /\ shown' = IF Head(line)[1] = "WRTE" THEN Append(shown, Head(line)[2]) ELSE shown
           /\ wire' = wire \/ wire' = Append(wire, R!Okay) \/ wire' = Append(wire, R!Clse)
  BY <1>1, <1>2, <1>3, <1>5, Relayed, Zenon
<1> QED
  BY <1>4, <1>5, Zenon

\* The client's own loops.
LEMMA ClientOK ==
    ASSUME RInv, R!Client
    PROVE  RInv'
BY ExecLoopOK, StdinOK, RawLoopOK, InstallOK, Zenon
   DEF R!Client, R!stream_exec_out_raw, R!stream_shell_v2_exit, R!run_exec_in,
       R!stream_raw_from_server, R!stream_raw_server, R!stream_shell_v2_server_with_stdin

\* Nothing has been written yet.
LEMMA RelayInit ==
    ASSUME R!Init
    PROVE  RInv
<1> USE DEF R!Init
<1>1. /\ <<>> \in Seq(Frame) /\ <<>> \in Seq(Nat) /\ Len(<<>>) = 0 /\ DOMAIN <<>> = {}
      /\ R!Upto(0) = <<>> /\ Queued = <<>> /\ Top \in Nat /\ Held = {}
  BY ChunksAssumption DEF R!Upto, Queued, Top, Held
<1>2. Carries(<<>>, 0, 0) /\ Within(<<>>, 0, 0)
  BY <1>1 DEF Carries, Within
<1>3. input = Run(0, Top) /\ Run(0, 0) = <<>> /\ Run(0, Top) \in Seq(Nat)
  <2>1. R!Upto(Up) = Run(0, Up)
    BY ChunksAssumption DEF R!Upto, Run
  <2>2. Run(0, 0) = <<>>
    BY Runs
  <2>3. Run(0, Top) \in Seq(Nat)
    <3>1. 0 \in Nat /\ 0 <= Top
      BY <1>1
    <3> QED
      BY <1>1, <3>1, Runs, Zenon
  <2> QED
    BY <2>1, <2>2, <2>3, Zenon DEF Top
<1>4. Sends(wire, relays_got, Queued, input, Top)
  <2>1. 0 \in Nat /\ 0 <= 0 /\ 0 <= Top
    BY <1>1
  <2> QED
    BY <1>1, <1>2, <1>3, <2>1, Zenon DEF Sends
<1>5. RUp
  BY <1>1, <1>4, Zenon DEF RUp
<1>6. RTypes
  BY <1>1, <1>3, Zenon DEF RTypes
<1>7. RDown
  <2>1. Shows(<<>>, <<>>, 0)
    BY <1>1, <1>2, Zenon DEF Shows
  <2>2. Follows(<<>>, <<>>, {}, 0)
    <3>1. R!Increasing(<<>>) /\ Below(<<>>, {}, 0)
      BY <1>1 DEF R!Increasing, Below
    <3>2. 0 \in Nat /\ 0 <= 0
      OBVIOUS
    <3> QED
      BY <1>2, <3>1, <3>2, Zenon DEF Follows
  <2> QED
    BY <1>1, <2>1, <2>2, Zenon DEF RDown
<1>8. RThreads
  BY <1>1, Zenon DEF RThreads
<1> QED
  BY <1>5, <1>6, <1>7, <1>8, Zenon DEF RInv

\* For any number of chunks in either direction and any interleaving of the
\* threads, the device and the peers: no relay reorders or repeats a chunk, and
\* one that does not share its transport between threads loses none before the
\* stream ends (bridge_smart_remote, forward_connection_to_device, inc-pump and
\* the streaming commands of the client).
THEOREM RelaysKeepOrder == R!Spec => []InOrder
<1>1. R!Init => RInv
  BY RelayInit, Zenon
<1>2. RInv /\ [R!Next]_R!vars => RInv'
  <2> SUFFICES ASSUME RInv, [R!Next]_R!vars
               PROVE  RInv'
    BY Zenon
  <2>1. CASE R!Device
    BY <2>1, DevWritesOK, DevReadsOK, DevClosesOK, Zenon DEF R!Device
  <2>2. CASE R!LocalCloses \/ UNCHANGED R!vars
    <3>1. UNCHANGED <<kind, input, queue, wire, line, relays_got, shown, dev, rd, wr, inflight>>
      BY <2>2, Zenon DEF R!LocalCloses, R!device, R!vars
    <3>2. RThreads' /\ (Listening' => Listening)
      BY <3>1, Zenon DEF RInv, RThreads, R!Raw, Listening
    <3>3. dev \in [sent : Nat, unacked : BOOLEAN, open : BOOLEAN]
      BY Zenon DEF RInv, RTypes
    <3> QED
      BY <3>1, <3>2, <3>3, Still, Zenon
  <2>3. CASE R!Bridging
    BY <2>3, ReaderOK, WriterOK, Zenon DEF R!Bridging
  <2>4. CASE R!ForwardOpens \/ R!ForwardUp \/ R!ForwardDown
    BY <2>4, ForwardsOK, Zenon
  <2>5. CASE R!PumpTurn
    BY <2>5, PumpOK, Zenon DEF R!PumpTurn
  <2>6. CASE R!Client
    BY <2>6, ClientOK, Zenon
  <2> QED
    BY <2>1, <2>2, <2>3, <2>4, <2>5, <2>6, Zenon DEF R!Next
<1>3. RInv => InOrder
  <2> HAVE RInv
  <2>1. R!Increasing(relays_got)
    BY Streams, Prefixes, Zenon DEF RInv, RUp
  <2>2. R!Increasing(shown)
    BY Streams, Prefixes, Zenon DEF RInv, RDown, Shows, Follows
  <2> QED
    BY <2>1, <2>2, Zenon DEF InOrder, R!InOrder, RInv, RUp, RDown, Shows
<1> QED
  BY <1>1, <1>2, <1>3, PTL DEF R!Spec
=============================================================================
