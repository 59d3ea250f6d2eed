-------------------------- MODULE FastbootUdpProofs --------------------------
(***************************************************************************)
(* Proofs, for every value of the constants, about the UDP transport of    *)
(* the fastboot host: host and device stay in step, a chunk is taken at    *)
(* most once, and until an operation fails the transport is the reliable   *)
(* channel of FastbootChannel.                                             *)
(*                                                                         *)
(* The inductive invariant counts: Steps(f, s) is how many numbers lie     *)
(* between f, the number the device expected first, and s.  As fewer       *)
(* packets are sent than there are numbers, a number tells which exchange  *)
(* a packet belongs to, however late it arrives.                           *)
(***************************************************************************)
EXTENDS FastbootUdp, Integers, TLAPS

Steps(f, s) == IF f <= s THEN s - f ELSE s + Numbers - f

Budget == MaxChunks * MaxParts

Ids == {"query", "init", "fastboot", "error"}
Sent == [id : Ids, cont : BOOLEAN, seq : 0 .. Numbers - 1, data : {None} \cup Chunks]

\* Before the device's number is known.
Before(f) ==
    /\ op \in {"none", "query"} /\ dseq = f /\ seq = 0
    /\ \A p \in toDev : p \in Sent /\ p.id = "query" /\ p.data = None
    /\ op = "query" => tx \in toDev
    /\ \A p \in toHost : p.id = "query" /\ ~p.cont /\ p.data = <<f>>
    /\ nops = 0 /\ left = 0 /\ errdata = FALSE /\ ok = TRUE /\ dleft = 0 /\ derr = FALSE
    /\ wrote = <<>> /\ taken = <<>> /\ offered = <<>> /\ got = <<>>

\* The connection failed.
Shut ==
    /\ op = "closed" /\ ok = FALSE /\ taken = <<>>
    /\ \A p \in toDev : p.id \in {"query", "init"}

\* Answers the device may still give to the packet the host is waiting on.
Chain ==
    IF dseq = seq THEN IF dleft > 0 THEN dleft ELSE MaxParts
    ELSE IF last.cont THEN 1 + dleft ELSE 1

\* Numbers the running operation may still use.
Due == CASE op = "idle" -> 0 [] op = "init" -> 1 [] OTHER -> left * MaxParts + Chain

Counted(f) ==
    /\ op \in {"init", "idle", "write", "read"}
    /\ seq \in 0 .. Numbers - 1 /\ dseq \in 0 .. Numbers - 1
    /\ nops \in 0 .. MaxOps /\ left \in 0 .. MaxChunks - 1 /\ errdata \in BOOLEAN
    /\ ok \in BOOLEAN /\ dleft \in 0 .. MaxParts - 1 /\ derr \in BOOLEAN
    /\ op # "write" => left = 0
    /\ op \in {"init", "idle"} => errdata = FALSE
    /\ Steps(f, dseq) = Steps(f, seq) \/ Steps(f, dseq) = Steps(f, seq) + 1
    /\ Steps(f, seq) + Due <= 1 + nops * Budget
    /\ IF op = "init"
       THEN /\ seq = f /\ nops = 0 /\ dleft = 0 /\ ok = TRUE
            /\ wrote = <<>> /\ taken = <<>> /\ offered = <<>> /\ got = <<>>
       ELSE Steps(f, seq) >= 1

\* What was sent to the device: nothing beyond the host's number, and every
\* chunk under one number only.
SentOK(f) ==
    /\ op # "idle" => tx \in toDev /\ tx.seq = seq /\ tx.id # "query" /\ (tx.id = "init" <=> op = "init")
    /\ op = "init" => tx.data = None
    /\ \A p \in toDev :
          /\ p \in Sent
          /\ p.id # "query" => /\ Steps(f, p.seq) <= Steps(f, seq)
                               /\ p.id = "init" <=> p.seq = f
          /\ p.data # None => /\ p.id = "fastboot" /\ p.data[1] <= nops
                              /\ p.data[1] = nops /\ op = "write" => p.data[2] >= left
          /\ \A q \in toDev : p.data = q.data /\ p.data # None => p.seq = q.seq

\* What the device answered: one packet for each number it has passed.
AnsweredOK(f) ==
    /\ dseq # f => last \in toHost /\ last.seq \in 0 .. Numbers - 1 /\ last.id # "query"
                   /\ Steps(f, last.seq) + 1 = Steps(f, dseq)
                   /\ last.cont \in BOOLEAN /\ (last.cont => dleft > 0)
    /\ \A p \in toHost : p.id # "query" =>
          /\ p.id \in Ids /\ p.seq \in 0 .. Numbers - 1
          /\ Steps(f, p.seq) < Steps(f, dseq)
          /\ Steps(f, p.seq) + 1 = Steps(f, dseq) => p = last
          /\ p.id = "init" <=> p.seq = f
          /\ p.id = "init" => ~p.cont
          /\ p.id = "fastboot" => p.data \in Parts

\* What the device took: chunks of packets whose number has passed.
TakenOK(f) ==
    /\ taken \in Seq(Chunks)
    /\ \A i \in 1 .. Len(taken) :
          \E p \in toDev : p.data = taken[i] /\ p.id = "fastboot" /\ Steps(f, p.seq) < Steps(f, dseq)
    /\ \A i, j \in 1 .. Len(taken) : taken[i] = taken[j] => i = j
    /\ offered \in Seq(Parts) /\ Len(offered) <= Steps(f, dseq)
    /\ wrote \in Seq(Chunks) /\ got \in Seq(Parts)

\* Until an operation fails, tx is the only packet with the host's number and
\* both sides know how far the other is.
InStep ==
    /\ \A p \in toDev : p.id # "query" /\ p.seq = seq => op # "idle" /\ p = tx
    /\ op = "idle" => dseq = seq
    /\ dseq = seq =>
          /\ taken = wrote /\ offered = got
          /\ op \in {"idle", "init"} => dleft = 0
          /\ errdata => dleft > 0 /\ derr
          /\ op = "write" /\ ~errdata => dleft = 0
          /\ op = "read" /\ ~errdata /\ dleft > 0 => ~derr
    /\ op = "read" => tx.data = None
    /\ op = "write" => tx.data = IF errdata THEN None ELSE <<nops, left>>
    /\ op \in {"read", "write"} /\ dseq # seq =>
          /\ ~last.cont => dleft = 0
          /\ errdata => last.id = "error"
          /\ last.id = "error" => taken = wrote /\ offered = got /\ derr
          /\ last.id = "fastboot" /\ op = "write" =>
                ~last.cont /\ taken = Append(wrote, <<nops, left>>) /\ offered = got
          /\ last.id = "fastboot" /\ op = "read" =>
                ~derr /\ taken = wrote /\ offered = Append(got, last.data)

Live(f) == Counted(f) /\ SentOK(f) /\ AnsweredOK(f) /\ TakenOK(f) /\ (ok => InStep)

IInv == \E f \in 0 .. Numbers - 1 : Before(f) \/ Shut \/ Live(f)

-----------------------------------------------------------------------------
(* Sequence numbers *)

\* wrapping_add(1) of a number in range.
LEMMA SuccessorIs ==
    ASSUME Numbers \in Nat \ {0}, NEW s \in 0 .. Numbers - 1
    PROVE  Successor(s) = IF s + 1 = Numbers THEN 0 ELSE s + 1
<1>1. CASE s + 1 = Numbers
  BY <1>1 DEF Successor
<1>2. CASE s + 1 < Numbers
  BY <1>2 DEF Successor
<1> QED
  BY <1>1, <1>2

\* Steps counts, and tells numbers apart.
LEMMA StepsCount ==
    ASSUME Numbers \in Nat \ {0}, NEW f \in 0 .. Numbers - 1, NEW s \in 0 .. Numbers - 1
    PROVE  /\ Steps(f, s) \in 0 .. Numbers - 1
           /\ Steps(f, s) = 0 <=> s = f
           /\ Successor(s) \in 0 .. Numbers - 1
           /\ Steps(f, s) + 1 < Numbers => Steps(f, Successor(s)) = Steps(f, s) + 1
           /\ \A t \in 0 .. Numbers - 1 : Steps(f, s) = Steps(f, t) => s = t
BY SuccessorIs DEF Steps

\* The packets of n operations, as naturals: a product needs its facts one by one.
LEMMA BudgetOK ==
    ASSUME UdpAssumption, NEW n \in 0 .. MaxOps
    PROVE  /\ Budget \in Nat /\ n * Budget \in Nat
           /\ (n + 1) * Budget = n * Budget + Budget
           /\ n * Budget <= MaxOps * Budget /\ 2 + MaxOps * Budget < Numbers
           /\ Numbers \in Nat \ {0}
           /\ \A k \in 0 .. MaxChunks - 1 : k * MaxParts \in Nat /\ k * MaxParts + MaxParts <= Budget
<1> DEFINE B == Budget
<1>1. B \in Nat /\ MaxOps \in Nat /\ MaxParts \in Nat /\ MaxChunks \in Nat
  BY DEF UdpAssumption, Budget
<1>2. 2 + MaxOps * B < Numbers /\ Numbers \in Nat
  BY Zenon DEF UdpAssumption, Budget, PacketsAreFew
<1>3. MaxOps * B \in Nat /\ n * B \in Nat
  <2> HIDE DEF B
  <2> QED BY <1>1
<1>4. (n + 1) * B = n * B + B
  <2> HIDE DEF B
  <2> QED BY <1>1
<1>5. n * B <= MaxOps * B
  <2> HIDE DEF B
  <2> QED BY <1>1
<1>6. ASSUME NEW k \in 0 .. MaxChunks - 1
      PROVE  k * MaxParts \in Nat /\ k * MaxParts + MaxParts <= Budget
  <2>1. k * MaxParts + MaxParts = (k + 1) * MaxParts
    BY <1>1
  <2>2. (k + 1) * MaxParts <= MaxChunks * MaxParts
    BY <1>1
  <2> QED
    BY <1>1, <2>1, <2>2 DEF Budget
<1> QED
  BY <1>1, <1>2, <1>3, <1>4, <1>5, <1>6

\* What the counting part of the invariant says of the two numbers.
LEMMA LiveFacts ==
    ASSUME UdpAssumption, NEW f \in 0 .. Numbers - 1, Counted(f), AnsweredOK(f)
    PROVE  /\ Steps(f, seq) \in 0 .. Numbers - 2 /\ Steps(f, dseq) \in 0 .. Numbers - 1
           /\ Numbers \in Nat \ {0}
           /\ Successor(seq) \in 0 .. Numbers - 1
           /\ Steps(f, Successor(seq)) = Steps(f, seq) + 1
           /\ Steps(f, dseq) = Steps(f, seq) <=> dseq = seq
           /\ dseq # seq => dseq = Successor(seq)
           /\ Chain \in 1 .. MaxParts /\ Due \in Nat
           /\ MaxParts \in Nat \ {0} /\ MaxChunks \in Nat \ {0} /\ MaxOps \in Nat
<1>1. /\ Numbers \in Nat \ {0} /\ MaxParts \in Nat \ {0} /\ MaxChunks \in Nat \ {0}
      /\ MaxOps \in Nat
  BY BudgetOK, Zenon DEF UdpAssumption, Counted
<1>2. /\ Steps(f, seq) \in 0 .. Numbers - 1 /\ Steps(f, dseq) \in 0 .. Numbers - 1
      /\ Steps(f, dseq) = Steps(f, seq) <=> dseq = seq
      /\ Steps(f, dseq) = 0 <=> dseq = f
  <2>1. seq \in 0 .. Numbers - 1 /\ dseq \in 0 .. Numbers - 1
    BY Zenon DEF Counted
  <2>2. Steps(f, seq) \in 0 .. Numbers - 1 /\ Steps(f, dseq) \in 0 .. Numbers - 1
    BY <1>1, <2>1, StepsCount, Zenon
  <2>3. Steps(f, dseq) = 0 <=> dseq = f
    BY <1>1, <2>1, StepsCount, Zenon
  <2>4. Steps(f, dseq) = Steps(f, seq) => dseq = seq
    BY <1>1, <2>1, StepsCount
  <2> QED
    BY <2>2, <2>3, <2>4, Zenon
<1>3. Chain \in 1 .. MaxParts
  <2>1. CASE dseq = seq
    BY <1>1, <2>1 DEF Chain, Counted
  <2>2. CASE dseq # seq
    <3>1. dseq # f
      BY <1>2, <2>2 DEF Counted
    <3> QED
      BY <1>1, <2>2, <3>1 DEF Chain, Counted, AnsweredOK
  <2> QED
    BY <2>1, <2>2, Zenon
<1>4. Due \in Nat
  <2>1. left * MaxParts \in Nat
    BY BudgetOK, Zenon DEF Counted
  <2> QED
    BY <1>3, <2>1 DEF Due
<1>5. Steps(f, seq) + 2 <= Numbers - 1 + 1
  <2>1. nops * Budget \in Nat /\ MaxOps * Budget \in Nat /\ nops * Budget <= MaxOps * Budget
        /\ 2 + MaxOps * Budget < Numbers
    <3>1. nops \in 0 .. MaxOps /\ MaxOps \in 0 .. MaxOps
      BY <1>1 DEF Counted
    <3> QED
      BY <3>1, BudgetOK, Zenon
  <2>2. Steps(f, seq) + Due <= 1 + nops * Budget
    BY Zenon DEF Counted
  <2> QED
    BY <1>1, <1>2, <1>4, <2>1, <2>2
<1>6. /\ Successor(seq) \in 0 .. Numbers - 1
      /\ Steps(f, Successor(seq)) = Steps(f, seq) + 1
  BY <1>1, <1>2, <1>5, StepsCount DEF Counted
<1>7. dseq # seq => dseq = Successor(seq)
  BY <1>1, <1>2, <1>6, StepsCount DEF Counted
<1> QED
  BY <1>1, <1>2, <1>3, <1>4, <1>5, <1>6, <1>7

\* An answer with the host's number is the device's latest, and the device is
\* one ahead.
LEMMA AnswerIsLast ==
    ASSUME UdpAssumption, NEW f \in 0 .. Numbers - 1, Live(f), op # "idle",
           NEW p \in toHost, Matches(p)
    PROVE  /\ p = last /\ p.id # "query" /\ dseq # seq /\ dseq = Successor(seq)
           /\ p.id \in Ids /\ p.seq = seq /\ p.cont \in BOOLEAN /\ (p.cont => dleft > 0)
           /\ p.id = "init" <=> op = "init"
           /\ op = "init" => ~p.cont
           /\ p.id = "fastboot" => p.data \in Parts
<1> USE DEF Live
<1>1. p.seq = seq /\ p.id # "query" /\ tx \in toDev /\ tx.id # "query" /\ (tx.id = "init" <=> op = "init")
  BY Zenon DEF Matches, SentOK
<1>2. Steps(f, p.seq) < Steps(f, dseq) /\ p.id \in Ids /\ (Steps(f, p.seq) + 1 = Steps(f, dseq) => p = last)
      /\ (p.id = "init" <=> p.seq = f) /\ (p.id = "init" => ~p.cont) /\ (p.id = "fastboot" => p.data \in Parts)
  BY <1>1, Zenon DEF AnsweredOK
<1> Counted(f) /\ AnsweredOK(f)
  BY Zenon
<1> HIDE DEF Live
<1>a. /\ Steps(f, seq) \in 0 .. Numbers - 2 /\ Steps(f, dseq) \in 0 .. Numbers - 1
      /\ Numbers \in Nat \ {0}
      /\ Steps(f, dseq) = Steps(f, seq) <=> dseq = seq
      /\ dseq # seq => dseq = Successor(seq)
      /\ seq \in 0 .. Numbers - 1 /\ dseq \in 0 .. Numbers - 1
      /\ Steps(f, dseq) = Steps(f, seq) \/ Steps(f, dseq) = Steps(f, seq) + 1
      /\ IF op = "init" THEN seq = f ELSE Steps(f, seq) >= 1
  BY LiveFacts, Zenon DEF Counted
<1>b. (Steps(f, seq) = 0 <=> seq = f) /\ (Steps(f, dseq) = 0 <=> dseq = f)
  BY <1>a, StepsCount, Zenon
<1>3. Steps(f, dseq) = Steps(f, seq) + 1 /\ dseq # seq /\ dseq = Successor(seq)
  BY <1>1, <1>2, <1>a
<1>4. p = last
  BY <1>1, <1>2, <1>3, Zenon
<1>5. p.id = "init" <=> op = "init"
  <2>1. op = "init" <=> seq = f
    BY <1>a, <1>b
  <2> QED
    BY <1>1, <1>2, <2>1, Zenon
<1>6. dseq # f
  BY <1>3, <1>a, <1>b
<1> QED
  BY <1>1, <1>2, <1>3, <1>4, <1>5, <1>6, Zenon DEF AnsweredOK

-----------------------------------------------------------------------------
(* The host's steps *)

\* An operation that fails, with or without having taken an answer.
LEMMA FailOK ==
    ASSUME UdpAssumption, NEW f \in 0 .. Numbers - 1, Live(f), op \in Busy, Fail,
           UNCHANGED <<toHost, device, wrote, taken, offered, got>>,
           seq' = seq \/ (seq' = Successor(seq) /\ dseq = seq')
    PROVE  Live(f)' \/ Shut'
<1>1. Counted(f) /\ SentOK(f) /\ AnsweredOK(f) /\ TakenOK(f)
  BY Zenon DEF Live
<1> DEFINE H == Steps(f, seq)
           D == Steps(f, dseq)
<1>2. /\ H \in 0 .. Numbers - 2 /\ D \in 0 .. Numbers - 1 /\ Numbers \in Nat \ {0}
      /\ Successor(seq) \in 0 .. Numbers - 1 /\ Steps(f, Successor(seq)) = H + 1
      /\ Chain \in 1 .. MaxParts /\ Due \in Nat
  BY <1>1, LiveFacts, Zenon
<1>3. /\ UNCHANGED <<toDev, toHost, dseq, last, dleft, derr, wrote, taken, offered, got, nops>>
      /\ ok' = FALSE /\ left' = 0 /\ errdata' = FALSE
  BY Zenon DEF Fail, device
<1>4. CASE op = "init"
  <2>1. op' = "closed"
    BY <1>4, Zenon DEF Fail
  <2>2. taken = <<>> /\ seq = f
    BY <1>1, <1>4, Zenon DEF Counted
  <2>3. ASSUME NEW p \in toDev, p.id # "query" PROVE p.id = "init"
    <3>1. Steps(f, p.seq) <= Steps(f, f) /\ p.seq \in 0 .. Numbers - 1 /\ (p.id = "init" <=> p.seq = f)
      BY <1>1, <2>2, <2>3, Zenon DEF SentOK, Sent
    <3>2. Steps(f, f) = 0
      BY <1>2, StepsCount, Zenon
    <3>3. Steps(f, p.seq) \in 0 .. Numbers - 1 /\ (Steps(f, p.seq) = 0 <=> p.seq = f)
      BY <1>2, <3>1, StepsCount, Zenon
    <3> QED
      BY <1>2, <3>1, <3>2, <3>3
  <2> QED
    BY <1>3, <2>1, <2>2, <2>3, Zenon DEF Shut
<1>5. CASE op \in {"write", "read"}
  <2>1. op' = "idle" /\ Due' = 0
    BY <1>5, Zenon DEF Fail, Due
  <2>2. Due >= 1
    <3>1. left * MaxParts \in Nat
      BY <1>1, BudgetOK, Zenon DEF Counted
    <3> QED
      BY <1>2, <1>5, <3>1 DEF Due
  <2>3. Steps(f, seq)' = H \/ (Steps(f, seq)' = H + 1 /\ dseq = seq')
    BY <1>2, Zenon
  <2>4. H + Due <= 1 + nops * Budget /\ nops * Budget \in Nat /\ H >= 1
    BY <1>1, <1>5, BudgetOK, Zenon DEF Counted
  <2>5. Counted(f)'
    <3> HIDE DEF H, D
    <3>1. seq' \in 0 .. Numbers - 1 /\ (D = Steps(f, seq)' \/ D = Steps(f, seq)' + 1)
      BY <1>1, <1>2, <2>3, Zenon DEF Counted, H, D
    <3>2. Steps(f, seq)' + 0 <= 1 + nops * Budget /\ Steps(f, seq)' >= 1
      BY <1>2, <2>2, <2>3, <2>4
    <3>3. left' \in 0 .. MaxChunks - 1
      BY <1>1, <1>3, LiveFacts
    <3>4. Steps(f, dseq)' = Steps(f, seq)' \/ Steps(f, dseq)' = Steps(f, seq)' + 1
      BY <1>3, <3>1, Zenon DEF D
    <3>5. Steps(f, seq)' + Due' <= 1 + nops' * Budget
      BY <1>3, <2>1, <3>2, Zenon
    <3> QED
      BY <1>1, <1>3, <2>1, <3>1, <3>2, <3>3, <3>4, <3>5, Zenon DEF Counted
  <2>6. SentOK(f)'
    <3>1. \A p \in toDev : p \in Sent /\ (p.id # "query" => Steps(f, p.seq) <= Steps(f, seq)')
      <4>1. ASSUME NEW p \in toDev, p.id # "query" PROVE Steps(f, p.seq) <= Steps(f, seq)'
        <5>1. Steps(f, p.seq) <= H /\ p.seq \in 0 .. Numbers - 1
          BY <1>1, <4>1, Zenon DEF SentOK, Sent
        <5>2. Steps(f, p.seq) \in 0 .. Numbers - 1
          BY <1>2, <5>1, StepsCount, Zenon
        <5> HIDE DEF H
        <5> QED
          BY <1>2, <2>3, <5>1, <5>2
      <4> QED
        BY <1>1, <4>1, Zenon DEF SentOK
    <3> QED
      BY <1>1, <1>3, <2>1, <3>1, Zenon DEF SentOK
  <2>7. AnsweredOK(f)'
    BY <1>1, <1>3, Zenon DEF AnsweredOK
  <2>8. TakenOK(f)'
    BY <1>1, <1>3, Zenon DEF TakenOK
  <2> QED
    BY <1>3, <2>5, <2>6, <2>7, <2>8, Zenon DEF Live
<1> QED
  BY <1>1, <1>4, <1>5, Zenon DEF Busy, Counted

\* One more turn of the loop sends a packet that was sent before.
LEMMA RetryOK ==
    ASSUME UdpAssumption, NEW f \in 0 .. Numbers - 1, Live(f), op \in Busy, Retry,
           UNCHANGED <<seq, toHost, device, wrote, taken, offered, got>>
    PROVE  Live(f)' \/ Shut'
<1>1. CASE Fail
  BY <1>1, FailOK, Zenon
<1>2. CASE UNCHANGED <<op, tx, left, errdata, nops, ok>> /\ toDev' = toDev \cup {tx}
  <2>1. toDev' = toDev
    BY <1>2, Zenon DEF Live, SentOK, Busy, Counted
  <2>2. UNCHANGED <<op, seq, tx, left, errdata, nops, toDev, toHost, dseq, last, dleft, derr,
                    wrote, taken, offered, got, ok>>
    BY <1>2, <2>1, Zenon DEF device
  <2>3. Counted(f)' /\ SentOK(f)' /\ AnsweredOK(f)' /\ TakenOK(f)' /\ (ok => InStep)'
    <3>1. Due' = Due
      BY <2>2, Zenon DEF Due, Chain
    <3>2. Counted(f)'
      BY <2>2, <3>1, Zenon DEF Live, Counted
    <3>3. SentOK(f)'
      BY <2>2, Zenon DEF Live, SentOK
    <3>4. AnsweredOK(f)'
      BY <2>2, Zenon DEF Live, AnsweredOK
    <3>5. TakenOK(f)'
      BY <2>2, Zenon DEF Live, TakenOK
    <3>6. (ok => InStep)'
      BY <2>2, Zenon DEF Live, InStep
    <3> QED
      BY <3>2, <3>3, <3>4, <3>5, <3>6, Zenon
  <2> QED
    BY <2>3, Zenon DEF Live
<1> QED
  BY <1>1, <1>2, Zenon DEF Retry

\* A packet sent under the host's number keeps what is known of the packets.
LEMMA SentMore ==
    ASSUME UdpAssumption, NEW f \in 0 .. Numbers - 1, Counted(f), AnsweredOK(f), SentOK(f),
           seq' = seq \/ seq' = Successor(seq), Steps(f, seq)' >= 1,
           op' \in {"write", "read"}, toDev' = toDev \cup {tx'},
           tx' \in Sent, tx'.seq = seq', tx'.id \in {"fastboot", "error"},
           nops' = nops + 1 \/ (nops' = nops /\ op' = op /\ left' \in 0 .. left),
           tx'.data # None =>
              /\ tx'.id = "fastboot" /\ op' = "write" /\ tx'.data = <<nops', left'>>
              /\ nops' = nops => left' < left
    PROVE  SentOK(f)'
<1>1. /\ Steps(f, seq) \in 0 .. Numbers - 2 /\ Numbers \in Nat \ {0}
      /\ Successor(seq) \in 0 .. Numbers - 1
      /\ Steps(f, Successor(seq)) = Steps(f, seq) + 1
  BY LiveFacts, Zenon
<1>2. seq' \in 0 .. Numbers - 1 /\ Steps(f, seq) <= Steps(f, seq') /\ Steps(f, seq') \in 0 .. Numbers - 1
      /\ Steps(f, seq') >= 1
  <2>1. seq' \in 0 .. Numbers - 1
    BY <1>1, Zenon DEF Counted
  <2>2. Steps(f, seq') \in 0 .. Numbers - 1
    BY <1>1, <2>1, StepsCount, Zenon
  <2>3. Steps(f, seq) <= Steps(f, seq')
    BY <1>1
  <2> QED
    BY <2>1, <2>2, <2>3, Zenon
<1>3. nops \in Nat /\ left \in Nat
  BY LiveFacts DEF Counted
<1>4. seq' # f
  BY <1>1, <1>2, StepsCount
<1>5. tx'.id # "query" /\ tx'.id # "init"
  BY Zenon
<1>6. ASSUME NEW p \in toDev
      PROVE  /\ p \in Sent
             /\ p.id # "query" => Steps(f, p.seq) <= Steps(f, seq') /\ (p.id = "init" <=> p.seq = f)
             /\ p.data # None => /\ p.id = "fastboot" /\ p.data[1] <= nops'
                                 /\ p.data[1] = nops' /\ op' = "write" => p.data[2] >= left'
             /\ tx'.data # None => p.data # tx'.data
  <2>1. /\ p \in Sent /\ (p.id # "query" => Steps(f, p.seq) <= Steps(f, seq) /\ (p.id = "init" <=> p.seq = f))
        /\ p.data # None => /\ p.id = "fastboot" /\ p.data[1] <= nops
                            /\ p.data[1] = nops /\ op = "write" => p.data[2] >= left
    BY Zenon DEF SentOK
  <2>2. p.seq \in 0 .. Numbers - 1 /\ (p.data # None => p.data[1] \in Nat /\ p.data[2] \in Nat)
    BY <2>1 DEF Sent, Chunks
  <2>3. Steps(f, p.seq) \in 0 .. Numbers - 1
    BY <1>1, <2>2, StepsCount, Zenon
  <2>4. tx'.data # None => p.data # tx'.data
    <3>1. SUFFICES ASSUME tx'.data # None, p.data = tx'.data PROVE FALSE
      BY Zenon
    <3>2. p.data[1] = nops' /\ p.data[2] = left' /\ p.data # None
      BY <3>1
    <3> QED
      BY <1>3, <2>1, <2>2, <3>1, <3>2
  <2>5. p.data # None => p.data[1] <= nops' /\ (p.data[1] = nops' /\ op' = "write" => p.data[2] >= left')
    BY <1>3, <2>1, <2>2
  <2> QED
    BY <1>1, <1>2, <2>1, <2>2, <2>3, <2>4, <2>5
<1>7. tx'.data # None => tx'.data[1] = nops' /\ tx'.data[2] = left' /\ nops' \in Nat /\ left' \in Nat
  <2>1. tx'.data # None => tx'.data \in Chunks
    BY Zenon DEF Sent
  <2> QED
    BY <2>1 DEF Chunks
<1>8. ASSUME NEW p \in toDev', NEW q \in toDev', p.data = q.data, p.data # None
      PROVE  p.seq = q.seq
  <2>1. CASE p \in toDev /\ q \in toDev
    BY <1>8, <2>1, Zenon DEF SentOK
  <2>2. CASE p = tx' \/ q = tx'
    BY <1>6, <1>8, <2>2, Zenon
  <2> QED
    BY <2>1, <2>2, Zenon
<1>9. op' # "idle" /\ op' # "init"
  BY Zenon
<1>10. ASSUME NEW p \in toDev'
       PROVE  /\ p \in Sent
              /\ p.id # "query" => Steps(f, p.seq) <= Steps(f, seq') /\ (p.id = "init" <=> p.seq = f)
              /\ p.data # None => /\ p.id = "fastboot" /\ p.data[1] <= nops'
                                  /\ p.data[1] = nops' /\ op' = "write" => p.data[2] >= left'
  <2>1. CASE p \in toDev
    BY <1>6, <2>1, Zenon
  <2>2. CASE p = tx'
    BY <1>2, <1>4, <1>5, <1>7, <2>2
  <2> QED
    BY <2>1, <2>2, Zenon
<1> QED
  BY <1>5, <1>8, <1>9, <1>10 DEF SentOK

\* The counts after an answer was taken.
LEMMA CountedNext ==
    ASSUME UdpAssumption, NEW f \in 0 .. Numbers - 1, Counted(f), AnsweredOK(f),
           dseq = Successor(seq), seq' = dseq, UNCHANGED <<dseq, dleft, derr, nops, ok>>,
           op' \in {"idle", "write", "read"}, left' \in 0 .. MaxChunks - 1, errdata' \in BOOLEAN,
           op' # "write" => left' = 0, op' = "idle" => errdata' = FALSE,
           Due' \in Nat, Due' + 1 <= Due
    PROVE  Counted(f)' /\ Steps(f, seq)' = Steps(f, seq) + 1
<1>1. /\ Steps(f, seq) \in 0 .. Numbers - 2 /\ Numbers \in Nat \ {0}
      /\ Successor(seq) \in 0 .. Numbers - 1
      /\ Steps(f, Successor(seq)) = Steps(f, seq) + 1
      /\ Due \in Nat
  BY LiveFacts, Zenon
<1>2. Steps(f, seq') = Steps(f, seq) + 1 /\ Steps(f, dseq') = Steps(f, seq')
  BY <1>1, Zenon
<1>3. Steps(f, seq) + Due <= 1 + nops * Budget /\ nops * Budget \in Nat
  BY BudgetOK, Zenon DEF Counted
<1>4. Steps(f, seq') + Due' <= 1 + nops' * Budget /\ Steps(f, seq') >= 1
  <2> DEFINE allowed == nops * Budget
  <2>1. nops' * Budget = allowed
    BY Zenon
  <2>2. Steps(f, seq) + Due <= 1 + allowed /\ allowed \in Nat
    BY <1>3, Zenon
  <2> HIDE DEF allowed
  <2> DEFINE due == Due'
  <2>3. due \in Nat /\ due + 1 <= Due
    BY Zenon
  <2> HIDE DEF due
  <2>4. Steps(f, seq) + 1 + due <= 1 + allowed /\ Steps(f, seq) + 1 >= 1
    BY <1>1, <2>2, <2>3
  <2> QED
    BY <1>2, <2>1, <2>4, Zenon DEF due
<1>5. op' # "init" /\ (op' \in {"init", "idle"} => errdata' = FALSE)
  BY Zenon
<1> QED
  BY <1>1, <1>2, <1>4, <1>5, Zenon DEF Counted

\* An operation that ends sends nothing.
LEMMA SentIdle ==
    ASSUME UdpAssumption, NEW f \in 0 .. Numbers - 1, Counted(f), AnsweredOK(f), SentOK(f),
           seq' = Successor(seq), op' = "idle", UNCHANGED <<toDev, nops>>
    PROVE  SentOK(f)'
<1>1. /\ Steps(f, seq) \in 0 .. Numbers - 2 /\ Numbers \in Nat \ {0}
      /\ Steps(f, Successor(seq)) = Steps(f, seq) + 1
  BY LiveFacts, Zenon
<1>2. ASSUME NEW q \in toDev, q.id # "query" PROVE Steps(f, q.seq) <= Steps(f, seq')
  <2>1. Steps(f, q.seq) <= Steps(f, seq) /\ q.seq \in 0 .. Numbers - 1
    BY <1>2, Zenon DEF SentOK, Sent
  <2>2. Steps(f, q.seq) \in 0 .. Numbers - 1
    BY <1>1, <2>1, StepsCount, Zenon
  <2> QED
    BY <1>1, <2>1, <2>2
<1> QED
  BY <1>2, Zenon DEF SentOK

\* Nothing was sent yet under the number that follows the host's.
LEMMA NextIsUnused ==
    ASSUME UdpAssumption, NEW f \in 0 .. Numbers - 1, Counted(f), AnsweredOK(f), SentOK(f),
           NEW p \in toDev, p.id # "query"
    PROVE  p.seq # Successor(seq)
<1>1. /\ Steps(f, seq) \in 0 .. Numbers - 2 /\ Numbers \in Nat \ {0}
      /\ Steps(f, Successor(seq)) = Steps(f, seq) + 1
  BY LiveFacts, Zenon
<1>2. Steps(f, p.seq) <= Steps(f, seq)
  BY Zenon DEF SentOK
<1> QED
  BY <1>1, <1>2

\* ReceivePart: the host asks for the rest of an answer.
LEMMA PartOK ==
    ASSUME UdpAssumption, NEW f \in 0 .. Numbers - 1, Live(f), ReceivePart
    PROVE  Live(f)'
<1>1. Counted(f) /\ SentOK(f) /\ AnsweredOK(f) /\ TakenOK(f) /\ (ok => InStep)
  BY Zenon DEF Live
<1>2. op \in {"init", "write", "read"}
  BY <1>1, Zenon DEF ReceivePart, Busy, Counted
<1>3. PICK p \in toHost :
          /\ Matches(p) /\ p.cont
          /\ seq' = Successor(seq)
          /\ errdata' = (errdata \/ p.id = "error")
          /\ got' = IF op = "read" /\ p.id # "error" THEN Append(got, p.data) ELSE got
          /\ Send(p.id, FALSE, seq', None)
  BY Zenon DEF ReceivePart
<1>4. UNCHANGED <<op, left, nops, toHost, dseq, last, dleft, derr, wrote, taken, offered, ok>>
  BY Zenon DEF ReceivePart, device
<1>5. /\ p = last /\ p.id # "query" /\ dseq # seq /\ dseq = Successor(seq)
      /\ p.id \in Ids /\ dleft > 0 /\ op # "init" /\ p.id # "init"
      /\ p.id = "fastboot" => p.data \in Parts
  BY <1>2, <1>3, AnswerIsLast, Zenon
<1>6. p.id \in {"fastboot", "error"} /\ op \in {"write", "read"}
  BY <1>2, <1>5, Zenon DEF Ids
<1>7. /\ Steps(f, seq) \in 0 .. Numbers - 2 /\ Numbers \in Nat \ {0}
      /\ Successor(seq) \in 0 .. Numbers - 1 /\ Steps(f, Successor(seq)) = Steps(f, seq) + 1
      /\ MaxParts \in Nat \ {0} /\ MaxChunks \in Nat \ {0}
  BY <1>1, LiveFacts, Zenon
<1>8. left * MaxParts \in Nat /\ left \in 0 .. MaxChunks - 1 /\ dleft \in 0 .. MaxParts - 1 /\ errdata \in BOOLEAN
      /\ nops \in 0 .. MaxOps
  BY <1>1, BudgetOK, Zenon DEF Counted
<1>9. Due = left * MaxParts + (1 + dleft) /\ Due' = left * MaxParts + dleft
  BY <1>3, <1>4, <1>5, <1>6, Zenon DEF Due, Chain
<1>10. Counted(f)' /\ Steps(f, seq)' = Steps(f, seq) + 1
  <2> DEFINE rest == left * MaxParts
  <2>1. rest \in Nat /\ Due = rest + (1 + dleft) /\ Due' = rest + dleft
    BY <1>8, <1>9, Zenon
  <2> HIDE DEF rest
  <2>2. Due' \in Nat /\ Due' + 1 <= Due
    BY <1>8, <2>1
  <2>3. errdata' \in BOOLEAN /\ left' \in 0 .. MaxChunks - 1 /\ op' \in {"idle", "write", "read"} /\ op' # "idle"
        /\ (op' # "write" => left' = 0)
    BY <1>1, <1>3, <1>4, <1>6, <1>8, Zenon DEF Counted
  <2> QED
    BY <1>1, <1>3, <1>4, <1>5, <2>2, <2>3, CountedNext, Zenon
<1>11. tx' = Packet(p.id, FALSE, seq', None) /\ toDev' = toDev \cup {tx'}
  BY <1>3, Zenon DEF Send
<1>12. /\ tx'.id = p.id /\ tx'.seq = seq' /\ tx'.data = None
       /\ tx' \in Sent
  BY <1>3, <1>6, <1>7, <1>11, Zenon DEF Packet, Sent, Ids
<1>13. SentOK(f)'
  <2>1. Steps(f, seq)' >= 1
    BY <1>7, <1>10
  <2>2. left' \in 0 .. left /\ nops' = nops /\ op' = op
    BY <1>4, <1>8
  <2> QED
    BY <1>1, <1>3, <1>4, <1>6, <1>11, <1>12, <2>1, <2>2, SentMore, Zenon
<1>14. AnsweredOK(f)'
  BY <1>1, <1>4, Zenon DEF AnsweredOK
<1>15. TakenOK(f)'
  <2>1. got' \in Seq(Parts)
    BY <1>1, <1>3, <1>5, <1>6, SMTT(60) DEF TakenOK
  <2> QED
    BY <1>1, <1>4, <1>11, <2>1, ZenonT(60) DEF TakenOK
<1>16. ASSUME ok PROVE InStep'
  <2>1. InStep
    BY <1>1, <1>16, Zenon
  <2>2. \A q \in toDev' : q.id # "query" /\ q.seq = seq' => q = tx'
    BY <1>1, <1>3, <1>11, NextIsUnused, Zenon
  <2>3. dseq' = seq' /\ op' # "idle" /\ op' # "init"
    BY <1>3, <1>4, <1>5, <1>6, Zenon
  <2>4. p.id = "error" => got' = got /\ errdata' = TRUE /\ taken = wrote /\ offered = got /\ derr
    BY <1>3, <1>5, <1>6, <2>1, ZenonT(60) DEF InStep
  <2>5. p.id = "fastboot" => op = "read" /\ got' = offered /\ ~errdata /\ ~errdata' /\ ~derr /\ taken = wrote
    BY <1>3, <1>5, <1>6, <1>8, <2>1, Zenon DEF InStep
  <2> QED
    BY <1>4, <1>5, <1>6, <1>12, <2>2, <2>3, <2>4, <2>5, Zenon DEF InStep
<1> QED
  BY <1>4, <1>10, <1>13, <1>14, <1>15, <1>16, Zenon DEF Live

\* ReceiveAck: a chunk is acknowledged.
LEMMA AckOK ==
    ASSUME UdpAssumption, NEW f \in 0 .. Numbers - 1, Live(f), ReceiveAck
    PROVE  Live(f)'
<1>1. Counted(f) /\ SentOK(f) /\ AnsweredOK(f) /\ TakenOK(f) /\ (ok => InStep)
  BY Zenon DEF Live
<1>2. op = "write" /\ ~errdata /\ seq' = Successor(seq) /\ wrote' = Append(wrote, <<nops, left>>)
  BY Zenon DEF ReceiveAck
<1>3. PICK p \in toHost : Matches(p) /\ ~p.cont /\ p.id = "fastboot"
  BY Zenon DEF ReceiveAck
<1>4. UNCHANGED <<errdata, nops, toHost, dseq, last, dleft, derr, taken, offered, got, ok>>
  BY Zenon DEF ReceiveAck, device
<1>5. p = last /\ dseq # seq /\ dseq = Successor(seq)
  BY <1>2, <1>3, AnswerIsLast, Zenon
<1>6. /\ Steps(f, seq) \in 0 .. Numbers - 2 /\ Numbers \in Nat \ {0}
      /\ Successor(seq) \in 0 .. Numbers - 1 /\ Steps(f, Successor(seq)) = Steps(f, seq) + 1
      /\ MaxParts \in Nat \ {0} /\ MaxChunks \in Nat \ {0}
  BY <1>1, LiveFacts, Zenon
<1>7. /\ left \in 0 .. MaxChunks - 1 /\ dleft \in 0 .. MaxParts - 1 /\ errdata = FALSE
      /\ nops \in 0 .. MaxOps /\ left * MaxParts \in Nat
  BY <1>1, <1>2, BudgetOK, Zenon DEF Counted
<1>8. Due = left * MaxParts + 1
  BY <1>2, <1>3, <1>5, Zenon DEF Due, Chain
<1>9. AnsweredOK(f)'
  BY <1>1, <1>4, Zenon DEF AnsweredOK
<1>10. nops >= 1
  <2>1. Steps(f, seq) >= 1 /\ Steps(f, seq) + Due <= 1 + nops * Budget
    BY <1>1, <1>2, Zenon DEF Counted
  <2>2. 0 * Budget = 0
    BY BudgetOK, <1>7
  <2> DEFINE rest == left * MaxParts
             allowed == nops * Budget
  <2>3. rest \in Nat /\ Due = rest + 1 /\ Steps(f, seq) + Due <= 1 + allowed
    BY <1>7, <1>8, <2>1, Zenon
  <2>4. nops = 0 => allowed = 0
    BY <2>2, Zenon
  <2> HIDE DEF rest, allowed
  <2> QED
    BY <1>6, <1>7, <2>1, <2>3, <2>4
<1>11. <<nops, left>> \in Chunks
  BY <1>6, <1>7, <1>10 DEF Chunks
<1>12. wrote' \in Seq(Chunks)
  BY <1>1, <1>2, <1>11, SMTT(60) DEF TakenOK
<1>13. ok => InStep /\ taken = Append(wrote, <<nops, left>>) /\ offered = got /\ dleft = 0
  BY <1>1, <1>2, <1>3, <1>5, <1>7, Zenon DEF InStep
<1>14. CASE left > 0 /\ left' = left - 1 /\ op' = op /\ Send("fastboot", left > 1, seq', <<nops, left - 1>>)
  <2>1. Due' = (left - 1) * MaxParts + (IF dleft > 0 THEN dleft ELSE MaxParts)
    BY <1>2, <1>4, <1>5, <1>14, Zenon DEF Due, Chain
  <2>2. Counted(f)' /\ Steps(f, seq)' = Steps(f, seq) + 1
    <3> DEFINE rest == (left - 1) * MaxParts
    <3>1. left - 1 \in 0 .. MaxChunks - 1
      BY <1>6, <1>7, <1>14
    <3>2. rest \in Nat
      BY <3>1, BudgetOK, <1>7, Zenon
    <3>3. left * MaxParts = rest + MaxParts
      BY <1>6, <1>7
    <3>4. Due = rest + MaxParts + 1 /\ Due' = rest + (IF dleft > 0 THEN dleft ELSE MaxParts)
      BY <1>8, <2>1, <3>3, Zenon
    <3> HIDE DEF rest
    <3>5. Due' \in Nat /\ Due' + 1 <= Due
      BY <1>6, <1>7, <3>2, <3>4
    <3> QED
      BY <1>1, <1>2, <1>4, <1>5, <1>7, <1>14, <3>1, <3>5, CountedNext, Zenon
  <2>3. tx' = Packet("fastboot", left > 1, seq', <<nops, left - 1>>) /\ toDev' = toDev \cup {tx'}
    BY <1>14, Zenon DEF Send
  <2>4. tx'.id = "fastboot" /\ tx'.seq = seq' /\ tx'.data = <<nops, left - 1>>
    BY <2>3, Zenon DEF Packet
  <2>5. tx' \in Sent
    <3>1. <<nops, left - 1>> \in Chunks
      BY <1>6, <1>7, <1>10, <1>14 DEF Chunks
    <3> QED
      BY <1>2, <1>6, <2>3, <3>1 DEF Packet, Sent, Ids
  <2>6. SentOK(f)'
    <3>1. Steps(f, seq)' >= 1
      BY <1>6, <2>2
    <3>2. left' \in 0 .. left /\ nops' = nops /\ op' = op /\ op' = "write"
          /\ (tx'.data # None => tx'.id = "fastboot" /\ op' = "write" /\ tx'.data = <<nops', left'>>
                                 /\ (nops' = nops => left' < left))
      BY <1>2, <1>4, <1>7, <1>14, <2>4, SMTT(60)
    <3> QED
      BY <1>1, <1>2, <1>14, <2>3, <2>4, <2>5, <3>1, <3>2, SentMore, ZenonT(60)
  <2>7. TakenOK(f)'
    BY <1>1, <1>4, <1>12, <2>3, Zenon DEF TakenOK
  <2>8. ASSUME ok PROVE InStep'
    <3>1. \A q \in toDev' : q.id # "query" /\ q.seq = seq' => q = tx'
      BY <1>1, <1>2, <2>3, NextIsUnused, Zenon
    <3>2. dseq' = seq' /\ op' = "write" /\ errdata' = FALSE /\ taken' = wrote' /\ offered' = got' /\ dleft' = 0
          /\ tx'.data = <<nops', left'>>
      BY <1>2, <1>4, <1>5, <1>7, <1>13, <1>14, <2>4, <2>8, Zenon
    <3> QED
      BY <3>1, <3>2, Zenon DEF InStep
  <2> QED
    BY <1>4, <1>9, <2>2, <2>6, <2>7, <2>8, Zenon DEF Live
<1>15. CASE left = 0 /\ op' = "idle" /\ tx' = None /\ UNCHANGED <<left, toDev>>
  <2>1. Due' = 0
    BY <1>15, Zenon DEF Due
  <2>2. Counted(f)' /\ Steps(f, seq)' = Steps(f, seq) + 1
    <3>1. Due = 1
      BY <1>6, <1>7, <1>8, <1>15
    <3>2. Due' \in Nat /\ Due' + 1 <= Due
      BY <2>1, <3>1
    <3>3. left' = 0 /\ left' \in 0 .. MaxChunks - 1 /\ errdata' = FALSE
      BY <1>4, <1>6, <1>7, <1>15, Zenon
    <3> QED
      BY <1>1, <1>2, <1>4, <1>5, <1>15, <3>2, <3>3, CountedNext, Zenon
  <2>3. SentOK(f)'
    BY <1>1, <1>2, <1>4, <1>15, SentIdle, Zenon
  <2>4. TakenOK(f)'
    BY <1>1, <1>4, <1>12, <1>15, Zenon DEF TakenOK
  <2>5. ASSUME ok PROVE InStep'
    <3>1. \A q \in toDev' : ~(q.id # "query" /\ q.seq = seq')
      BY <1>1, <1>2, <1>15, NextIsUnused, Zenon
    <3>2. dseq' = seq' /\ errdata' = FALSE /\ taken' = wrote' /\ offered' = got' /\ dleft' = 0
      BY <1>2, <1>4, <1>5, <1>7, <1>13, <1>15, <2>5, Zenon
    <3> QED
      BY <1>15, <3>1, <3>2, Zenon DEF InStep
  <2> QED
    BY <1>4, <1>9, <2>2, <2>3, <2>4, <2>5, Zenon DEF Live
<1> QED
  BY <1>14, <1>15, Zenon DEF ReceiveAck

\* ReceiveReply: the last packet of an answer ends the read.
LEMMA ReplyOK ==
    ASSUME UdpAssumption, NEW f \in 0 .. Numbers - 1, Live(f), ReceiveReply
    PROVE  Live(f)'
<1>1. Counted(f) /\ SentOK(f) /\ AnsweredOK(f) /\ TakenOK(f) /\ (ok => InStep)
  BY Zenon DEF Live
<1>2. op = "read" /\ ~errdata /\ seq' = Successor(seq) /\ op' = "idle"
  BY Zenon DEF ReceiveReply
<1>3. PICK p \in toHost : Matches(p) /\ ~p.cont /\ p.id = "fastboot" /\ got' = Append(got, p.data)
  BY Zenon DEF ReceiveReply
<1>4. UNCHANGED <<left, errdata, nops, toDev, toHost, dseq, last, dleft, derr, wrote, taken, offered, ok>>
  BY Zenon DEF ReceiveReply, device
<1>5. p = last /\ dseq # seq /\ dseq = Successor(seq) /\ p.data \in Parts
  BY <1>2, <1>3, AnswerIsLast, Zenon
<1>6. MaxParts \in Nat \ {0} /\ MaxChunks \in Nat \ {0}
  BY <1>1, LiveFacts, Zenon
<1>7. errdata = FALSE /\ left = 0
  BY <1>1, <1>2, Zenon DEF Counted
<1>8. Counted(f)'
  <2>1. left * MaxParts \in Nat /\ Due = left * MaxParts + 1
    BY <1>1, <1>2, <1>3, <1>5, BudgetOK, Zenon DEF Due, Chain, Counted
  <2>2. Due' = 0
    BY <1>2, Zenon DEF Due
  <2> DEFINE rest == left * MaxParts
  <2> HIDE DEF rest
  <2>3. Due' \in Nat /\ Due' + 1 <= Due
    <3>1. rest \in Nat /\ Due = rest + 1
      BY <2>1, Zenon DEF rest
    <3> QED
      BY <2>2, <3>1
  <2>4. left' = 0 /\ left' \in 0 .. MaxChunks - 1 /\ errdata' = FALSE
    BY <1>4, <1>6, <1>7
  <2> QED
    BY <1>1, <1>2, <1>4, <1>5, <2>3, <2>4, CountedNext, Zenon
<1>9. SentOK(f)'
  BY <1>1, <1>2, <1>4, SentIdle, Zenon
<1>10. AnsweredOK(f)'
  BY <1>1, <1>4, Zenon DEF AnsweredOK
<1>11. TakenOK(f)'
  <2>1. got' \in Seq(Parts)
    BY <1>1, <1>3, <1>5, SMTT(60) DEF TakenOK
  <2> QED
    BY <1>1, <1>4, <2>1, ZenonT(60) DEF TakenOK
<1>12. ASSUME ok PROVE InStep'
  <2>1. \A q \in toDev' : ~(q.id # "query" /\ q.seq = seq')
    BY <1>1, <1>2, <1>4, NextIsUnused, Zenon
  <2>2. dseq' = seq' /\ errdata' = FALSE /\ taken' = wrote' /\ offered' = got' /\ dleft' = 0
    BY <1>1, <1>2, <1>3, <1>4, <1>5, <1>7, <1>12, Zenon DEF InStep
  <2> QED
    BY <1>2, <2>1, <2>2, Zenon DEF InStep
<1> QED
  BY <1>4, <1>8, <1>9, <1>10, <1>11, <1>12, Zenon DEF Live

\* ReceiveInit: the handshake ends, well or badly.
LEMMA InitOK ==
    ASSUME UdpAssumption, NEW f \in 0 .. Numbers - 1, Live(f), ReceiveInit
    PROVE  Live(f)' \/ Shut'
<1>1. Counted(f) /\ SentOK(f) /\ AnsweredOK(f) /\ TakenOK(f) /\ (ok => InStep)
  BY Zenon DEF Live
<1>2. op = "init"
  BY Zenon DEF ReceiveInit
<1>3. PICK p \in toHost :
          /\ Matches(p) /\ seq' = Successor(seq)
          /\ \/ Fail
             \/ op' = "idle" /\ UNCHANGED <<left, errdata, nops, toDev, ok>>
  BY Zenon DEF ReceiveInit
<1>4. UNCHANGED <<toHost, device, wrote, taken, offered, got>>
  BY Zenon DEF ReceiveInit
<1>5. dseq # seq /\ dseq = Successor(seq)
  BY <1>2, <1>3, AnswerIsLast, Zenon
<1>6. CASE Fail
  BY <1>2, <1>3, <1>4, <1>5, <1>6, FailOK, Zenon DEF Busy
<1>7. CASE op' = "idle" /\ UNCHANGED <<left, errdata, nops, toDev, ok>>
  <2>1. UNCHANGED <<dseq, last, dleft, derr>>
    BY <1>4, Zenon DEF device
  <2>2. Counted(f)'
    <3>1. Due = 1 /\ Due' = 0
      BY <1>2, <1>7, Zenon DEF Due
    <3>2. Due' \in Nat /\ Due' + 1 <= Due
      BY <3>1
    <3>3. left' = 0 /\ errdata' = FALSE /\ left' \in 0 .. MaxChunks - 1
      BY <1>1, <1>2, <1>7, Zenon DEF Counted
    <3> QED
      BY <1>1, <1>3, <1>5, <1>7, <2>1, <3>2, <3>3, CountedNext, Zenon
  <2>3. SentOK(f)'
    BY <1>1, <1>3, <1>7, SentIdle, Zenon
  <2>4. AnsweredOK(f)'
    BY <1>1, <1>4, <2>1, Zenon DEF AnsweredOK
  <2>5. TakenOK(f)'
    BY <1>1, <1>4, <1>7, <2>1, ZenonT(60) DEF TakenOK
  <2>6. InStep'
    <3>1. \A q \in toDev' : ~(q.id # "query" /\ q.seq = seq')
      BY <1>1, <1>3, <1>7, NextIsUnused, Zenon
    <3>2. dseq' = seq' /\ errdata' = FALSE /\ taken' = wrote' /\ offered' = got' /\ dleft' = 0
      BY <1>1, <1>2, <1>3, <1>4, <1>5, <1>7, <2>1, Zenon DEF Counted
    <3> QED
      BY <1>7, <3>1, <3>2, Zenon DEF InStep
  <2> QED
    BY <2>2, <2>3, <2>4, <2>5, <2>6, Zenon DEF Live
<1> QED
  BY <1>3, <1>6, <1>7, Zenon

\* ReceiveError: the operation fails after its last answer.
LEMMA ErrorOK ==
    ASSUME UdpAssumption, NEW f \in 0 .. Numbers - 1, Live(f), ReceiveError
    PROVE  Live(f)' \/ Shut'
<1>1. op \in Busy /\ op # "idle" /\ seq' = Successor(seq) /\ Fail
      /\ UNCHANGED <<toHost, device, wrote, taken, offered, got>>
  BY Zenon DEF ReceiveError, Busy
<1>2. PICK p \in toHost : Matches(p)
  BY Zenon DEF ReceiveError
<1>3. dseq = Successor(seq)
  BY <1>1, <1>2, AnswerIsLast, Zenon
<1> QED
  BY <1>1, <1>3, FailOK, Zenon

\* Write and Read: an operation begins.
LEMMA BeginOK ==
    ASSUME UdpAssumption, NEW f \in 0 .. Numbers - 1, Live(f), Write \/ Read
    PROVE  Live(f)'
<1>1. Counted(f) /\ SentOK(f) /\ AnsweredOK(f) /\ TakenOK(f) /\ (ok => InStep)
  BY Zenon DEF Live
<1>2. /\ op = "idle" /\ nops < MaxOps /\ nops' = nops + 1 /\ op' \in {"write", "read"}
      /\ UNCHANGED <<seq, errdata, toHost, dseq, last, dleft, derr, wrote, taken, offered, got, ok>>
  BY Zenon DEF Write, Read, device, promise
<1>3. /\ Steps(f, seq) \in 0 .. Numbers - 2 /\ Numbers \in Nat \ {0} /\ Chain \in 1 .. MaxParts
      /\ MaxParts \in Nat \ {0} /\ MaxChunks \in Nat \ {0} /\ MaxOps \in Nat
  BY <1>1, LiveFacts, Zenon
<1>4. /\ left = 0 /\ errdata = FALSE /\ Steps(f, seq) >= 1 /\ nops \in 0 .. MaxOps
      /\ seq \in 0 .. Numbers - 1
  BY <1>1, <1>2, Zenon DEF Counted
<1>5. /\ left' \in 0 .. MaxChunks - 1 /\ (op' = "read" => left' = 0)
      /\ tx'.id = "fastboot" /\ tx'.seq = seq /\ tx' \in Sent /\ toDev' = toDev \cup {tx'}
      /\ tx'.data = IF op' = "write" THEN <<nops', left'>> ELSE None
  <2>1. CASE Write
    <3>1. PICK n \in 1 .. MaxChunks : left' = n - 1 /\ Send("fastboot", n > 1, seq, <<nops + 1, n - 1>>)
      BY <2>1, Zenon DEF Write
    <3>2. <<nops + 1, n - 1>> \in Chunks
      BY <1>2, <1>3, <1>4 DEF Chunks
    <3>3. tx' = Packet("fastboot", n > 1, seq, <<nops + 1, n - 1>>) /\ toDev' = toDev \cup {tx'}
      BY <3>1, Zenon DEF Send
    <3>4. op' = "write"
      BY <2>1, Zenon DEF Write
    <3> QED
      BY <1>2, <1>3, <1>4, <3>1, <3>2, <3>3, <3>4, SMTT(60) DEF Packet, Sent, Ids
  <2>2. CASE Read
    <3>1. op' = "read" /\ Send("fastboot", FALSE, seq, None) /\ left' = left
      BY <2>2, Zenon DEF Read
    <3>2. tx' = Packet("fastboot", FALSE, seq, None) /\ toDev' = toDev \cup {tx'}
      BY <3>1, Zenon DEF Send
    <3> QED
      BY <1>2, <1>3, <1>4, <3>1, <3>2 DEF Packet, Sent, Ids
  <2> QED
    BY <2>1, <2>2, Zenon
<1>6. Counted(f)'
  <2>1. Chain' = Chain
    BY <1>2, Zenon DEF Chain
  <2>2. Due' = left' * MaxParts + Chain /\ Due = 0
    BY <1>2, <2>1, Zenon DEF Due
  <2> DEFINE l == left'
             rest == l * MaxParts
             allowed == nops * Budget
  <2>3. l \in 0 .. MaxChunks - 1
    BY <1>5, Zenon
  <2>4. rest \in Nat /\ rest + MaxParts <= Budget /\ Budget \in Nat
    <3> HIDE DEF l
    <3> QED
      BY <1>4, <2>3, BudgetOK, Zenon
  <2>5. Steps(f, seq) + 0 <= 1 + allowed /\ allowed \in Nat /\ (nops + 1) * Budget = allowed + Budget
    BY <1>1, <1>4, <2>2, BudgetOK, Zenon DEF Counted
  <2>6. Due' = rest + Chain /\ nops' * Budget = allowed + Budget
    BY <1>2, <2>2, <2>5, Zenon
  <2> HIDE DEF l, rest, allowed
  <2>7. Steps(f, seq) + (rest + Chain) <= 1 + (allowed + Budget)
    BY <1>3, <2>4, <2>5
  <2>8. Steps(f, seq)' + Due' <= 1 + nops' * Budget
    BY <1>2, <2>6, <2>7, Zenon
  <2>9. nops' \in 0 .. MaxOps
    BY <1>2, <1>3, <1>4, SMTT(60)
  <2> QED
    BY <1>1, <1>2, <1>4, <1>5, <2>8, <2>9, Zenon DEF Counted
<1>7. SentOK(f)'
  BY <1>1, <1>2, <1>4, <1>5, SentMore, SMTT(60)
<1>8. AnsweredOK(f)'
  BY <1>1, <1>2, Zenon DEF AnsweredOK
<1>9. TakenOK(f)'
  BY <1>1, <1>2, <1>5, ZenonT(60) DEF TakenOK
<1>10. ASSUME ok PROVE InStep'
  <2>1. InStep
    BY <1>1, <1>10, Zenon
  <2>2. \A q \in toDev' : q.id # "query" /\ q.seq = seq' => q = tx'
    BY <1>2, <1>5, <2>1, ZenonT(60) DEF InStep
  <2>3. dseq' = seq' /\ taken' = wrote' /\ offered' = got' /\ dleft' = 0 /\ errdata' = FALSE
    BY <1>2, <1>4, <2>1, Zenon DEF InStep
  <2> QED
    BY <1>2, <1>5, <2>2, <2>3 DEF InStep
<1> QED
  BY <1>2, <1>6, <1>7, <1>8, <1>9, <1>10, Zenon DEF Live

-----------------------------------------------------------------------------
(* The device's steps *)

\* The device answers a packet under the number it expects: that number is the
\* host's.
LEMMA ExpectedIsHosts ==
    ASSUME UdpAssumption, NEW f \in 0 .. Numbers - 1, Counted(f), SentOK(f), AnsweredOK(f),
           NEW p \in toDev, p.id # "query", p.seq = dseq
    PROVE  /\ dseq = seq /\ Successor(seq) # seq /\ p \in Sent
           /\ Steps(f, Successor(seq)) = Steps(f, seq) + 1
           /\ op = "init" <=> p.id = "init"
<1>1. /\ Steps(f, seq) \in 0 .. Numbers - 2 /\ Steps(f, dseq) \in 0 .. Numbers - 1
      /\ Numbers \in Nat \ {0}
      /\ Steps(f, dseq) = Steps(f, seq) <=> dseq = seq
      /\ Steps(f, Successor(seq)) = Steps(f, seq) + 1
  BY LiveFacts, Zenon
<1>2. Steps(f, p.seq) <= Steps(f, seq) /\ (p.id = "init" <=> p.seq = f) /\ p \in Sent
  BY Zenon DEF SentOK
<1>3. Steps(f, dseq) = Steps(f, seq) \/ Steps(f, dseq) = Steps(f, seq) + 1
  BY Zenon DEF Counted
<1>4. dseq = seq
  BY <1>1, <1>2, <1>3
<1>5. op = "init" <=> seq = f
  <2>1. Steps(f, seq) = 0 <=> seq = f
    BY <1>1, StepsCount, Zenon DEF Counted
  <2>2. IF op = "init" THEN seq = f ELSE Steps(f, seq) >= 1
    BY Zenon DEF Counted
  <2> QED
    BY <1>1, <2>1, <2>2, SMTT(60)
<1> QED
  BY <1>1, <1>2, <1>4, <1>5

\* An answer keeps the counts and what is known of the answers.
LEMMA AnswerOK ==
    ASSUME UdpAssumption, NEW f \in 0 .. Numbers - 1, Counted(f), SentOK(f), AnsweredOK(f),
           UNCHANGED <<host, toDev, wrote, ok>>,
           NEW p \in toDev, p.id # "query", p.seq = dseq,
           NEW id \in {"init", "fastboot", "error"}, id = "init" <=> p.id = "init",
           NEW cont \in BOOLEAN, NEW data, Answer(p, id, cont, data),
           dleft' \in 0 .. MaxParts - 1, derr' \in BOOLEAN,
           cont => /\ id # "init" /\ dleft' > 0
                   /\ IF dleft > 0 THEN dleft' + 1 = dleft ELSE TRUE,
           id = "fastboot" => data \in Parts,
           op = "init" => UNCHANGED <<got, taken, offered, dleft>>
    PROVE  /\ Counted(f)' /\ SentOK(f)' /\ AnsweredOK(f)'
           /\ dseq = seq /\ dseq' # seq' /\ last' = Packet(id, cont, seq, data)
           /\ Steps(f, dseq)' = Steps(f, dseq) + 1
<1>1. /\ dseq = seq /\ Successor(seq) # seq /\ p \in Sent
      /\ Steps(f, Successor(seq)) = Steps(f, seq) + 1
      /\ op = "init" <=> p.id = "init"
  BY ExpectedIsHosts, Zenon
<1>2. /\ UNCHANGED <<op, seq, tx, left, errdata, nops, toDev, wrote, ok>>
      /\ dseq' = Successor(seq) /\ last' = Packet(id, cont, seq, data)
      /\ toHost' = toHost \cup {last'}
  BY <1>1, Zenon DEF host, Answer
<1>3. /\ last'.id = id /\ last'.cont = cont /\ last'.seq = seq
      /\ last'.data = data
  BY <1>2, Zenon DEF Packet
<1>4. /\ Steps(f, seq) \in 0 .. Numbers - 2 /\ Numbers \in Nat \ {0} /\ Successor(seq) \in 0 .. Numbers - 1
      /\ Chain \in 1 .. MaxParts /\ MaxParts \in Nat \ {0} /\ seq \in 0 .. Numbers - 1
      /\ left * MaxParts \in Nat /\ dleft \in 0 .. MaxParts - 1
  BY LiveFacts, BudgetOK, Zenon DEF Counted
<1>5. Counted(f)'
  <2>1. Chain' = IF cont THEN 1 + dleft' ELSE 1
    BY <1>1, <1>2, <1>3, Zenon DEF Chain
  <2> DEFINE c == Chain'
             e == dleft'
             rest == left * MaxParts
             allowed == nops * Budget
  <2>2. c \in Nat /\ c <= Chain
    <3>1. c = (IF cont THEN 1 + e ELSE 1) /\ e \in 0 .. MaxParts - 1
          /\ (cont => e > 0 /\ (dleft > 0 => e + 1 = dleft))
      BY <2>1, Zenon
    <3>2. Chain = IF dleft > 0 THEN dleft ELSE MaxParts
      BY <1>1, Zenon DEF Chain
    <3> HIDE DEF c, e
    <3> QED
      BY <1>4, <3>1, <3>2
  <2>3. Steps(f, seq) + Due <= 1 + allowed
    BY Zenon DEF Counted
  <2>4. CASE op \in {"idle", "init"}
    <3>1. Due' = Due
      BY <1>2, <2>4, Zenon DEF Due
    <3>2. Steps(f, seq)' + Due' <= 1 + nops' * Budget
      BY <1>2, <2>3, <3>1, Zenon
    <3> QED
      BY <1>1, <1>2, <1>4, <2>4, <3>2, Zenon DEF Counted
  <2>5. CASE op \in {"write", "read"}
    <3>1. Due' = rest + c /\ Due = rest + Chain
      BY <1>2, <2>5, Zenon DEF Due
    <3>2. nops' * Budget = allowed /\ rest \in Nat /\ allowed \in Nat
      BY <1>2, <1>4, BudgetOK, Zenon DEF Counted
    <3> HIDE DEF c, rest, allowed
    <3>3. Steps(f, seq) + (rest + c) <= 1 + allowed
      BY <1>4, <2>2, <2>3, <3>1, <3>2, SMTT(60)
    <3>4. Steps(f, seq)' + Due' <= 1 + nops' * Budget
      BY <1>2, <3>1, <3>2, <3>3, Zenon
    <3> QED
      BY <1>1, <1>2, <1>4, <2>5, <3>4, Zenon DEF Counted
  <2> QED
    BY <2>4, <2>5, ZenonT(60) DEF Counted
<1>6. SentOK(f)'
  BY <1>2, ZenonT(60) DEF SentOK
<1>7. AnsweredOK(f)'
  <2>2. ASSUME NEW q \in toHost, q.id # "query"
        PROVE  /\ q.id \in Ids /\ q.seq \in 0 .. Numbers - 1
               /\ Steps(f, q.seq) < Steps(f, seq) + 1
               /\ Steps(f, q.seq) + 1 # Steps(f, seq) + 1
               /\ q.id = "init" <=> q.seq = f
               /\ q.id = "init" => ~q.cont
               /\ q.id = "fastboot" => q.data \in Parts
    <3>1. /\ q.id \in Ids /\ q.seq \in 0 .. Numbers - 1
          /\ Steps(f, q.seq) < Steps(f, seq)
          /\ q.id = "init" <=> q.seq = f
          /\ q.id = "init" => ~q.cont
          /\ q.id = "fastboot" => q.data \in Parts
      BY <1>1, <2>2, Zenon DEF AnsweredOK
    <3>2. Steps(f, q.seq) \in 0 .. Numbers - 1
      BY <1>4, <3>1, StepsCount, Zenon
    <3> QED
      BY <1>4, <3>1, <3>2, SMTT(60)
  <2>3. id = "init" <=> seq = f
    <3>1. p.id = "init" <=> p.seq = f
      BY Zenon DEF SentOK
    <3> QED
      BY <1>1, <3>1, Zenon
  <2>4. /\ Steps(f, dseq)' = Steps(f, seq) + 1 /\ last'.id \in Ids /\ last'.id # "query"
        /\ Steps(f, last'.seq) < Steps(f, seq) + 1 /\ Steps(f, last'.seq) + 1 = Steps(f, seq) + 1
    BY <1>1, <1>2, <1>3, <1>4 DEF Ids
  <2> QED
    BY <1>2, <1>3, <1>4, <2>2, <2>3, <2>4, ZenonT(60) DEF AnsweredOK
<1> QED
  BY <1>1, <1>2, <1>5, <1>6, <1>7, Zenon

\* Answering a query again changes nothing the invariant speaks of.
LEMMA DevQueryOK ==
    ASSUME NEW f, Live(f), DevQuery
    PROVE  Live(f)'
<1>1. UNCHANGED <<op, seq, tx, left, errdata, nops, toDev, dseq, last, dleft, derr,
                  wrote, taken, offered, got, ok>>
  BY Zenon DEF DevQuery, host, device, promise
<1>2. toHost \subseteq toHost' /\ \A p \in toHost' : p \in toHost \/ p.id = "query"
  BY DEF DevQuery, Packet
<1>3. Due' = Due
  BY <1>1, Zenon DEF Due, Chain
<1>4. Counted(f)'
  BY <1>1, <1>3, Zenon DEF Live, Counted
<1>5. SentOK(f)' /\ TakenOK(f)'
  BY <1>1, Zenon DEF Live, SentOK, TakenOK
<1>6. AnsweredOK(f)'
  BY <1>1, <1>2, Zenon DEF Live, AnsweredOK
<1>7. (ok => InStep)'
  BY <1>1, Zenon DEF Live, InStep
<1> QED
  BY <1>4, <1>5, <1>6, <1>7, Zenon DEF Live

\* A repeated or accepted init keeps the invariant: the answer is in step with it.
LEMMA DevInitOK ==
    ASSUME UdpAssumption, NEW f \in 0 .. Numbers - 1, Live(f), DevInit
    PROVE  Live(f)'
<1>1. Counted(f) /\ SentOK(f) /\ AnsweredOK(f) /\ TakenOK(f) /\ (ok => InStep)
  BY Zenon DEF Live
<1>2. PICK p \in toDev, version \in {0, 1} :
          p.id = "init" /\ p.seq = dseq /\ Answer(p, "init", FALSE, <<version>>)
  BY Zenon DEF DevInit
<1>3. /\ UNCHANGED <<host, toDev, dleft, derr, wrote, taken, offered, got, ok>>
      /\ UNCHANGED <<op, seq, tx, left, errdata, nops>>
  BY Zenon DEF DevInit, promise, host
<1>4. op = "init"
  BY <1>1, <1>2, ExpectedIsHosts, Zenon
<1>5. dleft' \in 0 .. MaxParts - 1 /\ derr' \in BOOLEAN
  BY <1>1, <1>3, Zenon DEF Counted
<1>6. /\ Counted(f)' /\ SentOK(f)' /\ AnsweredOK(f)' /\ dseq' # seq'
      /\ Steps(f, dseq)' = Steps(f, dseq) + 1
  BY <1>1, <1>2, <1>3, <1>5, AnswerOK, ZenonT(60)
<1>7. TakenOK(f)'
  <2>1. taken = <<>> /\ offered = <<>>
    BY <1>1, <1>4, Zenon DEF Counted
  <2>2. Steps(f, dseq) \in Nat
    BY <1>1, LiveFacts
  <2>3. Len(offered) <= Steps(f, dseq)'
    BY <1>6, <2>1, <2>2, SMTT(60)
  <2> QED
    BY <1>1, <1>3, <2>1, <2>3 DEF TakenOK
<1>8. (ok => InStep)'
  BY <1>1, <1>3, <1>4, <1>6, Zenon DEF InStep
<1> QED
  BY <1>6, <1>7, <1>8, Zenon DEF Live

\* DevTake: the device takes a chunk.  No chunk it took before came under this
\* number, so this one is new.
LEMMA DevTakeOK ==
    ASSUME UdpAssumption, NEW f \in 0 .. Numbers - 1, Live(f), DevTake
    PROVE  Live(f)'
<1>1. Counted(f) /\ SentOK(f) /\ AnsweredOK(f) /\ TakenOK(f) /\ (ok => InStep)
  BY Zenon DEF Live
<1>2. PICK p \in toDev :
          /\ p.id = "fastboot" /\ p.data # None /\ p.seq = dseq
          /\ taken' = Append(taken, p.data)
          /\ Answer(p, "fastboot", FALSE, None)
  BY ZenonT(60) DEF DevTake
<1>3. /\ UNCHANGED <<host, toDev, dleft, derr, wrote, offered, got, ok>>
      /\ UNCHANGED <<op, seq, tx, left, errdata, nops>>
  BY Zenon DEF DevTake, host
<1>4. dseq = seq /\ op # "init" /\ p \in Sent
  BY <1>1, <1>2, ExpectedIsHosts, Zenon
<1>5. dleft' \in 0 .. MaxParts - 1 /\ derr' \in BOOLEAN /\ None \in Parts
  BY <1>1, <1>3, Zenon DEF Counted, Parts
<1>6. /\ Counted(f)' /\ SentOK(f)' /\ AnsweredOK(f)' /\ dseq' # seq'
      /\ last' = Packet("fastboot", FALSE, seq, None)
      /\ Steps(f, dseq)' = Steps(f, dseq) + 1
  BY <1>1, <1>2, <1>3, <1>4, <1>5, AnswerOK, ZenonT(60)
<1>7. last'.id = "fastboot" /\ last'.cont = FALSE /\ last'.data = None
  BY <1>6, Zenon DEF Packet
<1>8. TakenOK(f)'
  <2>1. p.data \in Chunks /\ taken \in Seq(Chunks) /\ taken' \in Seq(Chunks)
        /\ Len(taken') = Len(taken) + 1 /\ Len(taken) \in Nat
        /\ (\A i \in 1 .. Len(taken) : taken'[i] = taken[i]) /\ taken'[Len(taken) + 1] = p.data
    <3>1. p.data \in Chunks /\ taken' = Append(taken, p.data)
      BY <1>2, <1>4, Zenon DEF Sent
    <3>2. taken \in Seq(Chunks)
      BY <1>1, Zenon DEF TakenOK
    <3> QED
      BY <3>1, <3>2
  <2>2. Steps(f, dseq) \in Nat
    BY <1>1, LiveFacts, SMTT(60)
  <2>3. ASSUME NEW i \in 1 .. Len(taken)
        PROVE  /\ taken[i] # p.data
               /\ \E q \in toDev : q.data = taken[i] /\ q.id = "fastboot" /\ Steps(f, q.seq) < Steps(f, dseq) + 1
    <3>1. PICK q \in toDev : q.data = taken[i] /\ q.id = "fastboot" /\ Steps(f, q.seq) < Steps(f, dseq)
      BY <1>1, ZenonT(60) DEF TakenOK
    <3>2. q.seq \in 0 .. Numbers - 1 /\ (q.data = p.data => q.seq = p.seq)
      BY <1>1, <1>2, Zenon DEF SentOK, Sent
    <3>3. Steps(f, q.seq) \in Nat
      <4>1. Numbers \in Nat \ {0}
        BY <1>1, LiveFacts, Zenon
      <4>2. Steps(f, q.seq) \in 0 .. Numbers - 1
        BY <3>2, <4>1, StepsCount, ZenonT(60)
      <4> QED
        BY <4>1, <4>2, SMTT(60)
    <3> QED
      BY <1>2, <2>2, <3>1, <3>2, <3>3
  <2>4. ASSUME NEW i \in 1 .. Len(taken')
        PROVE  \E q \in toDev : q.data = taken'[i] /\ q.id = "fastboot" /\ Steps(f, q.seq) < Steps(f, dseq) + 1
    <3>1. CASE i \in 1 .. Len(taken)
      BY <2>1, <2>3, <3>1, Zenon
    <3>2. CASE i = Len(taken) + 1
      BY <1>2, <2>1, <2>2, <3>2, SMTT(60)
    <3> QED
      BY <2>1, <3>1, <3>2, SMTT(60)
  <2>5. ASSUME NEW i \in 1 .. Len(taken'), NEW j \in 1 .. Len(taken'), taken'[i] = taken'[j]
        PROVE  i = j
    <3>1. CASE i \in 1 .. Len(taken) /\ j \in 1 .. Len(taken)
      BY <1>1, <2>1, <2>5, <3>1, Zenon DEF TakenOK
    <3>2. CASE i = Len(taken) + 1 \/ j = Len(taken) + 1
      BY <2>1, <2>3, <2>5, <3>2, SMTT(60)
    <3> QED
      BY <2>1, <3>1, <3>2, SMTT(60)
  <2>6. Len(offered) <= Steps(f, dseq) + 1 /\ offered \in Seq(Parts) /\ wrote \in Seq(Chunks) /\ got \in Seq(Parts)
    BY <1>1, <2>2, SMTT(60) DEF TakenOK
  <2> QED
    BY <1>3, <1>6, <2>1, <2>4, <2>5, <2>6, ZenonT(60) DEF TakenOK
<1>9. ASSUME ok PROVE InStep'
  <2>1. InStep
    BY <1>1, <1>9, Zenon
  <2>2. p = tx /\ op # "idle"
    BY <1>2, <1>4, <2>1, Zenon DEF InStep
  <2>3. op = "write" /\ ~errdata /\ p.data = <<nops, left>>
    BY <1>1, <1>2, <1>4, <2>1, <2>2, Zenon DEF InStep, Counted
  <2>4. taken' = Append(wrote, <<nops, left>>) /\ offered = got /\ dleft = 0
    BY <1>2, <1>4, <2>1, <2>3, Zenon DEF InStep
  <2> QED
    BY <1>3, <1>6, <1>7, <2>1, <2>2, <2>3, <2>4, ZenonT(60) DEF InStep
<1> QED
  BY <1>3, <1>6, <1>8, <1>9, Zenon DEF Live

\* DevGive: the device reports an error or gives out a part of a reply.
LEMMA DevGiveOK ==
    ASSUME UdpAssumption, NEW f \in 0 .. Numbers - 1, Live(f), DevGive
    PROVE  Live(f)'
<1>1. Counted(f) /\ SentOK(f) /\ AnsweredOK(f) /\ TakenOK(f) /\ (ok => InStep)
  BY Zenon DEF Live
<1> DEFINE part == <<Len(offered) + 1>>
<1>2. PICK p \in toDev, n \in 1 .. MaxParts, e \in BOOLEAN :
          /\ p.id \in {"fastboot", "error"} /\ p.seq = dseq
          /\ dleft > 0 => n = dleft /\ e = derr
          /\ p.data # None => e
          /\ dleft' = n - 1 /\ derr' = e
          /\ Answer(p, IF e THEN "error" ELSE "fastboot", n > 1, part)
          /\ offered' = IF e THEN offered ELSE Append(offered, part)
  BY Zenon DEF DevGive
<1> DEFINE id == IF e THEN "error" ELSE "fastboot"
<1>3. /\ UNCHANGED <<host, toDev, wrote, taken, got, ok>>
      /\ UNCHANGED <<op, seq, tx, left, errdata, nops>>
  BY Zenon DEF DevGive, host
<1>4. dseq = seq /\ op # "init" /\ p \in Sent /\ p.id # "query" /\ p.id # "init"
  BY <1>1, <1>2, ExpectedIsHosts, Zenon
<1>5. /\ Steps(f, dseq) \in 0 .. Numbers - 2 /\ Numbers \in Nat /\ MaxParts \in Nat
      /\ dleft \in 0 .. MaxParts - 1
  BY <1>1, <1>4, LiveFacts, ZenonT(60) DEF Counted
<1>6. Len(offered) \in Nat /\ Len(offered) <= Steps(f, dseq) /\ offered \in Seq(Parts)
  BY <1>1 DEF TakenOK
<1>7. part \in Parts
  BY <1>5, <1>6 DEF Parts
<1>8. /\ dleft' \in 0 .. MaxParts - 1 /\ derr' \in BOOLEAN
      /\ n > 1 => dleft' > 0 /\ (IF dleft > 0 THEN dleft' + 1 = dleft ELSE TRUE)
      /\ (n > 1) \in BOOLEAN /\ (~(n > 1) => dleft' = 0)
  BY <1>2, <1>5
<1>9. /\ id \in {"init", "fastboot", "error"} /\ (id = "init" <=> p.id = "init")
      /\ (n > 1 => id # "init")
  BY <1>4, Zenon
<1>10. /\ Counted(f)' /\ SentOK(f)' /\ AnsweredOK(f)' /\ dseq' # seq'
       /\ last' = Packet(id, n > 1, seq, part)
       /\ Steps(f, dseq)' = Steps(f, dseq) + 1
  <2>1. Answer(p, id, n > 1, part)
    BY <1>2, Zenon
  <2> HIDE DEF part, id
  <2> QED
    BY <1>1, <1>2, <1>3, <1>4, <1>7, <1>8, <1>9, <2>1, AnswerOK, ZenonT(60)
<1>11. last'.id = id /\ last'.cont = (n > 1) /\ last'.data = part
  BY <1>10, Zenon DEF Packet
<1>12. TakenOK(f)'
  <2>1. offered' \in Seq(Parts) /\ Len(offered') <= Len(offered) + 1 /\ Len(offered') \in Nat
    <3> HIDE DEF part
    <3> QED
      BY <1>2, <1>6, <1>7
  <2> DEFINE l == Len(offered')
  <2>2. l <= Steps(f, dseq) + 1
    <3>1. l <= Len(offered) + 1 /\ l \in Nat
      BY <2>1, Zenon
    <3> HIDE DEF l
    <3> QED
      BY <1>5, <1>6, <3>1
  <2>3. ASSUME NEW i \in 1 .. Len(taken)
        PROVE  \E q \in toDev : q.data = taken[i] /\ q.id = "fastboot" /\ Steps(f, q.seq) < Steps(f, dseq) + 1
    <3>1. PICK q \in toDev : q.data = taken[i] /\ q.id = "fastboot" /\ Steps(f, q.seq) < Steps(f, dseq)
      BY <1>1, Zenon DEF TakenOK
    <3>2. q.seq \in 0 .. Numbers - 1 /\ Numbers \in Nat \ {0}
      BY <1>1, LiveFacts, Zenon DEF SentOK, Sent
    <3>3. Steps(f, q.seq) \in 0 .. Numbers - 1
      BY <3>2, StepsCount, Zenon
    <3> QED
      BY <1>5, <3>1, <3>2, <3>3
  <2> QED
    <3>1. /\ taken \in Seq(Chunks) /\ wrote \in Seq(Chunks) /\ got \in Seq(Parts)
          /\ \A i, j \in 1 .. Len(taken) : taken[i] = taken[j] => i = j
      BY <1>1, Zenon DEF TakenOK
    <3>2. taken' = taken /\ wrote' = wrote /\ got' = got /\ toDev' = toDev
      BY <1>3, Zenon
    <3>3. Len(offered') <= Steps(f, dseq)'
      BY <1>10, <2>2, Zenon
    <3>4. ASSUME NEW i \in 1 .. Len(taken)
          PROVE  \E q \in toDev : q.data = taken[i] /\ q.id = "fastboot" /\ Steps(f, q.seq) < Steps(f, dseq)'
      BY <1>10, <2>3, Zenon
    <3> QED
      BY <2>1, <3>1, <3>2, <3>3, <3>4, Zenon DEF TakenOK
<1>13. ASSUME ok PROVE InStep'
  <2>1. InStep
    BY <1>1, <1>13, Zenon
  <2>2. p = tx /\ op # "idle" /\ op \in {"write", "read"} /\ errdata \in BOOLEAN
    BY <1>1, <1>2, <1>4, <2>1, Zenon DEF InStep, Counted
  <2>3. op = "write" => e
    <3>1. CASE errdata
      BY <1>2, <1>4, <2>1, <3>1, Zenon DEF InStep
    <3>2. CASE op = "write" /\ ~errdata
      <4>1. tx.data = <<nops, left>>
        BY <2>1, <3>2, Zenon DEF InStep
      <4>2. tx.data \in Nat \X Nat
        BY <1>1, <4>1, LiveFacts DEF Counted
      <4>3. tx.data # None
        BY <4>2, Zenon DEF UdpAssumption
      <4> QED
        BY <1>2, <2>2, <4>3, Zenon
    <3> QED
      BY <2>2, <3>1, <3>2, Zenon
  <2>4. errdata => e
    BY <1>2, <1>4, <2>1, Zenon DEF InStep
  <2>5. taken = wrote /\ offered = got
    BY <1>4, <2>1, Zenon DEF InStep
  <2> HIDE DEF part
  <2>6. id = "error" => e /\ offered' = got
    BY <1>2, <2>5, Zenon
  <2>7. id = "fastboot" => ~e /\ offered' = Append(got, part)
    BY <1>2, <2>5, Zenon
  <2> QED
    BY <1>2, <1>3, <1>8, <1>10, <1>11, <2>1, <2>2, <2>3, <2>4, <2>5, <2>6, <2>7, ZenonT(60) DEF InStep
<1> QED
  BY <1>3, <1>10, <1>12, <1>13, Zenon DEF Live

-----------------------------------------------------------------------------
(* The handshake, and the end of a failed one *)

\* Before the first init is answered, a step stays there, connects or gives up.
LEMMA BeforeOK ==
    ASSUME UdpAssumption, NEW f \in 0 .. Numbers - 1, Before(f), Next
    PROVE  Before(f)' \/ Shut' \/ Live(f)'
<1>1. Numbers \in Nat \ {0} /\ MaxParts \in Nat \ {0} /\ MaxChunks \in Nat \ {0} /\ MaxOps \in Nat
  <2>1. 0 \in 0 .. MaxOps
    BY SMTT(60) DEF UdpAssumption
  <2> QED
    BY <2>1, BudgetOK, Zenon DEF UdpAssumption
<1>2. CASE Connect
  <2>1. /\ op' = "query" /\ tx' = Packet("query", FALSE, 0, None) /\ toDev' = toDev \cup {tx'}
        /\ UNCHANGED <<seq, left, errdata, nops, toHost, dseq, last, dleft, derr,
                       wrote, taken, offered, got, ok>>
    BY <1>2, Zenon DEF Connect, Send, device, promise, Before
  <2>2. tx' \in Sent /\ tx'.id = "query" /\ tx'.data = None
    BY <1>1, <2>1, SMTT(60) DEF Packet, Sent, Ids
  <2> QED
    BY <2>1, <2>2, ZenonT(60) DEF Before
<1>3. CASE op = "query" /\ Fail /\ UNCHANGED <<toHost, device, wrote, taken, offered, got>>
  BY <1>3, Zenon DEF Fail, Shut, Before
<1>4. CASE (Timeout \/ ReceiveOther) /\ ~Fail
  <2>1. op = "query"
    BY <1>4, Zenon DEF Timeout, ReceiveOther, Busy, Before
  <2>2. toDev' = toDev \cup {tx} /\ UNCHANGED <<op, tx, left, errdata, nops, ok>>
    BY <1>4, Zenon DEF Timeout, ReceiveOther, Retry
  <2>3. toDev' = toDev
    BY <2>1, <2>2, Zenon DEF Before
  <2>4. UNCHANGED <<seq, toHost, dseq, last, dleft, derr, wrote, taken, offered, got>>
    BY <1>4, Zenon DEF Timeout, ReceiveOther, device
  <2> QED
    BY <2>2, <2>3, <2>4, Zenon DEF Before
<1>5. CASE ReceiveQuery
  <2>1. PICK p \in toHost : seq' = p.data[1] /\ Send("init", FALSE, seq', None)
    BY <1>5, ZenonT(60) DEF ReceiveQuery
  <2>2. seq' = f
    BY <2>1, SMTT(60) DEF Before
  <2>3. /\ tx' = Packet("init", FALSE, f, None) /\ toDev' = toDev \cup {tx'} /\ op' = "init"
        /\ UNCHANGED <<left, errdata, nops, toHost, dseq, last, dleft, derr, wrote, taken, offered, got, ok>>
    BY <1>5, <2>1, <2>2, Zenon DEF ReceiveQuery, Send, device, promise
  <2>4. /\ tx' \in Sent /\ tx'.id = "init" /\ tx'.data = None /\ tx'.seq = f /\ tx'.cont = FALSE
    BY <1>1, <2>3, Zenon DEF Packet, Sent, Ids
  <2>5. dseq = f /\ Steps(f, f) = 0
    BY <1>1, StepsCount, Zenon DEF Before
  <2>6. Counted(f)'
    <3>1. Due' = 1 /\ nops' = 0 /\ 0 * Budget = 0
      <4>1. 0 \in 0 .. MaxOps /\ Budget \in Nat
        BY <1>1, BudgetOK
      <4> QED
        BY <2>3, <4>1 DEF Due, Before
    <3>2. Steps(f, seq)' + Due' <= 1 + nops' * Budget
      BY <2>2, <2>5, <3>1
    <3>3. /\ seq' \in 0 .. Numbers - 1 /\ dseq' \in 0 .. Numbers - 1 /\ Steps(f, dseq)' = Steps(f, seq)'
          /\ seq' = f
      BY <2>2, <2>3, <2>5, Zenon
    <3>4. /\ nops' = 0 /\ nops' \in 0 .. MaxOps /\ left' = 0 /\ left' \in 0 .. MaxChunks - 1
          /\ errdata' = FALSE /\ ok' = TRUE /\ dleft' = 0 /\ dleft' \in 0 .. MaxParts - 1 /\ derr' \in BOOLEAN
          /\ wrote' = <<>> /\ taken' = <<>> /\ offered' = <<>> /\ got' = <<>>
      <4>1. 0 \in 0 .. MaxOps /\ 0 \in 0 .. MaxChunks - 1 /\ 0 \in 0 .. MaxParts - 1
        BY <1>1
      <4> QED
        BY <2>3, <4>1, Zenon DEF Before
    <3> QED
      BY <2>3, <3>2, <3>3, <3>4, Zenon DEF Counted
  <2>7. SentOK(f)'
    <3>1. \A x \in toDev' : x = tx' \/ (x \in Sent /\ x.id = "query" /\ x.data = None)
      BY <2>3, Zenon DEF Before
    <3>2. Steps(f, tx'.seq) <= Steps(f, seq')
      BY <2>2, <2>4, <2>5, SMTT(60)
    <3> QED
      BY <2>2, <2>3, <2>4, <3>1, <3>2, Zenon DEF SentOK
  <2>8. AnsweredOK(f)'
    BY <2>3, <2>5, Zenon DEF AnsweredOK, Before
  <2>9. TakenOK(f)'
    BY <2>3, <2>5, SMTT(60) DEF TakenOK, Before
  <2>10. InStep'
    BY <2>2, <2>3, <2>4, <2>5, Zenon DEF InStep, Before
  <2> QED
    BY <2>6, <2>7, <2>8, <2>9, <2>10, Zenon DEF Live
<1>6. CASE DevQuery
  <2>1. UNCHANGED <<op, seq, tx, left, errdata, nops, toDev, dseq, last, dleft, derr,
                    wrote, taken, offered, got, ok>>
    BY <1>6, Zenon DEF DevQuery, host, device, promise
  <2>2. \A p \in toHost' : p \in toHost \/ (p.id = "query" /\ ~p.cont /\ p.data = <<f>>)
    BY <1>6, SMTT(60) DEF DevQuery, Packet, Before
  <2> QED
    BY <2>1, <2>2, Zenon DEF Before
<1>7. CASE ReceivePart \/ ReceiveError
  BY <1>7, ZenonT(60) DEF ReceivePart, ReceiveError, Before, Busy
<1> QED
  BY <1>2, <1>3, <1>4, <1>5, <1>6, <1>7, ZenonT(60)
     DEF Next, Before, Busy, Write, Read, Timeout, SocketError, ReceiveOther, Retry, ReceiveInit,
         ReceiveAck, ReceiveReply, DevInit, DevTake, DevGive

\* After a failed connect the host does nothing more, and the promise does not change.
LEMMA ShutOK ==
    ASSUME Shut, Next
    PROVE  Shut' /\ UNCHANGED promise
<1>1. DevQuery \/ DevInit
  BY ZenonT(60) DEF Next, Shut, Busy, Connect, Write, Read, Timeout, SocketError, ReceiveOther, ReceivePart,
         ReceiveError, ReceiveQuery, ReceiveInit, ReceiveAck, ReceiveReply, DevTake, DevGive
<1> QED
  BY <1>1, ZenonT(60) DEF Shut, DevQuery, DevInit, host, promise

\* Once connected, every step keeps the invariant or shuts the transport.
LEMMA LiveOK ==
    ASSUME UdpAssumption, NEW f \in 0 .. Numbers - 1, Live(f), Next
    PROVE  Live(f)' \/ Shut'
<1>1. CASE Timeout \/ ReceiveOther
  BY <1>1, RetryOK, Zenon DEF Timeout, ReceiveOther
<1>2. CASE SocketError
  BY <1>2, FailOK, Zenon DEF SocketError
<1>3. CASE ReceivePart
  BY <1>3, PartOK, Zenon
<1>4. CASE ReceiveError
  BY <1>4, ErrorOK, Zenon
<1>5. CASE ReceiveInit
  BY <1>5, InitOK, Zenon
<1>6. CASE ReceiveAck
  BY <1>6, AckOK, Zenon
<1>7. CASE ReceiveReply
  BY <1>7, ReplyOK, Zenon
<1>8. CASE Write \/ Read
  BY <1>8, BeginOK, Zenon
<1>9. CASE DevQuery
  BY <1>9, DevQueryOK, Zenon
<1>10. CASE DevInit
  BY <1>10, DevInitOK, Zenon
<1>11. CASE DevTake
  BY <1>11, DevTakeOK, Zenon
<1>12. CASE DevGive
  BY <1>12, DevGiveOK, Zenon
<1>13. ~Connect /\ ~ReceiveQuery
  BY Zenon DEF Live, Counted, Connect, ReceiveQuery
<1> QED
  BY <1>1, <1>2, <1>3, <1>4, <1>5, <1>6, <1>7, <1>8, <1>9, <1>10, <1>11, <1>12, <1>13, Zenon DEF Next

\* The invariant is inductive.
LEMMA Inductive ==
    ASSUME UdpAssumption, IInv, [Next]_vars
    PROVE  IInv'
<1>1. PICK f \in 0 .. Numbers - 1 : Before(f) \/ Shut \/ Live(f)
  BY Zenon DEF IInv
<1>2. CASE Next
  <2>1. Before(f)' \/ Shut' \/ Live(f)'
    BY <1>1, <1>2, BeforeOK, ShutOK, LiveOK, Zenon
  <2> QED
    BY <2>1, Zenon DEF IInv
<1>3. CASE UNCHANGED vars
  <2>1. UNCHANGED <<op, seq, tx, left, errdata, nops, toDev, toHost, dseq, last, dleft, derr,
                    wrote, taken, offered, got, ok>>
    BY <1>3, Zenon DEF vars, host, device, promise
  <2>2. Before(f) => Before(f)'
    BY <2>1, Zenon DEF Before
  <2>3. Shut => Shut'
    BY <2>1, Zenon DEF Shut
  <2>4. ASSUME Live(f) PROVE Live(f)'
    <3>1. Due' = Due
      BY <2>1, Zenon DEF Due, Chain
    <3>2. Counted(f)'
      BY <2>1, <2>4, <3>1, Zenon DEF Live, Counted
    <3>3. SentOK(f)' /\ TakenOK(f)'
      BY <2>1, <2>4, ZenonT(60) DEF Live, SentOK, TakenOK
    <3>4. AnsweredOK(f)'
      BY <2>1, <2>4, Zenon DEF Live, AnsweredOK
    <3>5. (ok => InStep)'
      BY <2>1, <2>4, Zenon DEF Live, InStep
    <3> QED
      BY <3>2, <3>3, <3>4, <3>5, Zenon DEF Live
  <2> QED
    BY <1>1, <2>2, <2>3, <2>4, Zenon DEF IInv
<1> QED
  BY <1>2, <1>3, Zenon

\* It holds before the host has sent anything.
LEMMA Initially ==
    ASSUME UdpAssumption, Init
    PROVE  IInv
<1>1. dseq \in 0 .. Numbers - 1
  BY Zenon DEF Init, UdpAssumption
<1>2. Before(dseq)
  BY Zenon DEF Init, Before
<1> QED
  BY <1>1, <1>2, Zenon DEF IInv

\* So it holds in every state of every behaviour.
LEMMA Invariance ==
    ASSUME UdpAssumption
    PROVE  Spec => []IInv
<1>1. Init => IInv
  BY Initially, Zenon
<1>2. IInv /\ [Next]_vars => IInv'
  BY Inductive, Zenon
<1> QED
  BY <1>1, <1>2, PTL DEF Spec

-----------------------------------------------------------------------------
(* The theorems *)

\* However the network loses, repeats and delays packets, and whatever failed
\* before, the host's number is the device's or the one before it, and the
\* device takes no chunk of Write::write twice.
THEOREM StepKept ==
    ASSUME UdpAssumption
    PROVE  Spec => []StaysInStep
<1>1. IInv => StaysInStep
  <2> SUFFICES ASSUME IInv PROVE StaysInStep
    BY Zenon
  <2>1. PICK f \in 0 .. Numbers - 1 : Before(f) \/ Shut \/ Live(f)
    BY Zenon DEF IInv
  <2>2. CASE Before(f) \/ Shut
    <3>1. taken = <<>> /\ op \in {"none", "query", "closed"}
      BY <2>2, Zenon DEF Before, Shut
    <3>2. op \notin {"init", "idle", "write", "read"}
      BY <3>1, Zenon
    <3>3. \A i, j \in 1 .. Len(taken) : taken[i] = taken[j] => i = j
      BY <3>1, SMTT(60)
    <3> QED
      BY <3>2, <3>3, Zenon DEF StaysInStep
  <2>3. CASE Live(f)
    <3>1. dseq = seq \/ dseq = Successor(seq)
      BY <2>3, LiveFacts, Zenon DEF Live
    <3> QED
      BY <2>3, <3>1, Zenon DEF Live, TakenOK, StaysInStep
  <2> QED
    BY <2>1, <2>2, <2>3, Zenon
<1> QED
  BY <1>1, Invariance, PTL

\* A step of the transport is a step of the channel or none.
LEMMA LiveRefines ==
    ASSUME UdpAssumption, NEW f \in 0 .. Numbers - 1, Live(f), Next
    PROVE  [Channel!Next]_(Channel!vars)
<1> USE DEF Channel!Next, Channel!vars
<1>1. Counted(f) /\ SentOK(f) /\ AnsweredOK(f) /\ TakenOK(f) /\ (ok => InStep) /\ ok \in BOOLEAN
  BY Zenon DEF Live, Counted
<1>2. CASE UNCHANGED promise
  BY <1>2, Zenon DEF promise
<1>3. CASE ok' = FALSE /\ UNCHANGED <<wrote, taken, offered, got>>
  BY <1>1, <1>3, Zenon DEF Channel!Break
<1>4. CASE Timeout \/ ReceiveOther
  BY <1>2, <1>3, <1>4, Zenon DEF Timeout, ReceiveOther, Retry, Fail, promise
<1>5. CASE SocketError \/ ReceiveError
  BY <1>3, <1>5, Zenon DEF SocketError, ReceiveError, Fail
<1>6. CASE ReceiveInit
  BY <1>2, <1>3, <1>6, Zenon DEF ReceiveInit, Fail, promise
<1>7. CASE ReceivePart
  <2>1. PICK p \in toHost :
            Matches(p) /\ got' = (IF op = "read" /\ p.id # "error" THEN Append(got, p.data) ELSE got)
    BY <1>7, Zenon DEF ReceivePart
  <2>2. UNCHANGED <<wrote, taken, offered, ok>> /\ op # "idle"
    BY <1>7, Zenon DEF ReceivePart, Busy
  <2>3. CASE op = "read" /\ p.id # "error"
    <3>1. p = last /\ dseq # seq /\ p.id = "fastboot" /\ p.data \in Parts
      BY <2>1, <2>2, <2>3, AnswerIsLast, Zenon DEF Ids
    <3>2. ok => Append(got, p.data) = offered
      BY <1>1, <2>3, <3>1, Zenon DEF InStep
    <3> QED
      BY <2>1, <2>2, <2>3, <3>1, <3>2, Zenon DEF Channel!Get
  <2>4. CASE ~(op = "read" /\ p.id # "error")
    BY <1>2, <2>1, <2>2, <2>4, Zenon DEF promise
  <2> QED
    BY <2>3, <2>4, Zenon
<1>8. CASE ReceiveReply
  <2>1. PICK p \in toHost : Matches(p) /\ p.id = "fastboot" /\ got' = Append(got, p.data)
    BY <1>8, Zenon DEF ReceiveReply
  <2>2. UNCHANGED <<wrote, taken, offered, ok>> /\ op = "read"
    BY <1>8, Zenon DEF ReceiveReply
  <2>3. p = last /\ dseq # seq /\ p.data \in Parts
    BY <2>1, <2>2, AnswerIsLast, Zenon
  <2>4. ok => Append(got, p.data) = offered
    BY <1>1, <2>1, <2>2, <2>3, Zenon DEF InStep
  <2> QED
    BY <2>1, <2>2, <2>3, <2>4, Zenon DEF Channel!Get
<1>9. CASE ReceiveAck
  <2>1. PICK p \in toHost : Matches(p) /\ ~p.cont /\ p.id = "fastboot"
    BY <1>9, Zenon DEF ReceiveAck
  <2>2. UNCHANGED <<taken, offered, got, ok>> /\ op = "write" /\ wrote' = Append(wrote, <<nops, left>>)
    BY <1>9, Zenon DEF ReceiveAck
  <2>3. p = last /\ dseq # seq
    BY <2>1, <2>2, AnswerIsLast, Zenon
  <2>4. ok => Append(wrote, <<nops, left>>) = taken
    BY <1>1, <2>1, <2>2, <2>3, Zenon DEF InStep
  <2>5. <<nops, left>> \in Chunks
    <3>1. wrote' \in Seq(Chunks) /\ wrote \in Seq(Chunks)
      BY <1>1, <1>9, AckOK, ZenonT(60) DEF Live, TakenOK
    <3>2. wrote'[Len(wrote) + 1] = <<nops, left>> /\ Len(wrote') = Len(wrote) + 1
      BY <2>2, <3>1
    <3> QED
      BY <3>1, <3>2, SMTT(60)
  <2> QED
    BY <2>2, <2>4, <2>5, Zenon DEF Channel!Confirm
<1>10. CASE DevTake
  <2>1. PICK p \in toDev : p.id = "fastboot" /\ p.data # None /\ p.seq = dseq /\ taken' = Append(taken, p.data)
    BY <1>10, Zenon DEF DevTake
  <2>2. UNCHANGED <<wrote, offered, got, ok>>
    BY <1>10, Zenon DEF DevTake
  <2>3. dseq = seq /\ p.data \in Chunks
    BY <1>1, <2>1, ExpectedIsHosts, Zenon DEF Sent
  <2>4. ok => taken = wrote
    BY <1>1, <2>3, Zenon DEF InStep
  <2> QED
    BY <2>1, <2>2, <2>3, <2>4, Zenon DEF Channel!Take
<1>11. CASE DevGive
  <2>1. PICK p \in toDev, e \in BOOLEAN :
            /\ p.id \in {"fastboot", "error"} /\ p.seq = dseq
            /\ offered' = IF e THEN offered ELSE Append(offered, <<Len(offered) + 1>>)
    BY <1>11, Zenon DEF DevGive
  <2>2. UNCHANGED <<wrote, taken, got, ok>>
    BY <1>11, Zenon DEF DevGive
  <2>3. dseq = seq /\ Steps(f, dseq) \in 0 .. Numbers - 2 /\ Numbers \in Nat
    BY <1>1, <2>1, ExpectedIsHosts, LiveFacts, Zenon
  <2>4. ok => offered = got
    BY <1>1, <2>3, ZenonT(60) DEF InStep
  <2>5. <<Len(offered) + 1>> \in Parts
    <3>1. offered \in Seq(Parts) /\ Len(offered) <= Steps(f, dseq)
      BY <1>1, Zenon DEF TakenOK
    <3>2. Len(offered) \in Nat
      BY <3>1
    <3> QED
      BY <2>3, <3>1, <3>2 DEF Parts
  <2> QED
    BY <1>2, <2>1, <2>2, <2>4, <2>5, Zenon DEF Channel!Offer, promise
<1>12. CASE Connect \/ Write \/ Read \/ ReceiveQuery \/ DevQuery \/ DevInit
  BY <1>2, <1>12, Zenon DEF Connect, Write, Read, ReceiveQuery, DevQuery, DevInit
<1> QED
  BY <1>4, <1>5, <1>6, <1>7, <1>8, <1>9, <1>10, <1>11, <1>12, Zenon DEF Next

\* Until the transport is connected, a step is a stutter or a failure of the channel.
LEMMA BeforeRefines ==
    ASSUME NEW f, Before(f), Next
    PROVE  [Channel!Next]_(Channel!vars)
<1>1. CASE UNCHANGED promise
  BY <1>1, Zenon DEF promise, Channel!vars
<1>2. CASE ok' = FALSE /\ UNCHANGED <<wrote, taken, offered, got>>
  BY <1>2, Zenon DEF Channel!Next, Channel!Break
<1>3. UNCHANGED promise \/ (ok' = FALSE /\ UNCHANGED <<wrote, taken, offered, got>>)
  BY Zenon DEF Before, Next, Busy, Connect, Write, Read, Timeout, SocketError, ReceiveOther, ReceivePart,
         ReceiveError, ReceiveQuery, ReceiveInit, ReceiveAck, ReceiveReply, DevQuery, DevInit, DevTake,
         DevGive, Retry, Fail, promise
<1> QED
  BY <1>1, <1>2, <1>3, Zenon

\* Until an operation has failed, send_packet_with_ack delivers every chunk and
\* every part of a reply exactly once and in order: the transport implements
\* FastbootChannel.
THEOREM Reliable ==
    ASSUME UdpAssumption
    PROVE  Spec => IsReliableChannel
<1>1. Init => Channel!Init
  BY Zenon DEF Init, Channel!Init
<1>2. IInv /\ [Next]_vars => [Channel!Next]_(Channel!vars)
  <2> SUFFICES ASSUME IInv, [Next]_vars PROVE [Channel!Next]_(Channel!vars)
    BY Zenon
  <2>1. PICK f \in 0 .. Numbers - 1 : Before(f) \/ Shut \/ Live(f)
    BY Zenon DEF IInv
  <2>2. CASE Next
    BY <2>1, <2>2, BeforeRefines, ShutOK, LiveRefines, Zenon DEF promise, Channel!vars
  <2>3. CASE UNCHANGED vars
    BY <2>3, Zenon DEF vars, promise, Channel!vars
  <2> QED
    BY <2>2, <2>3, Zenon
<1> QED
  BY <1>1, <1>2, Invariance, PTL DEF Spec, IsReliableChannel, Channel!Spec
=============================================================================
