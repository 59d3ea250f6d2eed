--------------------------- MODULE ReconnectHandler ---------------------------
(***************************************************************************)
(* The reconnect queue of server/transport.rs: threads that call           *)
(* add_transport, kick_transport, transport_unref, clear_queue and stop,   *)
(* and the background thread that polls the queue.  The queue and the      *)
(* reference counts have a mutex each.  A call that needs both takes two   *)
(* steps, and holds its first mutex from the first step to the second.     *)
(*                                                                         *)
(* Time is abstract: an entry is `due` once its next_attempt has passed.   *)
(* The clock is read in the step that locks the queue.                     *)
(***************************************************************************)
EXTENDS Integers, Sequences, FiniteSets

CONSTANTS
    Serials,     \* transports
    Clients,     \* threads that use the handler
    MaxRetries,  \* ReconnectConfig.max_retries, 0 for unlimited
    MaxRefs      \* bound: references to one transport

ASSUME ReconnectAssumption == MaxRetries \in Nat /\ MaxRefs \in Nat

VARIABLES
    queue,       \* the Vec of ReconnectEntry
    ref_counts,  \* references per transport, 0 for no entry in the map
    client,      \* the call a thread is in while it holds a mutex
    poller,      \* the background thread and what is left of its snapshot
    shutdown

vars == <<queue, ref_counts, client, poller, shutdown>>

Entry == [serial : Serials, retry_count : Nat, kicked : BOOLEAN, due : BOOLEAN]

\* The one type invariant of the module.  It also says that no reference count
\* goes below zero (an unsigned subtraction in the code).
TypeOK ==
    /\ queue \in Seq(Entry)
    /\ ref_counts \in [Serials -> Nat]
    /\ client \in [Clients -> [op : {"idle", "clear"}]
                              \cup [op : {"add", "unref"}, serial : Serials]]
    /\ poller \in [pc : {"sleep", "work", "connecting", "done"}, work : Seq(Nat \X Entry)]
    /\ shutdown \in BOOLEAN

Init ==
    /\ queue = <<>>
    /\ ref_counts = [s \in Serials |-> 0]
    /\ client = [c \in Clients |-> [op |-> "idle"]]
    /\ poller = [pc |-> "sleep", work |-> <<>>]
    /\ shutdown = FALSE

\* The two mutexes: who holds them follows from where the clients are.
QueueFree == \A c \in Clients : client[c].op \notin {"add", "clear"}
CountsFree == \A c \in Clients : client[c].op # "unref"

Calls(c, call) == client[c].op = "idle" /\ client' = [client EXCEPT ![c] = call]
Returns(c) == client' = [client EXCEPT ![c] = [op |-> "idle"]]

Queued(s) == \E i \in DOMAIN queue : queue[i].serial = s

\* The k-th position of a set of positions, and the entries that a retain or a
\* filter leaves, in order.
Nth(S, k) == CHOOSE p \in S : Cardinality({j \in S : j <= p}) = k
Kept(q, keep) == [k \in 1 .. Cardinality(keep) |-> q[Nth(keep, k)]]

Without(s) == Kept(queue, {i \in DOMAIN queue : queue[i].serial # s})

-----------------------------------------------------------------------------
(* The calls *)

AddLock(c, s) ==
    /\ QueueFree
    /\ ref_counts[s] < MaxRefs
    /\ Calls(c, [op |-> "add", serial |-> s])
    /\ UNCHANGED <<queue, ref_counts, poller, shutdown>>

\* Defective form: pushes without looking for the entry.
AddAlwaysPushes(c) ==
    /\ client[c].op = "add"
    /\ CountsFree
    /\ LET s == client[c].serial
       IN /\ queue' = Append(queue, [serial |-> s, retry_count |-> 0, kicked |-> FALSE, due |-> TRUE])
          /\ ref_counts' = [ref_counts EXCEPT ![s] = @ + 1]
    /\ Returns(c)
    /\ UNCHANGED <<poller, shutdown>>

\* An entry that is queued is reset, otherwise one is pushed; either way the
\* reference count grows.
AddFinish(c) ==
    /\ client[c].op = "add"
    /\ CountsFree
    /\ LET s == client[c].serial
           new == [serial |-> s, retry_count |-> 0, kicked |-> FALSE, due |-> TRUE]
       IN /\ queue' = IF Queued(s)
                        THEN [i \in DOMAIN queue |-> IF queue[i].serial = s THEN new ELSE queue[i]]
                        ELSE Append(queue, new)
          /\ ref_counts' = [ref_counts EXCEPT ![s] = @ + 1]
    /\ Returns(c)
    /\ UNCHANGED <<poller, shutdown>>

Kick(c, s) ==
    /\ client[c].op = "idle" /\ QueueFree
    /\ Queued(s)
    /\ queue' = [i \in DOMAIN queue |->
                    IF queue[i].serial = s THEN [queue[i] EXCEPT !.kicked = TRUE] ELSE queue[i]]
    /\ UNCHANGED <<ref_counts, client, poller, shutdown>>

\* Not the last reference: the queue is left alone.
Unref(c, s) ==
    /\ client[c].op = "idle" /\ CountsFree
    /\ ref_counts[s] > 1
    /\ ref_counts' = [ref_counts EXCEPT ![s] = @ - 1]
    /\ UNCHANGED <<queue, client, poller, shutdown>>

\* The last reference: the queue is locked while the counts are.
UnrefLock(c, s) ==
    /\ CountsFree
    /\ ref_counts[s] = 1
    /\ Calls(c, [op |-> "unref", serial |-> s])
    /\ UNCHANGED <<queue, ref_counts, poller, shutdown>>

UnrefFinish(c) ==
    /\ client[c].op = "unref"
    /\ QueueFree
    /\ queue' = Without(client[c].serial)
    /\ ref_counts' = [ref_counts EXCEPT ![client[c].serial] = 0]
    /\ Returns(c)
    /\ UNCHANGED <<poller, shutdown>>

ClearLock(c) ==
    /\ QueueFree
    /\ Calls(c, [op |-> "clear"])
    /\ UNCHANGED <<queue, ref_counts, poller, shutdown>>

ClearFinish(c) ==
    /\ client[c].op = "clear"
    /\ CountsFree
    /\ queue' = <<>>
    /\ ref_counts' = [s \in Serials |-> 0]
    /\ Returns(c)
    /\ UNCHANGED <<poller, shutdown>>

\* stop() sets the flag and joins the background thread.
Stop ==
    /\ ~shutdown
    /\ shutdown' = TRUE
    /\ UNCHANGED <<queue, ref_counts, client, poller>>

-----------------------------------------------------------------------------
(* The background thread *)

\* swap_remove of every kicked entry, from the front: the n entries that stay
\* end up in positions 1 .. n, those beyond n filling the gaps, last one first.
Swept(q) ==
    LET live == {i \in DOMAIN q : ~q[i].kicked}
        n == Cardinality(live)
    IN  [i \in 1 .. n |->
            IF i \in live THEN q[i]
            ELSE q[Nth(live, n + 1 - Cardinality((1 .. i) \ live))]]

\* The entries to retry, with their positions.
Ready(q) ==
    Kept([i \in DOMAIN q |-> <<i, q[i]>>], {i \in DOMAIN q : q[i].due})

Poll ==
    /\ poller.pc = "sleep" /\ ~shutdown
    /\ QueueFree
    /\ queue' = Swept(queue)
    /\ poller' = [pc |-> IF Ready(Swept(queue)) = <<>> THEN "sleep" ELSE "work",
                  work |-> Ready(Swept(queue))]
    /\ UNCHANGED <<ref_counts, client, shutdown>>

\* On to the next entry of the snapshot, or back to sleep.
Advance ==
    poller' = [pc |-> IF Len(poller.work) = 1 THEN "sleep" ELSE "work", work |-> Tail(poller.work)]

Current == Head(poller.work)[2]

Exhausted == MaxRetries > 0 /\ Current.retry_count >= MaxRetries

GiveUp ==
    /\ poller.pc = "work" /\ Exhausted
    /\ QueueFree
    /\ queue' = Without(Current.serial)
    /\ Advance
    /\ UNCHANGED <<ref_counts, client, shutdown>>

\* connect_to_remote runs without a lock.
Attempt ==
    /\ poller.pc = "work" /\ ~Exhausted
    /\ poller' = [poller EXCEPT !.pc = "connecting"]
    /\ UNCHANGED <<queue, ref_counts, client, shutdown>>

ConnectOk ==
    /\ poller.pc = "connecting"
    /\ QueueFree
    /\ queue' = Without(Current.serial)
    /\ Advance
    /\ UNCHANGED <<ref_counts, client, shutdown>>

\* Defective form: the failure is not counted.
ErrNotCounted ==
    /\ poller.pc = "connecting"
    /\ QueueFree
    /\ LET idx == Head(poller.work)[1]
       IN queue' = IF idx \in DOMAIN queue /\ queue[idx].serial = Current.serial
                     THEN [queue EXCEPT ![idx].due = FALSE]
                     ELSE queue
    /\ Advance
    /\ UNCHANGED <<ref_counts, client, shutdown>>

\* The failure is recorded if the entry is still where the snapshot saw it.
ConnectErr ==
    /\ poller.pc = "connecting"
    /\ QueueFree
    /\ LET idx == Head(poller.work)[1]
       IN queue' = IF idx \in DOMAIN queue /\ queue[idx].serial = Current.serial
                     THEN [queue EXCEPT ![idx].retry_count = Current.retry_count + 1,
                                        ![idx].due = FALSE]
                     ELSE queue
    /\ Advance
    /\ UNCHANGED <<ref_counts, client, shutdown>>

\* The back-off of an entry ends.
Elapse(s) ==
    /\ \E i \in DOMAIN queue : queue[i].serial = s /\ ~queue[i].due
    /\ queue' = [i \in DOMAIN queue |->
                    IF queue[i].serial = s THEN [queue[i] EXCEPT !.due = TRUE] ELSE queue[i]]
    /\ UNCHANGED <<ref_counts, client, poller, shutdown>>

Exit ==
    /\ poller.pc = "sleep" /\ shutdown
    /\ poller' = [poller EXCEPT !.pc = "done"]
    /\ UNCHANGED <<queue, ref_counts, client, shutdown>>

-----------------------------------------------------------------------------

ClientStep(c) ==
    \/ \E s \in Serials : AddLock(c, s) \/ Kick(c, s) \/ Unref(c, s) \/ UnrefLock(c, s)
    \/ AddFinish(c) \/ UnrefFinish(c) \/ ClearLock(c) \/ ClearFinish(c)

PollerStep == Poll \/ GiveUp \/ Attempt \/ ConnectOk \/ ConnectErr \/ Exit

Next ==
    \/ \E c \in Clients : ClientStep(c)
    \/ Stop
    \/ PollerStep
    \/ \E s \in Serials : Elapse(s)

Spec == Init /\ [][Next]_vars

\* A thread that can get the mutex it waits for gets it, the background thread
\* goes on, every connection attempt ends and every back-off ends.
Fairness ==
    /\ \A c \in Clients : SF_vars(AddFinish(c)) /\ SF_vars(UnrefFinish(c)) /\ SF_vars(ClearFinish(c))
    /\ SF_vars(Poll) /\ SF_vars(GiveUp) /\ WF_vars(Attempt) /\ WF_vars(Exit)
    /\ SF_vars(ConnectOk \/ ConnectErr)
    /\ \A s \in Serials : WF_vars(Elapse(s))

FairSpec == Spec /\ Fairness

-----------------------------------------------------------------------------
(* Properties *)

\* The queue and the reference counts agree.  A transport is in the queue at
\* most once, so that find and retain agree on what an entry is, through every
\* push, sweep and in-place update; and what is queued is referenced: the last
\* transport_unref and clear_queue take the entry out together with the count,
\* and nothing puts it back.
QueueIsSound ==
    /\ \A i, j \in DOMAIN queue : queue[i].serial = queue[j].serial => i = j
    /\ \A i \in DOMAIN queue : ref_counts[queue[i].serial] > 0

\* "When the count reaches zero, the transport is removed from the queue": the
\* call that drops the last reference gets to do so and returns.
UnrefReturns ==
    \A c \in Clients : client[c].op = "unref" ~> client[c].op = "idle"

\* The background thread does its work.  "the entry is removed from the queue on
\* the next poll cycle": a kicked entry does not stay, unless it is added again.
\* Retrying ends: once nothing is added any more, every transport has been
\* reconnected or given up on, and the queue stays empty.  And stop() returns.
PollerWorks ==
    /\ \A s \in Serials :
          (\E i \in DOMAIN queue : queue[i].serial = s /\ queue[i].kicked)
              ~> \/ shutdown
                 \/ ~\E i \in DOMAIN queue : queue[i].serial = s /\ queue[i].kicked
    /\ MaxRetries > 0 =>
          (<>[](~shutdown /\ \A c \in Clients : client[c].op # "add") => <>[](queue = <<>>))
    /\ shutdown ~> poller.pc = "done"
===============================================================================
