------------------------------- MODULE MCMdns -------------------------------
(* The four machines of mDNS discovery, one of which runs in each behaviour:  *)
(* the engine, its heap, the threads around it, and the server's manager.     *)
EXTENDS Mdns, TLC

CONSTANTS s1, s2, h1, a1, a2,
          w1, e1,         \* a wireless link and another
          n1, n2, n3,     \* instances
          k1, k2, k3, k4  \* keys of the heap

VARIABLES which,
          pq, wanted, popped,
          link, netlink, watcher, flags, pending, debouncer, channel, unread, edge,
          driver, running, owed

engine  == vars
heap    == <<pq, wanted, popped>>
threads == <<link, netlink, watcher, flags, pending, debouncer, channel, unread, edge,
             driver, running, owed>>
manager == <<flag, thread, joining, cache, registry, told>>
all     == <<which, engine, heap, threads, manager>>

H == INSTANCE IndexMinPQ WITH Keys <- {k1, k2, k3, k4}, Deadlines <- 1..3
D == INSTANCE ZeroConfigDriver WITH Links <- {w1, e1}, Wireless <- {w1}, Capacity <- 1,
       MaxPending <- 2, MaxNetlink <- 1

MCInstanceType == (n1 :> "Classic") @@ (n2 :> "TlsConnect") @@ (n3 :> "TlsConnect")
MCInstanceSerial == (n1 :> {"S"}) @@ (n2 :> {"S"}) @@ (n3 :> {"T"})
MCTypeOf == (s1 :> "_adb._tcp") @@ (s2 :> "_http._tcp")
Rec(data, ttl) == [data |-> data, ttl |-> ttl]
Announce(s, port) == (PTR(s) :> Rec(<<>>, 20)) @@ (SRV(s) :> Rec(<<h1, port>>, 20))
                       @@ (TXT(s) :> Rec(<<"t", "txt">>, 20))
Address(a, ttl) == A(h1, a) :> Rec(<<>>, ttl)
Response(records) == [questions |-> {}, records |-> records]
MCPackets == {Response(None),
              Response(Announce(s1, 1) @@ Address(a1, 20)),
              Response((SRV(s1) :> Rec(<<h1, 2>>, 20)) @@ Address(a2, 20)),
              Response((PTR(s1) :> Rec(<<>>, 0)) @@ Announce(s2, 1)),
              [questions |-> Tracked, records |-> None]}

-----------------------------------------------------------------------------
MCInit == /\ which \in {"engine", "heap", "threads", "manager"}
          /\ Init /\ H!Init /\ D!Init /\ M!Init
MCNext == /\ UNCHANGED which
          /\ \/ which = "engine"  /\ Next   /\ UNCHANGED <<heap, threads, manager>>
             \/ which = "heap"    /\ H!Next /\ UNCHANGED <<engine, threads, manager>>
             \/ which = "threads" /\ D!Next /\ UNCHANGED <<engine, heap, manager>>
             \/ which = "manager" /\ M!Next /\ UNCHANGED <<engine, heap, threads>>

(* Fairness of the machine that runs: ZeroConfig!Fairness for the engine; the *)
(* debouncer and the driver are threads of their own, and a poll that fails   *)
(* now and then does not always fail; the manager's thread is one too.        *)
MCFairness == /\ []<>(which # "engine" \/ turn = 0) /\ []<>(which # "engine" \/ turn = 1)
              /\ WF_threads(which = "threads" /\ D!DebouncerStep)
              /\ WF_threads(which = "threads" /\ D!DriverStep)
              /\ SF_threads(which = "threads" /\ D!Poll)
              /\ WF_manager(which = "manager" /\ M!Threads)
MCSpec == MCInit /\ [][MCNext]_all /\ MCFairness

(* The indexed queue: it holds each wanted item once, where its index says, and *)
(* the first one has the earliest deadline, see IndexMinPQ.                     *)
HeapIsSound == H!HeapIsSound

(* What must happen does: a record that is not heard again is forgotten, a    *)
(* link that came up gets its flush and its sockets, and stop_discovery       *)
(* returns.                                                                   *)
MdnsMovesOn ==
    /\ which = "engine" => Forgotten
    /\ which = "threads" => D!TopologyHandled
    /\ which = "manager" => M!StopReturns
=============================================================================
