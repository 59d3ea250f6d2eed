---------------------------- MODULE ForwardTable ----------------------------
(***************************************************************************)
(* The server's forward and reverse tables (server/forward.rs): the        *)
(* host:forward and host:reverse services change them under the registry   *)
(* lock, and every TCP forward has a listener thread of its own that polls *)
(* its port and the rule's active flag.  What a forwarded connection does  *)
(* then is in Relays.  The order of the rules, which only a listing shows, *)
(* is left out.                                                            *)
(***************************************************************************)
EXTENDS Naturals, Sequences, FiniteSets

CONSTANTS
    MaxPort,      \* TCP ports are 1..MaxPort; 0 asks for any free one
    Named,        \* local specs that are no TCP port
    Remotes,      \* remote specs
    MaxRequests   \* bound on the requests of one behaviour

VARIABLES
    forwards,     \* the rules: set of [local, remote, id]
    reverses,     \* the reverse rules: set of [remote, local]
    listeners,    \* the listener threads, by rule id
    requests      \* requests handled so far

vars == <<forwards, reverses, listeners, requests>>

Ports == 1..MaxPort
Ids == DOMAIN listeners
Bound(p) == \E i \in Ids : listeners[i].port = p /\ listeners[i].at # "closed"

Init == forwards = {} /\ reverses = {} /\ listeners = <<>> /\ requests = 0

Locals == {f.local : f \in forwards}

\* retain and clear the flags of what goes
Without(local) == {f \in forwards : f.local # local}
Silence(ls, gone) == [i \in DOMAIN ls |-> IF i \in gone THEN [ls[i] EXCEPT !.active = FALSE]
                                          ELSE ls[i]]
IdsOf(local) == {f.id : f \in {g \in forwards : g.local = local}}

Requested == requests < MaxRequests /\ requests' = requests + 1

\* add_forward: the listener is bound first, then the table is looked at; the
\* rule a local spec already has is replaced unless no_rebind was given.
add_forward(local, remote, no_rebind) ==
    LET id == Len(listeners) + 1
        rule == [local |-> local, remote |-> remote, id |-> id]
        at == IF local \in Ports THEN "check" ELSE "closed"
    IN  IF (local \in Ports /\ Bound(local)) \/ (no_rebind /\ local \in Locals)
        THEN UNCHANGED <<forwards, listeners>>
        ELSE /\ forwards' = Without(local) \cup {rule}
             /\ listeners' = Append(Silence(listeners, IdsOf(local)),
                    [port |-> local, active |-> TRUE, at |-> at, remote |-> remote,
                     waiting |-> 0, late |-> 0])

AddForward ==
    /\ Requested
    /\ \E local \in (0..MaxPort) \cup Named, remote \in Remotes, no_rebind \in BOOLEAN :
          IF local = 0
          THEN \E p \in Ports : ~Bound(p) /\ add_forward(p, remote, no_rebind)
          ELSE add_forward(local, remote, no_rebind)
    /\ UNCHANGED reverses

\* Mutant: the rule goes and its listener stays.
RemoveForwardQuietly ==
    /\ Requested
    /\ \E local \in Ports \cup Named :
          forwards' = Without(local) /\ UNCHANGED listeners
    /\ UNCHANGED reverses

RemoveForward ==
    /\ Requested
    /\ \E local \in Ports \cup Named :
          /\ forwards' = Without(local)
          /\ listeners' = Silence(listeners, IdsOf(local))
    /\ UNCHANGED reverses

RemoveAllForwards ==
    /\ Requested
    /\ forwards' = {}
    /\ listeners' = Silence(listeners, {f.id : f \in forwards})
    /\ UNCHANGED reverses

add_reverse(remote, local, no_rebind) ==
    IF no_rebind /\ \E r \in reverses : r.remote = remote
    THEN UNCHANGED reverses
    ELSE reverses' = {r \in reverses : r.remote # remote} \cup {[remote |-> remote, local |-> local]}

AddReverse ==
    /\ Requested
    /\ \E remote \in Remotes, local \in Ports, no_rebind \in BOOLEAN :
          add_reverse(remote, local, no_rebind)
    /\ UNCHANGED <<forwards, listeners>>

RemoveReverse ==
    /\ Requested
    /\ \E remote \in Remotes : reverses' = {r \in reverses : r.remote # remote}
    /\ UNCHANGED <<forwards, listeners>>

RemoveAllReverses ==
    /\ Requested
    /\ reverses' = {}
    /\ UNCHANGED <<forwards, listeners>>

\* run_forward_listener: the flag is read, then one connection is accepted or
\* the thread sleeps; without the flag the listener is dropped, and what was
\* waiting in it is reset.
Check(i) ==
    /\ listeners[i].at = "check"
    /\ listeners' = [listeners EXCEPT ![i].at = IF listeners[i].active THEN "accept" ELSE "closed",
                                      ![i].waiting = IF listeners[i].active THEN @ ELSE 0]
    /\ UNCHANGED <<forwards, reverses, requests>>

Accept(i) ==
    /\ listeners[i].at = "accept"
    /\ LET l == listeners[i]
           taken == IF l.waiting > 0 THEN 1 ELSE 0
       IN  listeners' = [listeners EXCEPT ![i].at = "check", ![i].waiting = @ - taken,
                             ![i].late = @ + (IF l.active THEN 0 ELSE taken)]
    /\ UNCHANGED <<forwards, reverses, requests>>

\* A program connects to the port.
Dial(i) ==
    /\ listeners[i].at # "closed" /\ listeners[i].waiting < 2
    /\ listeners' = [listeners EXCEPT ![i].waiting = @ + 1]
    /\ UNCHANGED <<forwards, reverses, requests>>

handle_forward == AddForward \/ RemoveForward \/ RemoveAllForwards
handle_reverse == AddReverse \/ RemoveReverse \/ RemoveAllReverses
Listener(i) == i \in Ids /\ (Check(i) \/ Accept(i))
Next == handle_forward \/ handle_reverse \/ (\E i \in Ids : Listener(i) \/ Dial(i))

\* The listener threads keep running.
Fairness == \A i \in 1..MaxRequests : WF_vars(Listener(i))
Spec == Init /\ [][Next]_vars /\ Fairness
-----------------------------------------------------------------------------
\* Whatever is added, rebound and removed while listeners run, no two rules
\* share a local spec (a remote spec, for reverse rules), every TCP rule in the
\* table has the one active listener of its port and that listener carries its
\* remote, no listener without a rule is active, and one without lets at most
\* one more connection through.
RulesAreServed ==
    /\ \A f, g \in forwards : f.local = g.local => f = g
    /\ \A r, q \in reverses : r.remote = q.remote => r = q
    /\ \A f \in forwards : LET l == listeners[f.id] IN
          /\ l.active /\ l.remote = f.remote /\ l.port = f.local
          /\ l.port \in Ports => l.at # "closed"
    /\ \A i \in Ids : listeners[i].active => \E f \in forwards : f.id = i
    /\ \A i \in Ids : listeners[i].late <= 1

\* The port of a rule that was removed or replaced comes free, however many
\* programs keep connecting to it.
PortComesFree ==
    \A i \in 1..MaxRequests :
        (i \in Ids /\ ~listeners[i].active) ~> (i \in Ids /\ listeners[i].at = "closed")
=============================================================================
