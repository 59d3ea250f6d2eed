----------------------------- MODULE ServerStart ----------------------------
(***************************************************************************)
(* How clients start, find and stop the adb server                         *)
(* (client/server_cmds.rs, client/host_command.rs, server/runner.rs).      *)
(* Several clients run at once.  Each probes the port, forks a daemon when *)
(* nobody answers, waits on a pipe for its "OK", and then connects;        *)
(* kill-server asks the daemon to stop and waits for the port to go away.  *)
(***************************************************************************)
EXTENDS Naturals, FiniteSets

CONSTANTS
    Clients,      \* client processes; each forks at most one daemon
    NoOne         \* no daemon

VARIABLES
    killers,      \* the clients that run kill-server; the others a host command
    pc,           \* client -> where it is
    daemon,       \* client -> the state of the daemon it forked
    pipe,         \* client -> what the read end of its pipe will give
    owner,        \* the client whose daemon has the port, or NoOne
    running,      \* the running flag of that daemon
    conn          \* client -> the daemon it is connected to, or NoOne

vars == <<killers, pc, daemon, pipe, owner, running, conn>>

Init ==
    /\ killers \in SUBSET Clients
    /\ pc = [c \in Clients |-> IF c \in killers THEN "dial" ELSE "connect"]
    /\ daemon = [c \in Clients |-> "none"]
    /\ pipe = [c \in Clients |-> "open"]
    /\ owner = NoOne /\ running = FALSE
    /\ conn = [c \in Clients |-> NoOne]

Go(c, p) == pc' = [pc EXCEPT ![c] = p]
Over(c) == pc[c] \in {"served", "failed", "killed"}

\* host_command_at tries the port once (pc "connect"); without an answer it
\* makes sure that a server runs and tries again ("again").
Connect(c) ==
    /\ pc[c] \in {"connect", "again"}
    /\ IF owner # NoOne
       THEN Go(c, "ask") /\ conn' = [conn EXCEPT ![c] = owner]
       ELSE Go(c, IF pc[c] = "connect" THEN "probe" ELSE "failed") /\ UNCHANGED conn
    /\ UNCHANGED <<daemon, pipe, owner, running>>

\* ensure_server_running_spec: the probe, then pipe and fork (which may fail).
Probe(c) ==
    /\ pc[c] = "probe"
    /\ Go(c, IF owner # NoOne THEN "again" ELSE "fork")
    /\ UNCHANGED <<daemon, pipe, owner, running, conn>>

Fork(c) ==
    /\ pc[c] = "fork"
    /\ \/ Go(c, "wait") /\ daemon' = [daemon EXCEPT ![c] = "starting"]
       \/ Go(c, "failed") /\ UNCHANGED daemon
    /\ UNCHANGED <<pipe, owner, running, conn>>

\* The daemon: it binds the port or exits, and says OK once it listens.  An
\* exit closes its end of the pipe.
Exit(c) == /\ daemon' = [daemon EXCEPT ![c] = "exited"]
           /\ pipe' = [pipe EXCEPT ![c] = IF pipe[c] = "OK" THEN "OK" ELSE "eof"]

Bind(c) ==
    /\ daemon[c] = "starting"
    /\ IF owner = NoOne
       THEN /\ owner' = c /\ running' = TRUE
            /\ daemon' = [daemon EXCEPT ![c] = "bound"] /\ UNCHANGED pipe
       ELSE Exit(c) /\ UNCHANGED <<owner, running>>
    /\ UNCHANGED <<pc, conn>>

SayOk(c) ==
    /\ daemon[c] = "bound"
    /\ daemon' = [daemon EXCEPT ![c] = "accepting"]
    /\ pipe' = [pipe EXCEPT ![c] = "OK"]
    /\ UNCHANGED <<pc, owner, running, conn>>

\* The accept loop ends when host:kill cleared the flag; the process exits and
\* the port and all connections go with it.
ShutDown(c) ==
    /\ daemon[c] = "accepting" /\ ~running /\ owner = c
    /\ Exit(c) /\ owner' = NoOne
    /\ conn' = [k \in Clients |-> IF conn[k] = c THEN NoOne ELSE conn[k]]
    /\ UNCHANGED <<pc, running>>

\* The parent reads the pipe: three bytes or the end of it.
Wait(c) ==
    /\ pc[c] = "wait" /\ pipe[c] # "open"
    /\ Go(c, IF pipe[c] = "OK" THEN "again" ELSE "failed")
    /\ UNCHANGED <<daemon, pipe, owner, running, conn>>

\* The command itself: answered by an accepting daemon, or the connection is
\* gone.
Ask(c) ==
    /\ pc[c] = "ask"
    /\ \/ conn[c] = NoOne /\ Go(c, "failed")
       \/ conn[c] # NoOne /\ daemon[conn[c]] = "accepting" /\ Go(c, "served")
    /\ UNCHANGED <<daemon, pipe, owner, running, conn>>

\* kill_server_at: nothing to do without a server; host:kill clears the flag
\* and the client watches the port, for three seconds at most.
Dial(c) ==
    /\ pc[c] = "dial"
    /\ IF owner = NoOne THEN Go(c, "killed") /\ UNCHANGED conn
       ELSE Go(c, "kill") /\ conn' = [conn EXCEPT ![c] = owner]
    /\ UNCHANGED <<daemon, pipe, owner, running>>

Kill(c) ==
    /\ pc[c] = "kill"
    /\ \/ conn[c] = NoOne /\ UNCHANGED running
       \/ conn[c] # NoOne /\ daemon[conn[c]] = "accepting" /\ running' = FALSE
    /\ Go(c, "watch")
    /\ UNCHANGED <<daemon, pipe, owner, conn>>

Watch(c) ==
    /\ pc[c] = "watch"
    /\ Go(c, "killed")
    /\ UNCHANGED <<daemon, pipe, owner, running, conn>>

Client(c) ==
    \/ Connect(c) \/ Probe(c) \/ Fork(c) \/ Wait(c) \/ Ask(c)
    \/ Dial(c) \/ Kill(c) \/ Watch(c)
Daemon(c) == Bind(c) \/ SayOk(c) \/ ShutDown(c)

Finished == (\A c \in Clients : Over(c)) /\ UNCHANGED vars
Step(c) == (Client(c) \/ Daemon(c)) /\ UNCHANGED killers
Next == (\E c \in Clients : Step(c)) \/ Finished

\* Every process keeps being scheduled; sleeps and timeouts end.
Fairness == \A c \in Clients : WF_vars(Client(c) /\ UNCHANGED killers) /\ WF_vars(Daemon(c) /\ UNCHANGED killers)
Spec == Init /\ [][Next]_vars /\ Fairness
-----------------------------------------------------------------------------
\* Whatever daemons lose the race for the port or are killed meanwhile, every
\* client ends: the parent sees the end of its pipe, a connection to a daemon
\* that exits is noticed, and kill-server does not wait for ever.
ClientsReturn == \A c \in Clients : <>Over(c)
=============================================================================
