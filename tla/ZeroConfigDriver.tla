-------------------------- MODULE ZeroConfigDriver --------------------------
(* The threads around the mDNS engine: the netlink watcher that notices links *)
(* coming up, the debouncer behind it, the channel with its wake-up socket,   *)
(* and the driver that polls edge-triggered and restarts on a command.        *)
(* What the engine does in an iteration is module ZeroConfig; here it is the  *)
(* step Tick, and its on_stop the step OnStop.                                *)
EXTENDS Integers, Sequences

CONSTANTS Links,      \* network interfaces
          Wireless,   \* those the watcher looks at
          Capacity,   \* of the command channel
          MaxPending, \* bound on calls waiting in the debouncer
          MaxNetlink  \* bound on netlink messages waiting

VARIABLES link,       \* what the kernel says of each interface
          netlink,    \* link messages waiting for the watcher
          watcher,    \* "listen", "sleep"
          flags,      \* flags_state of the watcher
          pending,    \* calls waiting for the debouncer
          debouncer,  \* "idle", "armed", or inside its callback: "put", "byte"
          channel,    \* Restart commands in the channel
          unread,     \* a wake-up byte waits in the driver's socket
          edge,       \* readiness that poll has not reported yet
          driver,     \* "sleep", "poll", "drain", "recv", "tick", "stop"
          running,
          owed        \* what one call for a link that came up still has to bring about:
                      \* "flush", then "sockets", then "no" (any call may be the one followed)

vars == <<link, netlink, watcher, flags, pending, debouncer, channel, unread, edge,
          driver, running, owed>>
network == <<link, netlink, watcher, flags>>
queue   == <<channel, unread, edge>>

Init == /\ link = [l \in Links |-> "down"] /\ netlink = <<>>
        /\ watcher = "listen" /\ flags = [l \in Links |-> "empty"]
        /\ pending = 0 /\ debouncer = "idle"
        /\ channel = 0 /\ unread = FALSE /\ edge = FALSE
        /\ driver = "sleep" /\ running = TRUE /\ owed = "no"

-----------------------------------------------------------------------------
(* The kernel announces a change, and now and then what has not changed; a    *)
(* watcher without a socket misses it.                                        *)
Announce(l, state) ==
  /\ Len(netlink) < MaxNetlink
  /\ link' = [link EXCEPT ![l] = state]
  /\ netlink' = IF watcher = "listen" THEN Append(netlink, <<l, state>>) ELSE netlink
  /\ UNCHANGED <<watcher, flags, pending, debouncer, queue, driver, running, owed>>

(* handle_result: the debounced callback is called when a wireless interface  *)
(* gains IFF_RUNNING against the shadow of its flags.                         *)
HandleResult ==
  /\ watcher = "listen" /\ netlink # <<>>
  /\ LET l == netlink[1][1]
         new == netlink[1][2]
         changed == l \in Wireless /\ flags[l] # new
         call == changed /\ new = "up"
     IN /\ flags' = IF changed THEN [flags EXCEPT ![l] = new] ELSE flags
        /\ call => pending < MaxPending
        /\ pending' = IF call THEN pending + 1 ELSE pending
        /\ owed' \in IF call /\ owed = "no" THEN {"no", "flush"} ELSE {owed}
  /\ netlink' = Tail(netlink)
  /\ UNCHANGED <<link, watcher, debouncer, queue, driver, running>>

(* listen ends with an error: socket and shadow flags are gone.               *)
ListenError ==
  /\ watcher = "listen"
  /\ watcher' = "sleep" /\ netlink' = <<>> /\ flags' = [l \in Links |-> "empty"]
  /\ UNCHANGED <<link, pending, debouncer, queue, driver, running, owed>>

ListenAgain ==
  /\ watcher = "sleep" /\ watcher' = "listen"
  /\ UNCHANGED <<link, netlink, flags, pending, debouncer, queue, driver, running, owed>>

-----------------------------------------------------------------------------
(* new_debouncer: the first call arms, further calls within the cut-off are   *)
(* swallowed until the maximal delay; silence triggers.                       *)
Arm ==
  /\ debouncer = "idle" /\ pending > 0
  /\ debouncer' = "armed" /\ pending' = pending - 1
  /\ UNCHANGED <<network, queue, driver, running, owed>>

Debounce(trigger) ==
  /\ debouncer = "armed" /\ pending > 0
  /\ pending' = pending - 1
  /\ debouncer' = IF trigger THEN "put" ELSE "armed"
  /\ UNCHANGED <<network, queue, driver, running, owed>>

CutOff ==
  /\ debouncer = "armed" /\ pending = 0
  /\ debouncer' = "put"
  /\ UNCHANGED <<network, pending, queue, driver, running, owed>>

(* Defective form of Send: the wake-up byte goes before the command.          *)
PutByteFirst ==
  /\ debouncer = "put"
  /\ unread' = TRUE /\ edge' = TRUE /\ debouncer' = "byte"
  /\ UNCHANGED <<network, pending, channel, driver, running, owed>>
WakeThenPut ==
  /\ debouncer = "byte" /\ channel < Capacity
  /\ channel' = channel + 1 /\ debouncer' = "idle"
  /\ UNCHANGED <<network, pending, unread, edge, driver, running, owed>>

(* ZeroConfigDriverChannelSender::send: the command first, blocking while the *)
(* channel is full, then the byte.                                            *)
Put ==
  /\ debouncer = "put" /\ channel < Capacity
  /\ channel' = channel + 1 /\ debouncer' = "byte"
  /\ UNCHANGED <<network, pending, unread, edge, driver, running, owed>>
Wake ==
  /\ debouncer = "byte"
  /\ unread' = TRUE /\ edge' = TRUE /\ debouncer' = "idle"
  /\ UNCHANGED <<network, pending, channel, driver, running, owed>>
Send == Put \/ Wake

-----------------------------------------------------------------------------
(* run_forever, run: sockets for every interface that is up, on_start. A      *)
(* socket that cannot be registered ends the run again.                       *)
RunStart(registered) ==
  /\ driver = "sleep"
  /\ running' = TRUE
  /\ driver' = IF registered THEN "poll" ELSE "sleep"
  /\ owed' = IF owed = "sockets" THEN "no" ELSE owed
  /\ UNCHANGED <<network, pending, debouncer, queue>>

(* poll reports each edge once; without one it returns after the timeout, or  *)
(* for packets on the other sockets.                                          *)
Poll ==
  /\ driver = "poll"
  /\ driver' = IF edge THEN "drain" ELSE "tick"
  /\ edge' = FALSE
  /\ UNCHANGED <<network, pending, debouncer, channel, unread, running, owed>>

PollError ==
  /\ driver = "poll" /\ driver' = "sleep"
  /\ UNCHANGED <<network, pending, debouncer, queue, running, owed>>

(* ZeroConfigDriverChannelReceiver::recv: the socket, then the channel.       *)
DrainSocket ==
  /\ driver = "drain" /\ driver' = "recv"
  /\ unread' = FALSE
  /\ UNCHANGED <<network, pending, debouncer, channel, edge, running, owed>>

DrainChannel ==
  /\ driver = "recv" /\ driver' = "tick"
  /\ channel' = 0
  /\ running' = (running /\ channel = 0)
  /\ UNCHANGED <<network, pending, debouncer, unread, edge, owed>>

Tick ==
  /\ driver = "tick"
  /\ driver' = IF running THEN "poll" ELSE "stop"
  /\ UNCHANGED <<network, pending, debouncer, queue, running, owed>>

OnStop ==
  /\ driver = "stop" /\ driver' = "sleep"
  /\ owed' = IF owed = "flush" THEN "sockets" ELSE owed
  /\ UNCHANGED <<network, pending, debouncer, queue, running>>

DriverStep == RunStart(TRUE) \/ Poll \/ DrainSocket \/ DrainChannel \/ Tick \/ OnStop
DebouncerStep == Arm \/ Debounce(TRUE) \/ CutOff \/ Send

Next == \/ \E l \in Links, state \in {"down", "up"} : Announce(l, state)
        \/ HandleResult \/ ListenError \/ ListenAgain
        \/ Arm \/ Debounce(TRUE) \/ Debounce(FALSE) \/ CutOff \/ Send
        \/ RunStart(TRUE) \/ RunStart(FALSE)
        \/ Poll \/ PollError \/ DrainSocket \/ DrainChannel \/ Tick \/ OnStop

(* A link that came up is followed by a flush of the cache and by new sockets,*)
(* whatever calls the debouncer swallowed and however runs fail in between,   *)
(* and although poll is edge-triggered and reports the byte that follows a    *)
(* command once.                                                              *)
TopologyHandled == owed # "no" ~> owed = "no"
=============================================================================
