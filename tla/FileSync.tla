------------------------------ MODULE FileSync ------------------------------
(* adb push and pull over the sync service, on a stream of its own ("direct",  *)
(* every message a WRTE frame that is acknowledged) or through the server     *)
(* ("server", plain bytes).  Files change under the client's hands, and the   *)
(* device may refuse a file before it has received all of it.                 *)
EXTENDS Integers, Sequences, SequencesExt, FiniteSets

CONSTANTS
    Kinds,     \* calls: [op |-> "push" | "pull", via, many, sync, preserve, slash]
    MaxCalls,  \* bound on calls in a row
    MaxEdits,  \* bound on edits of the local file
    MayClose   \* whether the device's service may die

VARIABLES
    call, calls,      \* the call under way, calls begun
    local,            \* the local file: version and mtime (version v has mtime v)
    copy,             \* what pull has written: version and mtime, 0 for none
    remote,           \* remote files: path -> [ver, mtime], ver 0 for none
    isdir,            \* the destination is a directory
    pc, mtime, data,  \* the client: where it is, the mtime and the version it read
    todo,             \* sync messages it has yet to send
    pending,          \* bytes received and not consumed
    path,             \* the resolved destination
    stat,             \* the attributes kept for pull -a, or for the comparison
    up, down,         \* the connection
    dev,              \* the device's sync service
    result            \* "none", "ok", "skipped" or "error"

client == <<pc, mtime, data, todo, pending, path, stat, copy, result>>
vars == <<call, calls, local, copy, remote, isdir, pc, mtime, data, todo, pending, path, stat,
          up, down, dev, result>>

Chunks == 2
Direct == call.via = "direct"

(* Sync messages and, on a direct stream, the frames that carry them. *)
Msg(id, p, v, k) == [id |-> id, p |-> p, v |-> v, k |-> k]
Frame(cmd, body) == [cmd |-> cmd, body |-> body]
Wrte(m) == Frame("WRTE", <<m>>)
Okay == Frame("OKAY", <<>>)
Clse == Frame("CLSE", <<>>)
Shut == down # <<>> /\ Head(down) = Clse

(* by: ghost, who stored it: "late" for push_file_direct_with_ids. *)
File(v, m, by) == [ver |-> v, mtime |-> m, by |-> by]
Absent == File(0, 0, "none")
Paths == {"dst", "dst/base"}

Idle == [at |-> "idle", p |-> "dst", got |-> <<>>, out |-> <<>>, wait |-> FALSE, acks |-> 0]

Init ==
    /\ call \in Kinds /\ calls = 1
    /\ local = [ver |-> 1, mtime |-> 1] /\ copy = Absent
    /\ isdir \in BOOLEAN
    /\ remote \in [Paths -> {Absent}] \cup {[p \in Paths |-> IF p = "dst" THEN File(1, 1, "none") ELSE Absent]}
    /\ isdir => remote["dst"] = Absent
    /\ pc = "begin" /\ mtime = 0 /\ data = 0 /\ todo = <<>> /\ pending = <<>> /\ path = "dst" /\ stat = Absent
    /\ up = <<>> /\ down = <<>> /\ dev = Idle /\ result = "none"

(***************************************************************************)
(* Sending and receiving.                                                  *)
(***************************************************************************)
Send(m) == up' = Append(up, Wrte(m))

Return(r) == pc' = "returned" /\ result' = r

(* DirectSyncReader::receive and the server's byte stream: replies are kept    *)
(* until they are read, also while an acknowledgement is awaited.              *)
Receive(next) ==
    /\ down # <<>> /\ ~Shut
    /\ down' = Tail(down)
    /\ pending' = pending \o Head(down).body
    /\ up' = IF Direct /\ Head(down).cmd = "WRTE" THEN Append(up, Okay) ELSE up
    /\ pc' = IF Direct /\ Head(down).cmd = "OKAY" THEN next ELSE pc

(* stat_direct_inner, stat_server: ask, then read 16 bytes. *)
StatMsg(p) == Msg("STAT", p, 0, 0)

AskStat ==
    /\ \/ pc = "begin" /\ call.op = "push" /\ ~call.many /\ Send(StatMsg("dst")) /\ pc' = "stat_ack"
       \/ pc = "begin" /\ call.op = "pull" /\ call.preserve /\ Send(StatMsg("dst")) /\ pc' = "stat_ack"
       \/ pc = "compare" /\ call.sync /\ Send(StatMsg(path)) /\ pc' = "equal_ack"
    /\ UNCHANGED <<call, calls, local, copy, remote, isdir, mtime, data, todo, pending, path, stat, down, dev, result>>

AskRecv ==
    /\ pc = "recv" \/ (pc = "begin" /\ call.op = "pull" /\ ~call.preserve)
    /\ Send(Msg("RECV", "dst", 0, 0))
    /\ pc' = "pull_ack"
    /\ UNCHANGED <<call, calls, local, copy, remote, isdir, mtime, data, todo, pending, path, stat, down, dev, result>>

After == [stat_ack |-> "stat", equal_ack |-> "equal", pull_ack |-> "pull"]

(* send_request waits for the acknowledgement; the server acknowledges nothing. *)
Acknowledged ==
    /\ pc \in DOMAIN After
    /\ \/ Direct /\ Receive(After[pc])
       \/ ~Direct /\ pc' = After[pc] /\ UNCHANGED <<pending, up, down>>
    /\ UNCHANGED <<call, calls, local, copy, remote, isdir, mtime, data, todo, path, stat, dev, result>>

ReadMore ==
    /\ pc \in {"stat", "equal", "pull"} /\ pending = <<>>
    /\ Receive(pc)
    /\ UNCHANGED <<call, calls, local, copy, remote, isdir, mtime, data, todo, path, stat, dev, result>>

(* Any other answer, the one of all zeros for a path that is not there          *)
(* included, is an error: a push takes it for absent, pull -a gives up.         *)
read_stat_response(r) == r.id = "STAT"

(* The path a single file goes to, none for "not a directory". *)
resolve_remote_file_target(r) ==
    IF read_stat_response(r) /\ r.p = "dir" THEN {"dst/base"}
    ELSE IF call.slash /\ read_stat_response(r) THEN {} ELSE {"dst"}

(* The first STAT of a push of one file, and the one of pull -a. *)
OnStat ==
    /\ pc = "stat" /\ pending # <<>>
    /\ pending' = Tail(pending)
    /\ LET r == Head(pending)
       IN  \/ /\ call.op = "push"
              /\ \/ path' \in resolve_remote_file_target(r) /\ pc' = "mtime" /\ UNCHANGED result
                 \/ resolve_remote_file_target(r) = {} /\ Return("error") /\ UNCHANGED path
              /\ UNCHANGED stat
           \/ /\ call.op = "pull" /\ read_stat_response(r)
              /\ stat' = File(r.v, r.k, "none")
              /\ pc' = "recv" /\ UNCHANGED <<path, result>>
           \/ /\ call.op = "pull" /\ ~read_stat_response(r)
              /\ Return("error") /\ UNCHANGED <<stat, path>>
    /\ UNCHANGED <<call, calls, local, copy, remote, isdir, mtime, data, todo, up, down, dev>>

(* A push of many files has its paths, and starts with the mtime. *)
BeginMany ==
    /\ pc = "begin" /\ call.op = "push" /\ call.many
    /\ path' = "dst/base" /\ pc' = "mtime"
    /\ UNCHANGED <<call, calls, local, copy, remote, isdir, mtime, data, todo, pending, stat, up, down, dev, result>>

(* local_mtime_secs. *)
ReadMtime ==
    /\ pc = "mtime"
    /\ mtime' = local.mtime
    /\ pc' = "compare"
    /\ UNCHANGED <<call, calls, local, copy, remote, isdir, data, todo, pending, path, stat, up, down, dev, result>>

(* Skip only when the remote mtime is the local one. *)
sync_equal(r) == read_stat_response(r) /\ r.k = mtime

OnEqual ==
    /\ pc = "equal" /\ pending # <<>>
    /\ pending' = Tail(pending)
    /\ \/ sync_equal(Head(pending)) /\ Return("skipped")
       \/ ~sync_equal(Head(pending)) /\ pc' = "read" /\ UNCHANGED result
    /\ UNCHANGED <<call, calls, local, copy, remote, isdir, mtime, data, todo, path, stat, up, down, dev>>

NoCompare ==
    /\ pc = "compare" /\ ~call.sync
    /\ pc' = "read"
    /\ UNCHANGED <<call, calls, local, copy, remote, isdir, mtime, data, todo, pending, path, stat, up, down, dev, result>>

Messages(v, m) ==
    <<Msg("SEND", path, 0, 0)>> \o [k \in 1 .. Chunks |-> Msg("DATA", path, v, k)] \o <<Msg("DONE", path, 0, m)>>

(* fs::read takes the file as it is now.  push_file_direct_with_ids looks at    *)
(* the mtime only afterwards.                                                   *)
ReadData ==
    /\ pc = "read"
    /\ data' = local.ver
    /\ IF Direct /\ call.many THEN pc' = "late_mtime" /\ UNCHANGED todo
                              ELSE pc' = "send" /\ todo' = Messages(local.ver, mtime)
    /\ UNCHANGED <<call, calls, local, copy, remote, isdir, mtime, pending, path, stat, up, down, dev, result>>

LateMtime ==
    /\ pc = "late_mtime"
    /\ mtime' = local.mtime
    /\ todo' = Messages(data, local.mtime)
    /\ pc' = "send"
    /\ UNCHANGED <<call, calls, local, copy, remote, isdir, data, pending, path, stat, up, down, dev, result>>

SendNext ==
    /\ pc = "send" /\ todo # <<>>
    /\ Send(Head(todo))
    /\ todo' = Tail(todo)
    /\ pc' = IF Direct THEN "send_ack" ELSE "send"
    /\ UNCHANGED <<call, calls, local, copy, remote, isdir, mtime, data, pending, path, stat, down, dev, result>>

(* send_wrte: a frame of the device is acknowledged and its payload dropped. *)
SentAck ==
    /\ pc = "send_ack" /\ down # <<>> /\ ~Shut
    /\ down' = Tail(down)
    /\ \/ Head(down).cmd = "OKAY" /\ pc' = "send" /\ UNCHANGED up
       \/ Head(down).cmd = "WRTE" /\ up' = Append(up, Okay) /\ UNCHANGED pc
    /\ UNCHANGED <<call, calls, local, copy, remote, isdir, mtime, data, todo, pending, path, stat, dev, result>>

(* Mutant: whatever the device answers, the file has arrived. *)
FinalAny ==
    /\ pc = "send" /\ todo = <<>> /\ down # <<>> /\ ~Shut
    /\ down' = Tail(down)
    /\ \/ /\ Head(down).cmd = "OKAY" /\ UNCHANGED <<up, pc, result>>
       \/ /\ Head(down).cmd = "WRTE"
          /\ up' = IF Direct THEN Append(up, Okay) ELSE up
          /\ Return("ok")
    /\ UNCHANGED <<call, calls, local, copy, remote, isdir, mtime, data, todo, pending, path, stat, dev>>

(* recv_sync_response, read_raw_sync: the answer after DONE. *)
Final ==
    /\ pc = "send" /\ todo = <<>> /\ down # <<>> /\ ~Shut
    /\ down' = Tail(down)
    /\ \/ /\ Head(down).cmd = "OKAY" /\ UNCHANGED <<up, pc, result>>
       \/ /\ Head(down).cmd = "WRTE"
          /\ up' = IF Direct THEN Append(up, Okay) ELSE up
          /\ Return(IF Head(down).body[1].id = "OKAY" THEN "ok" ELSE "error")
    /\ UNCHANGED <<call, calls, local, copy, remote, isdir, mtime, data, todo, pending, path, stat, dev>>

(* The mtime of the copy: pull -a gives it the remote one. *)
set_time_and_mode == IF call.preserve THEN stat.mtime ELSE 0

(* read_pull_response: DATA accumulates, DONE ends it, and only then the local  *)
(* file is written and given the attributes.                                    *)
OnPull ==
    /\ pc = "pull" /\ pending # <<>>
    /\ pending' = Tail(pending)
    /\ LET r == Head(pending)
       IN  \/ r.id = "DATA" /\ todo' = Append(todo, r) /\ UNCHANGED <<pc, result, copy>>
           \/ /\ r.id = "DONE" /\ Return("ok")
              /\ copy' = File(IF Len(todo) = Chunks THEN todo[1].v ELSE -1, set_time_and_mode, "none")
              /\ UNCHANGED todo
           \/ r.id = "FAIL" /\ Return("error") /\ UNCHANGED <<copy, todo>>
    /\ UNCHANGED <<call, calls, local, remote, isdir, mtime, data, path, stat, up, down, dev>>

(* The device closed the stream, which on a direct one is acknowledged: every    *)
(* wait ends in an error, but a failed STAT before a push only means that the   *)
(* destination is taken for absent, or the file for different.  The end of a     *)
(* server connection stays at its end.                                          *)
Closed ==
    /\ Shut /\ pending = <<>>
    /\ \/ pc \in {"stat_ack", "stat", "equal_ack", "equal", "pull_ack", "pull"} /\ (Direct \/ pc \notin DOMAIN After)
       \/ pc = "send_ack"
       \/ pc = "send" /\ todo = <<>>
    /\ down' = IF Direct THEN Tail(down) ELSE down
    /\ up' = IF Direct /\ pc # "send_ack" THEN Append(up, Clse) ELSE up
    /\ CASE call.op = "push" /\ pc \in {"stat_ack", "stat"} -> pc' = "mtime" /\ UNCHANGED result
         [] pc \in {"equal_ack", "equal"} -> pc' = "read" /\ UNCHANGED result
         [] OTHER -> Return("error")
    /\ UNCHANGED <<call, calls, local, copy, remote, isdir, mtime, data, todo, pending, path, stat, dev>>

(* The next call opens a stream of its own. *)
Again ==
    /\ pc = "returned" /\ calls < MaxCalls
    /\ calls' = calls + 1 /\ call' \in Kinds
    /\ pc' = "begin" /\ todo' = <<>> /\ pending' = <<>> /\ up' = <<>> /\ down' = <<>>
    /\ dev' = Idle /\ result' = "none" /\ copy' = Absent
    /\ mtime' = 0 /\ data' = 0 /\ stat' = Absent /\ path' = "dst"
    /\ UNCHANGED <<local, remote, isdir>>

(* Somebody saves the local file. *)
Edit ==
    /\ local.ver <= MaxEdits
    /\ local' = [ver |-> local.ver + 1, mtime |-> local.mtime + 1]
    /\ UNCHANGED <<call, calls, copy, remote, isdir, pc, mtime, data, todo, pending, path, stat, up, down, dev, result>>

(***************************************************************************)
(* The device's sync service.                                              *)
(***************************************************************************)
StatReply(p) ==
    IF p = "dst" /\ isdir THEN Msg("STAT", "dir", 0, 0)
    ELSE IF remote[p] = Absent THEN Msg("NONE", "file", 0, 0)
    ELSE Msg("STAT", "file", remote[p].ver, remote[p].mtime)

Contents(p) ==
    IF remote[p] = Absent THEN <<Msg("FAIL", p, 0, 0)>>
    ELSE [k \in 1 .. Chunks |-> Msg("DATA", p, remote[p].ver, k)] \o <<Msg("DONE", p, 0, 0)>>

(* A message is taken, acknowledged on a direct stream, and acted on. *)
DeviceTakes ==
    /\ up # <<>>
    /\ up' = Tail(up)
    /\ LET m == IF Head(up).cmd = "WRTE" THEN Head(up).body[1] ELSE StatMsg("dst")
           ackd == [dev EXCEPT !.acks = IF Direct THEN 1 ELSE 0]
           say(d, ms) == [d EXCEPT !.out = @ \o ms]
           refuse(d) == [say(d, <<Msg("FAIL", "", 0, 0)>>) EXCEPT !.at = "drain"]
       IN  \/ /\ Head(up).cmd = "OKAY" /\ dev' = [dev EXCEPT !.wait = FALSE] /\ UNCHANGED remote
           \/ /\ dev.at = "closed" /\ Head(up).cmd = "WRTE" /\ UNCHANGED remote
              /\ dev' = [dev EXCEPT !.acks = IF Direct THEN 2 ELSE 0]
           \/ /\ Head(up).cmd = "CLSE" /\ UNCHANGED <<dev, remote>>
           \/ /\ Head(up).cmd = "WRTE" /\ dev.acks = 0 /\ dev.at # "closed"
              /\ \/ m.id = "STAT" /\ dev' = say(ackd, <<StatReply(m.p)>>) /\ UNCHANGED remote
                 \/ m.id = "RECV" /\ dev' = say(ackd, Contents(m.p)) /\ UNCHANGED remote
                 \/ /\ m.id = "SEND" /\ UNCHANGED remote
                    /\ dev' \in {[ackd EXCEPT !.at = "file", !.p = m.p, !.got = <<>>], refuse(ackd)}
                 \/ /\ m.id = "DATA" /\ dev.at = "file" /\ UNCHANGED remote
                    /\ dev' \in {[ackd EXCEPT !.got = Append(@, m)], refuse(ackd)}
                 \/ m.id = "DATA" /\ dev.at # "file" /\ dev' = ackd /\ UNCHANGED remote
                 \/ /\ m.id = "DONE" /\ dev.at = "file"
                    /\ remote' = [remote EXCEPT ![dev.p] =
                          File(IF [k \in DOMAIN dev.got |-> dev.got[k].k] = [k \in 1 .. Chunks |-> k]
                               THEN dev.got[1].v ELSE -1,
                               m.k, IF Direct /\ call.many THEN "late" ELSE "early")]
                    /\ dev' = [say(ackd, <<Msg("OKAY", "", 0, 0)>>) EXCEPT !.at = "idle"]
                 \/ /\ m.id = "DONE" /\ dev.at # "file"
                    /\ dev' = [ackd EXCEPT !.at = "idle"] /\ UNCHANGED remote
    /\ UNCHANGED <<call, calls, local, isdir, down, client>>

DeviceAcks ==
    /\ dev.acks # 0
    /\ down' = Append(down, IF dev.acks = 1 THEN Okay ELSE Clse)
    /\ dev' = [dev EXCEPT !.acks = 0]
    /\ UNCHANGED <<call, calls, local, remote, isdir, up, client>>

(* Replies leave in pieces cut anywhere; a direct stream has one unacknowledged *)
(* frame.                                                                      *)
DeviceSends ==
    /\ dev.out # <<>> /\ ~dev.wait
    /\ \E k \in 1 .. Len(dev.out) :
         /\ down' = Append(down, Frame("WRTE", SubSeq(dev.out, 1, k)))
         /\ dev' = [dev EXCEPT !.out = SubSeq(@, k + 1, Len(@)), !.wait = Direct]
    /\ UNCHANGED <<call, calls, local, remote, isdir, up, client>>

(* The device's service dies. *)
DeviceCloses ==
    /\ MayClose /\ dev.at # "closed" /\ dev.acks = 0 /\ pc # "returned"
    /\ dev' = [Idle EXCEPT !.at = "closed"]
    /\ down' = Append(down, Clse)
    /\ UNCHANGED <<call, calls, local, remote, isdir, up, client>>

(* The six ways a file goes, each with the steps its function takes. *)
Ask == AskStat \/ Acknowledged \/ ReadMore \/ Closed
Transmit == ReadMtime \/ OnEqual \/ NoCompare \/ ReadData \/ SendNext \/ Final

push_file_direct ==
    call.op = "push" /\ Direct /\ ~call.many /\ (Ask \/ OnStat \/ Transmit \/ SentAck)
push_file_server ==
    call.op = "push" /\ ~Direct /\ ~call.many /\ (Ask \/ OnStat \/ Transmit)
push_file_direct_with_ids ==
    call.op = "push" /\ Direct /\ call.many /\ (BeginMany \/ Ask \/ Transmit \/ LateMtime \/ SentAck)
push_file_server_inner ==
    call.op = "push" /\ ~Direct /\ call.many /\ (BeginMany \/ Ask \/ Transmit)
pull_file_direct == call.op = "pull" /\ Direct /\ (Ask \/ OnStat \/ AskRecv \/ OnPull)
pull_file_server == call.op = "pull" /\ ~Direct /\ (Ask \/ OnStat \/ AskRecv \/ OnPull)

Client == \/ push_file_direct \/ push_file_server \/ push_file_direct_with_ids \/ push_file_server_inner
          \/ pull_file_direct \/ pull_file_server

Next == Client \/ Again \/ Edit \/ DeviceTakes \/ DeviceAcks \/ DeviceSends \/ DeviceCloses

Fairness == WF_vars(Client) /\ WF_vars(DeviceTakes) /\ WF_vars(DeviceAcks) /\ WF_vars(DeviceSends)

Spec == Init /\ [][Next]_vars /\ Fairness

(***************************************************************************)
(* Properties.                                                             *)
(***************************************************************************)

(* What push and pull report is true.  Push succeeds only when the device has   *)
(* the whole file as it was when it was read, under the path the destination    *)
(* resolves to; pull only when the local copy is the whole remote file, with    *)
(* its mtime for -a, and a pull that fails leaves no copy at all.  push --sync  *)
(* leaves a file out only when the device already has the contents the file had *)
(* at the mtime that was compared, or later ones: an edit during an earlier     *)
(* push is not lost.  (A directory pushed directly reads the mtime after the    *)
(* data and can lose one.)                                                      *)
ResultIsTrue ==
    /\ result = "ok" /\ call.op = "push" =>
          /\ remote[path].ver = data /\ remote[path].mtime = mtime
          /\ path = IF call.many \/ isdir THEN "dst/base" ELSE "dst"
    /\ result = "ok" /\ call.op = "pull" =>
          copy = File(remote["dst"].ver, IF call.preserve THEN remote["dst"].mtime ELSE 0, "none")
    /\ result = "error" => copy = Absent
    /\ result = "skipped" /\ remote[path].by # "late" => remote[path].ver >= mtime

(* Every pull, and every push through the server, returns, whenever the device  *)
(* refuses the file or closes.                                                  *)
Returns == ~(Direct /\ call.op = "push") ~> pc = "returned"

(* So does every push on a stream of its own: send_wrte leaves a frame that     *)
(* comes instead of the acknowledgement to its caller.                          *)
PushReturns == Direct /\ call.op = "push" ~> pc = "returned"
=============================================================================
