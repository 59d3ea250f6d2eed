---------------------------- MODULE FastbootHost ----------------------------
(***************************************************************************)
(* One invocation of the fastboot command line (main_fastboot.rs) over the *)
(* TCP transport of crates/fastboot-protocol/src/transport.rs, talking to  *)
(* a bootloader.  The host is a sequential program: h.pc is the exchange   *)
(* it is at ("max" about to send, "max?" waiting for the answer), resp the *)
(* response it has just received.  Payload bytes are counted; an image is  *)
(* split by the code's own splitting (SparseImage) and a response on an    *)
(* unframed connection is found by the code's own scanner                  *)
(* (FastbootFraming).  The bootloader is external: it answers every        *)
(* command once, with any INFO before it, and may vanish at any time.      *)
(***************************************************************************)
EXTENDS SparseImage, FastbootFraming

CONSTANTS BlkSz,        \* the block size main passes to from_raw (4096)
          ChunkDefault, \* the chunk size without max-download-size (16 MiB)
          Limits,       \* the max-download-size values devices report
          UpdateTable,  \* AOSP_IMAGES: a sequence of [part, optional]
          ImageSize,    \* image sizes in bytes, by partition
          FetchSize,    \* the size of the partition that is fetched
          MaxFetch,     \* max-fetch-size
          DeviceKinds   \* how devices take FB01: subset of {"framed", "silent", "refuses"}

VARIABLES h,       \* the host program
          mode,    \* FbMode of the transport: "raw" or "framed"
          buf,     \* read_buf of the transport
          resp,    \* {} or the response recv_response has returned
          toDev, toHost, up,    \* the connection
          dev      \* the bootloader

vars == <<h, mode, buf, resp, toDev, toHost, up, dev>>

Err == Response("error", <<>>)
Okay(r) == r.kind = "OKAY"
Fail(r) == r.kind = "FAIL"

(* A number on the wire is written with digits of a small base, so that a  *)
(* response that is cut short carries a smaller number.                    *)
Digits(n) == <<Text(n \div 16), Text(n % 16)>>

(* parse_max_download_size: {} for an empty value. *)
ParseSize(body) ==
    IF body = <<>> THEN {}
    ELSE {FoldLeft(LAMBDA n, t : n * 16 + t[2], 0, body)}

(* What a device may answer current-slot with. *)
SlotValues == {<<>>, <<Text(1)>>}

(* The value android-info.txt requires, and one that only starts with it. *)
Wanted == <<Text(1)>>
Other == <<Text(1), Text(2)>>

Image(part) == [i \in 1..ImageSize[part] |-> i % 7]

(* What one download carries: the image as it is, or one sparse piece. *)
Payload(part, i, size) == [part |-> part, piece |-> i, size |-> size]

(* need_split, from_raw, split and encode of flash_image_file and          *)
(* do_update: the payloads for an image, {} if it cannot be split.         *)
NeedSplit(size, limit) == \E l \in limit : l > 0 /\ size > l
ReadableLimits == 0..Max(Limits)    \* what a response, or the wrong response, may be read as
PiecesOf == [part \in DOMAIN ImageSize, l \in ReadableLimits |-> Split(FromRaw(Image(part), BlkSz), l)]
PayloadsFor(part, limit) ==
    IF ~NeedSplit(ImageSize[part], limit) THEN {<<Payload(part, 0, ImageSize[part])>>}
    ELSE LET s == PiecesOf[part, CHOOSE l \in limit : TRUE] IN
         IF s.ok THEN {[i \in DOMAIN s.pieces |-> Payload(part, i, TotalSize(s.pieces[i]))]} ELSE {}

(* op: the command; imgs: images still to flash; todo: payloads of the     *)
(* current image; left: payload bytes still to send or to read; at: the    *)
(* place in a list of queries; need, saved: bytes to fetch and fetched.    *)
Idle == [op |-> "none", pc |-> "idle", imgs |-> <<>>, todo |-> <<>>, left |-> 0, limit |-> {},
         plan |-> <<>>, reqs |-> <<>>, at |-> 1, slot |-> <<>>, need |-> 0, saved |-> 0]

Init ==
    /\ h = Idle
    /\ mode = "raw" /\ buf = <<>> /\ resp = {}
    /\ toDev = <<>> /\ toHost = <<>> /\ up = FALSE
    /\ dev \in [kind : DeviceKinds, infos : BOOLEAN, slot : {<<>>}, board : {<<>>},
                want : {0}, got : {0}, have : {{}}, log : {<<>>}]

-----------------------------------------------------------------------------
(* The transport.                                                          *)

(* perform_handshake: FB01 is answered with FB (framed), with nothing, or  *)
(* as an unknown command; what arrives of that answer in time is kept in   *)
(* read_buf, the rest stays on the connection.                             *)
Handshake ==
    LET refusal == OnTheWire(Response("FAIL", <<Text(9)>>)) IN
    IF dev.kind # "refuses"
    THEN /\ mode' = IF dev.kind = "framed" THEN "framed" ELSE "raw"
         /\ buf' = <<>> /\ toHost' = <<>>
    ELSE \E n \in 0..Len(refusal) :
            /\ mode' = "raw"
            /\ buf' = SubSeq(refusal, 1, n)
            /\ toHost' = IF n = Len(refusal) THEN <<>> ELSE <<From(refusal, n + 1)>>

(* open_transport and connect_timeout. *)
Open(op, next) ==
    /\ h.pc = "idle"
    /\ UNCHANGED <<resp, toDev, dev>>
    /\ \/ h' = [h EXCEPT !.op = op, !.pc = "fail"] /\ UNCHANGED <<mode, buf, toHost, up>>
       \/ h' = [next EXCEPT !.op = op] /\ up' = TRUE /\ Handshake

(* send_cmd: on a broken connection a write may still seem to succeed. *)
SendCmd(cmd, next, failed) ==
    /\ UNCHANGED <<mode, buf, resp, toHost, up, dev>>
    /\ \/ h' = next /\ toDev' = IF up THEN Append(toDev, cmd) ELSE toDev
       \/ ~up /\ h' = failed /\ toDev' = toDev

(* recv_length_prefixed_response_with_info: one frame, one response. *)
ReceiveFrame ==
    /\ mode = "framed" /\ toHost # <<>>
    /\ LET p == ParseOne(Head(toHost)) IN
       resp' = IF Terminal(p.r) THEN {p.r} ELSE {}
    /\ toHost' = Tail(toHost)
    /\ UNCHANGED buf

(* recv_response_with_info without frames: whatever part of the stream has *)
(* arrived is scanned together with what read_buf held.                    *)
ReceiveRaw ==
    LET stream == FlattenSeq(toHost) IN
    /\ mode = "raw"
    /\ \E n \in IF Scan(buf, <<>>).resp # {} THEN {0} ELSE 1..Len(stream) :
          LET s == Scan(buf \o SubSeq(stream, 1, n), <<>>) IN
          /\ resp' = s.resp /\ buf' = s.rest
          /\ toHost' = IF n = Len(stream) THEN <<>> ELSE <<From(stream, n + 1)>>

(* The stream ended before a response did. *)
ReceiveClosed ==
    /\ ~up /\ toHost = <<>>
    /\ mode = "raw" => Scan(buf, <<>>).resp = {}
    /\ resp' = {Err} /\ UNCHANGED <<buf, toHost>>

Waiting == {"max?", "dump?", "req?", "slot?", "download?", "post?", "commit?", "simple?", "product?", "version?",
            "fetchmax?", "size?", "fetch?", "fetched?"}

Receive ==
    /\ h.pc \in Waiting /\ resp = {}
    /\ ReceiveFrame \/ ReceiveRaw \/ ReceiveClosed
    /\ UNCHANGED <<h, mode, toDev, up, dev>>

(* The response a waiting exchange has received, and the step it takes. *)
Reply == CHOOSE r \in resp : TRUE
On(pc, next) ==
    /\ h.pc = pc /\ resp # {}
    /\ h' = next /\ resp' = {}
    /\ UNCHANGED <<mode, buf, toDev, toHost, up, dev>>

To(pc) == [h EXCEPT !.pc = pc]

Send(pc, cmd, next) == h.pc = pc /\ SendCmd(cmd, next, To("fail"))
Command(c) == [c |-> c, n |-> 0, part |-> "", slot |-> <<>>, payload |-> {}]

-----------------------------------------------------------------------------
(* Commands of one exchange.                                               *)

Getvar == Open("getvar", To("simple"))
SetActive == Open("set_active", To("simple"))
Erase == Open("erase", To("simple"))
Oem == Open("oem", To("simple"))
CreateLogicalPartition == Open("create-logical-partition", To("simple"))
DeleteLogicalPartition == Open("delete-logical-partition", To("simple"))
ResizeLogicalPartition == Open("resize-logical-partition", To("simple"))
SnapshotUpdate == Open("snapshot-update", To("simple"))
Gsi == Open("gsi", To("simple"))
Continue == Open("continue", To("simple"))
Format == Open("format", To("simple"))
Flashing == Open("flashing", To("simple"))
Reboot == Open("reboot", To("simple"))
Shutdown == Open("reboot-shutdown", To("simple"))

Strict == {"getvar", "set_active", "erase", "oem", "create-logical-partition", "delete-logical-partition",
           "resize-logical-partition", "snapshot-update", "gsi"}
Lax == {"continue", "format", "flashing"}

(* require_terminal_okay. *)
RequireOkay(r, next) == IF Okay(r) THEN next ELSE "fail"
(* The matches that only look for FAIL, after the ? on the response. *)
RefuseFail(r, next) == IF Fail(r) \/ r = Err THEN "fail" ELSE next

(* A device may vanish before it answers a reboot or a shutdown. *)
Verdict(op, r) ==
    CASE op \in Strict -> RequireOkay(r, "ok")
      [] op \in Lax -> RefuseFail(r, "ok")
      [] op = "reboot" -> IF r = Err THEN "wait" ELSE RequireOkay(r, "wait")
      [] op = "reboot-shutdown" -> IF Fail(r) THEN "fail" ELSE "wait"

Simple == Send("simple", Command(h.op), To("simple?"))
OnSimple == On("simple?", To(Verdict(h.op, Reply)))

(* wait_for_disconnect: its answer only changes what is printed. *)
WaitForDisconnect ==
    /\ h.pc = "wait"
    /\ h' = To("ok")
    /\ UNCHANGED <<mode, buf, resp, toDev, toHost, up, dev>>

(* Devices: the product (with --long) and the version, whatever happens. *)
Devices == \E long \in BOOLEAN : Open("devices", To(IF long THEN "product" ELSE "version"))
AskProduct == h.pc = "product" /\ SendCmd(Command("query"), To("product?"), To("version"))
OnProduct == On("product?", To("version"))
AskVersion == h.pc = "version" /\ SendCmd(Command("query"), To("version?"), To("ok"))
OnVersion == On("version?", To("ok"))

-----------------------------------------------------------------------------
(* Downloads: flash, wipe-super, update, flash:raw, boot, stage, signature. *)

Whole(part) == <<[part |-> part, here |-> TRUE, optional |-> FALSE]>>
WithPlan(plan, pc) == [h EXCEPT !.plan = plan, !.imgs = plan, !.pc = pc]

Flash == \E part \in DOMAIN ImageSize : Open("flash", WithPlan(Whole(part), "max"))
WipeSuper == \E part \in DOMAIN ImageSize : Open("wipe-super", WithPlan(Whole(part), "max"))
FlashRaw == \E part \in DOMAIN ImageSize : Open("flash:raw", WithPlan(Whole(part), "max"))
Boot == \E part \in DOMAIN ImageSize : Open("boot", WithPlan(Whole(part), "max"))
Stage == \E part \in DOMAIN ImageSize : Open("stage", WithPlan(Whole(part), "max"))
Signature == \E part \in DOMAIN ImageSize : Open("signature", WithPlan(Whole(part), "image"))

(* do_update: the zip holds some of the images of the table. *)
Requirement(kind, inverse) == [kind |-> kind, inverse |-> inverse]
Requirements == {<<>>, <<Requirement("value", FALSE)>>, <<Requirement("value", TRUE)>>, <<Requirement("exists", FALSE)>>}
Update ==
    \E zip \in SUBSET (DOMAIN ImageSize), reqs \in Requirements :
        LET plan == [i \in DOMAIN UpdateTable |->
                        [part |-> UpdateTable[i].part, here |-> UpdateTable[i].part \in zip,
                         optional |-> UpdateTable[i].optional]]
        IN  Open("update", [WithPlan(plan, "dump") EXCEPT !.reqs = reqs])

(* The device information printed first: three variables, none needed. *)
Dumped == IF h.at < 3 THEN [h EXCEPT !.pc = "dump", !.at = h.at + 1] ELSE [h EXCEPT !.pc = "req", !.at = 1]
DumpInfo == h.pc = "dump" /\ SendCmd(Command("query"), To("dump?"), Dumped)
OnDumpInfo == On("dump?", Dumped)

(* Defective form: the line that was checked is checked again. *)
SameRequirement == To("req")

(* check_android_info: one line of android-info.txt.  A variable that      *)
(* could not be asked for is skipped.                                      *)
NextRequirement == [h EXCEPT !.pc = "req", !.at = h.at + 1]
CheckRequirement ==
    /\ h.pc = "req"
    /\ IF h.at <= Len(h.reqs)
       THEN SendCmd(Command("board"), To("req?"), NextRequirement)
       ELSE h' = To("max") /\ UNCHANGED <<mode, buf, resp, toDev, toHost, up, dev>>

Meets(req, r) ==
    LET value == IF Okay(r) THEN r.body ELSE <<>> IN
    IF req.kind = "exists" THEN Okay(r) /\ value = Wanted ELSE (value = Wanted) # req.inverse

OnRequirement ==
    On("req?", LET req == h.reqs[h.at] IN
               IF Reply = Err \/ (req.kind = "value" /\ Reply.kind = "DATA") THEN NextRequirement
               ELSE IF Meets(req, Reply) THEN NextRequirement
               ELSE To("fail"))

(* max-download-size, asked for once; any trouble means no limit. *)
AfterMax == IF h.op = "update" THEN "slot" ELSE "image"
AskMax == h.pc = "max" /\ SendCmd(Command("max"), To("max?"), To(AfterMax))
OnMax == On("max?", [h EXCEPT !.limit = IF Okay(Reply) THEN ParseSize(Reply.body) ELSE {}, !.pc = AfterMax])

AskSlot == h.pc = "slot" /\ SendCmd(Command("slot"), To("slot?"), To("image"))
OnSlot == On("slot?", [h EXCEPT !.slot = IF Okay(Reply) THEN Reply.body ELSE <<>>, !.pc = "image"])

(* The next image: skipped, refused, or cut into payloads.  Only flash,    *)
(* wipe-super and update split an image.                                   *)
Splitting == {"flash", "wipe-super", "update"}
PayloadsOf(op, part, limit) ==
    IF op \in Splitting THEN PayloadsFor(part, limit) ELSE {<<Payload(part, 0, ImageSize[part])>>}

SkipImage == [h EXCEPT !.imgs = Tail(h.imgs)]
NextImage ==
    /\ h.pc = "image"
    /\ UNCHANGED <<mode, buf, resp, toDev, toHost, up, dev>>
    /\ IF h.imgs = <<>> THEN h' = To("ok")
       ELSE LET img == Head(h.imgs)
                payloads == PayloadsOf(h.op, img.part, h.limit)
            IN  h' = IF ~img.here
                     THEN IF img.optional THEN SkipImage ELSE To("fail")
                     ELSE IF payloads = {} THEN To("fail")
                     ELSE [h EXCEPT !.todo = CHOOSE t \in payloads : TRUE, !.pc = "download"]

SendDownload == Send("download", [Command("download") EXCEPT !.n = Head(h.todo).size], To("download?"))

(* Defective form: whatever the device says, the payload follows. *)
OnDownloadAny == On("download?", [h EXCEPT !.left = Head(h.todo).size, !.pc = "send"])

OnDownload ==
    On("download?", IF Reply = Response("DATA", SizeOf(Head(h.todo).size))
                    THEN [h EXCEPT !.left = Head(h.todo).size, !.pc = "send"]
                    ELSE To("fail"))

(* The sending loops: a sparse piece is written at once, an image in       *)
(* chunks of max-download-size, or of 16 MiB without it.                   *)
ChunkSize ==
    IF Head(h.todo).piece > 0 \/ h.limit = {} THEN ChunkDefault ELSE CHOOSE l \in h.limit : TRUE

ToSend == Min({h.left, ChunkSize})
SendChunk ==
    LET n == ToSend IN
    Send("send", [Command("data") EXCEPT !.n = n, !.payload = {Head(h.todo)}],
         [h EXCEPT !.left = h.left - n, !.pc = IF h.left = n THEN "post?" ELSE "send"])

AfterPayload(op, r) ==
    CASE op = "stage" -> RefuseFail(r, "ok")
      [] op = "signature" -> RequireOkay(r, "commit")
      [] OTHER -> RefuseFail(r, "commit")
OnPayload == On("post?", To(AfterPayload(h.op, Reply)))

CommitName == IF h.op \in {"boot", "signature"} THEN h.op ELSE "flash"
SendCommit ==
    Send("commit", [Command(CommitName) EXCEPT !.part = Head(h.todo).part, !.slot = h.slot, !.payload = {Head(h.todo)}],
         To("commit?"))

(* Defective form: after the first piece the image counts as flashed. *)
CommittedOne == [h EXCEPT !.todo = <<>>, !.imgs = Tail(h.imgs), !.pc = "image"]

Committed ==
    IF Len(h.todo) > 1 THEN [h EXCEPT !.todo = Tail(h.todo), !.pc = "download"]
    ELSE [h EXCEPT !.todo = <<>>, !.imgs = Tail(h.imgs), !.pc = "image"]
OnCommit ==
    On("commit?", CASE h.op = "boot" -> To(IF Fail(Reply) THEN "fail" ELSE IF Okay(Reply) THEN "wait" ELSE "ok")
                    [] h.op \in {"flash", "wipe-super", "signature"} -> IF Okay(Reply) THEN Committed ELSE To("fail")
                    [] OTHER -> IF RefuseFail(Reply, "next") = "next" THEN Committed ELSE To("fail"))

-----------------------------------------------------------------------------
(* Uploads: fetch and get_staged.                                          *)

(* A partition, a range of it, or what follows an offset. *)
Fetch ==
    \E what \in {"fetch", "fetch-range", "fetch-tail"} :
        Open(what, [To("fetchmax") EXCEPT !.need = IF what = "fetch-range" THEN FetchSize ELSE 0])
GetStaged == Open("get_staged", To("fetch"))

AskMaxFetch == Send("fetchmax", Command("max-fetch"), To("fetchmax?"))
OnMaxFetch ==
    On("fetchmax?",
       LET max == IF Okay(Reply) THEN ParseSize(Reply.body) ELSE {} IN
       IF max \in {{}, {0}} THEN To("fail")
       ELSE [h EXCEPT !.limit = max, !.pc = IF h.op = "fetch" THEN "size" ELSE "fetch"])

AskSize == Send("size", Command("size"), To("size?"))
OnSize ==
    On("size?",
       LET size == IF Okay(Reply) THEN ParseSize(Reply.body) ELSE {} IN
       IF size \in {{}, {0}} THEN To("fail")
       ELSE [h EXCEPT !.need = CHOOSE n \in size : TRUE, !.pc = "fetch"])

(* fetch_to_file asks for no more than the device lets it; with only an    *)
(* offset, and for get_staged, the device chooses the size.                *)
Ranged == h.op \in {"fetch", "fetch-range"}
Asked == Min({h.need, CHOOSE m \in h.limit : TRUE})
SendFetch ==
    Send("fetch", [Command("fetch") EXCEPT !.n = IF Ranged THEN Asked ELSE FetchSize], To("fetch?"))
OnFetch ==
    On("fetch?",
       LET n == Reply.body[1][2] IN
       IF Reply.kind # "DATA" \/ Reply = Err THEN To("fail")
       ELSE IF n = 0 \/ (Ranged /\ n > Asked) THEN To("fail")
       ELSE [h EXCEPT !.left = n, !.pc = "data"])

(* read_exact: read_buf first, then the connection. *)
PayloadStream ==
    IF mode = "raw" THEN buf \o FlattenSeq(toHost) ELSE IF toHost = <<>> THEN <<>> ELSE Head(toHost)
ReadPayload ==
    LET stream == PayloadStream IN
    /\ h.pc = "data"
    /\ UNCHANGED <<mode, resp, toDev, up, dev>>
    /\ IF Len(stream) >= h.left
       THEN /\ h' = [h EXCEPT !.saved = h.saved + h.left, !.pc = "fetched?"]
            /\ IF mode = "framed" THEN toHost' = Tail(toHost) /\ buf' = buf
               ELSE LET rest == From(stream, h.left + 1)
                        n    == IF Len(buf) > h.left THEN Len(buf) - h.left ELSE 0
                    IN  /\ buf' = SubSeq(rest, 1, n)
                        /\ toHost' = IF n = Len(rest) THEN <<>> ELSE <<From(rest, n + 1)>>
       ELSE ~up /\ h' = To("fail") /\ UNCHANGED <<buf, toHost>>

(* What follows the payload. *)
Fetched(r) ==
    IF ~Okay(r) \/ (Ranged /\ h.left # Asked) THEN To("fail")
    ELSE IF ~Ranged \/ h.need = h.left THEN To("ok")
    ELSE [h EXCEPT !.need = h.need - h.left, !.pc = "fetch"]
OnFetched == On("fetched?", Fetched(Reply))

-----------------------------------------------------------------------------
(* The bootloader (external).                                              *)

(* INFO, from a device that sends any, then the answers. *)
Say(frames) ==
    toHost' = toHost \o (IF dev.infos THEN <<OnTheWire(Response("INFO", <<Text(5)>>))>> ELSE <<>>) \o frames

Answer(kind, body) == OnTheWire(Response(kind, body))
Did(cmd) == [dev EXCEPT !.log = Append(@, [c |-> cmd.c, part |-> cmd.part, slot |-> cmd.slot, payload |-> dev.have])]

(* The bytes of a payload that is read back may look like a response. *)
Upload(n) == [i \in 1..n |-> <<"FAIL", 1 + (i % 2)>>]

DeviceTakes(cmd) ==
    CASE cmd.c = "max" -> /\ \/ Say(<<Answer("FAIL", <<>>)>>)
                             \/ \E l \in Limits : Say(<<Answer("OKAY", Digits(l))>>)
                          /\ UNCHANGED dev
      [] cmd.c = "slot" -> \E slot \in SlotValues :
                              Say(<<Answer("OKAY", slot)>>) /\ dev' = [dev EXCEPT !.slot = slot]
      [] cmd.c = "board" -> \/ Say(<<Answer("FAIL", <<>>)>>) /\ UNCHANGED dev
                            \/ \E board \in {Wanted, Other} :
                                  Say(<<Answer("OKAY", board)>>) /\ dev' = [dev EXCEPT !.board = board]
      [] cmd.c = "query" -> /\ Say(<<Answer("OKAY", <<Text(3)>>)>>) \/ Say(<<Answer("FAIL", <<>>)>>)
                            /\ UNCHANGED dev
      [] cmd.c = "max-fetch" -> Say(<<Answer("OKAY", Digits(MaxFetch))>>) /\ UNCHANGED dev
      [] cmd.c = "size" -> Say(<<Answer("OKAY", Digits(FetchSize))>>) /\ UNCHANGED dev
      [] cmd.c = "download" -> \/ Say(<<Answer("FAIL", <<>>)>>) /\ UNCHANGED dev
                               \/ /\ Say(<<Answer("DATA", SizeOf(cmd.n))>>)
                                  /\ dev' = [dev EXCEPT !.want = cmd.n, !.got = 0, !.have = {}]
      [] cmd.c = "data" -> IF dev.got + cmd.n < dev.want
                           THEN dev' = [dev EXCEPT !.got = @ + cmd.n] /\ UNCHANGED toHost
                           ELSE \/ /\ Say(<<Answer("OKAY", <<>>)>>)
                                   /\ dev' = [dev EXCEPT !.want = 0, !.got = 0, !.have = cmd.payload]
                                \/ Say(<<Answer("FAIL", <<>>)>>) /\ dev' = [dev EXCEPT !.want = 0, !.got = 0]
      [] cmd.c = "fetch" -> /\ \E n \in 1..cmd.n, last \in {"OKAY", "FAIL"} :
                                 Say(<<Answer("DATA", SizeOf(n)), Upload(n), Answer(last, <<>>)>>)
                            /\ UNCHANGED dev
      [] OTHER -> \/ Say(<<Answer("OKAY", <<>>)>>) /\ dev' = Did(cmd)
                  \/ Say(<<Answer("FAIL", <<Text(4)>>)>>) /\ UNCHANGED dev

DeviceStep ==
    /\ up /\ toDev # <<>>
    /\ DeviceTakes(Head(toDev))
    /\ toDev' = Tail(toDev)
    /\ UNCHANGED <<h, mode, buf, resp, up>>

(* The device vanishes, with or without what it had sent. *)
Break ==
    /\ up /\ up' = FALSE
    /\ toHost' \in {toHost, <<>>}
    /\ toDev' = <<>>
    /\ UNCHANGED <<h, mode, buf, resp, dev>>

-----------------------------------------------------------------------------
Ended == h.pc \in {"ok", "fail"}
Done == Ended /\ UNCHANGED vars

Begin ==
    \/ Getvar \/ SetActive \/ Erase \/ Oem \/ CreateLogicalPartition \/ DeleteLogicalPartition
    \/ ResizeLogicalPartition \/ SnapshotUpdate \/ Gsi \/ Continue \/ Format \/ Flashing \/ Reboot
    \/ Shutdown \/ Devices \/ Flash \/ WipeSuper \/ FlashRaw \/ Boot \/ Stage \/ Signature \/ Update
    \/ Fetch \/ GetStaged

HostStep ==
    \/ Begin
    \/ Simple \/ OnSimple \/ WaitForDisconnect \/ AskProduct \/ OnProduct \/ AskVersion \/ OnVersion
    \/ DumpInfo \/ OnDumpInfo \/ CheckRequirement \/ OnRequirement \/ AskMax \/ OnMax \/ AskSlot \/ OnSlot
    \/ NextImage \/ SendDownload \/ OnDownload \/ SendChunk \/ OnPayload \/ SendCommit \/ OnCommit
    \/ AskMaxFetch \/ OnMaxFetch \/ AskSize \/ OnSize \/ SendFetch \/ OnFetch \/ ReadPayload \/ OnFetched

Next == HostStep \/ Receive \/ DeviceStep \/ Break \/ Done

(* As long as the device can answer what it has received, a read can       *)
(* return something, or the program can go on, one of them does: weak      *)
(* fairness of DeviceStep \/ Receive \/ HostStep, which are the steps that *)
(* do not lose the connection, with the condition under which they are     *)
(* disabled.                                                               *)
Blocked ==
    /\ up /\ toDev = <<>> /\ resp = {}
    /\ \/ h.pc \in Waiting /\ toHost = <<>> /\ Scan(buf, <<>>).resp = {}
       \/ h.pc = "data" /\ Len(PayloadStream) < h.left
Loses == up /\ ~up'
Fairness == []<>(Blocked \/ Ended) \/ []<><<~Loses>>_vars
Spec == Init /\ [][Next]_vars /\ Fairness

-----------------------------------------------------------------------------
(* While the device counts payload bytes it is sent nothing else, and it   *)
(* is sent payload only while it counts: a command written too early would *)
(* be flashed as image data, a chunk written too late would be parsed as a *)
(* command (the download, payload, flash order of every download command). *)
(* And flash, boot and signature are only sent for the payload the device  *)
(* has itself acknowledged (the post-payload response).                    *)
PayloadAndCommandsApart ==
    up /\ toDev # <<>> =>
        /\ (Head(toDev).c = "data") <=> (dev.want > 0)
        /\ Head(toDev).c \in {"flash", "boot", "signature"} => dev.have = Head(toDev).payload

(* What a successful exit status promises of the device. *)
FlashedBy(plan, limit, op, slot) ==
    FlattenSeq([i \in DOMAIN plan |->
        IF ~plan[i].here THEN <<>>
        ELSE LET ps == CHOOSE t \in PayloadsOf(op, plan[i].part, limit) : TRUE
             IN  [j \in DOMAIN ps |-> [c |-> "flash", part |-> plan[i].part, slot |-> slot, payload |-> {ps[j]}]]])

(* An exit status of success means the device has done what was asked, in  *)
(* full and in order: the one command it was asked for; every piece of     *)
(* every image flashed, to the device's own slot when responses are        *)
(* framed; the payload staged, signed or at least acknowledged before      *)
(* booting; the whole range fetched.  And over a framed connection update  *)
(* has written to no device that does not meet what android-info.txt       *)
(* requires: every requirement was answered, and met, before a flash.      *)
SuccessIsTrue ==
    /\ h.pc = "ok" =>
        /\ h.op \in Strict \cup Lax => \E e \in Range(dev.log) : e.c = h.op
        /\ h.op \in {"flash", "wipe-super", "flash:raw", "update"} =>
              dev.log = FlashedBy(h.plan, h.limit, h.op,
                                  IF mode = "framed" /\ h.op = "update" THEN dev.slot ELSE h.slot)
        /\ h.op \in {"boot", "stage", "signature"} =>
              dev.have = {Payload(h.plan[1].part, 0, ImageSize[h.plan[1].part])}
        /\ h.op \in {"fetch", "fetch-range"} /\ mode = "framed" => h.saved = FetchSize
    /\ h.op = "update" /\ mode = "framed" /\ dev.log # <<>> =>
        \A i \in DOMAIN h.reqs :
            IF h.reqs[i].inverse THEN dev.board # Wanted ELSE dev.board = Wanted

(* Every command returns, whatever the device answers and whenever it      *)
(* vanishes.                                                               *)
Returns == <>Ended
=============================================================================
