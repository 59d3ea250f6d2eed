----------------------------- MODULE MCFastboot -----------------------------
(* Fastboot as three machines of which one runs in each behaviour: the UDP     *)
(* transport on a bad network, the command line against a bootloader, and the  *)
(* formats on small inputs.  The other two stay in one initial state.          *)
EXTENDS FastbootUdp

CONSTANTS BlkSz, ChunkDefault, Limits, UpdateTable, ImageSize, FetchSize, MaxFetch, DeviceKinds,
          NameSize

VARIABLES which,
          h, mode, buf, resp, line_toDev, line_toHost, up, dev,
          job

udp  == vars
line == <<h, mode, buf, resp, line_toDev, line_toHost, up, dev>>
all  == <<which, udp, line, job>>

ASSUME UdpAssumption

(* An optional image that fits one download and a required one that is split   *)
(* in two.                                                                     *)
MCUpdateTable == <<[part |-> "dtbo", optional |-> TRUE], [part |-> "system", optional |-> FALSE]>>
MCImageSize == [p \in {"dtbo", "system"} |-> IF p = "system" THEN 128 ELSE 40]

L == INSTANCE FastbootHost WITH toDev <- line_toDev, toHost <- line_toHost
F == INSTANCE FastbootFormats

-----------------------------------------------------------------------------
NoJob == [what |-> "none"]

MCInit == /\ which \in {"line", "udp", "formats"}
          /\ Init
          /\ L!Init /\ (which # "line" => dev.kind = "framed" /\ ~dev.infos)
          /\ IF which = "formats" THEN F!Jobs ELSE job = NoJob
MCNext == /\ UNCHANGED which
          /\ \/ which = "udp"     /\ Next   /\ UNCHANGED <<line, job>>
             \/ which = "line"    /\ L!Next /\ UNCHANGED <<udp, job>>
             \/ which = "formats" /\ UNCHANGED <<udp, line, job>>

(* The fairness of the machine that runs, see FastbootHost and FastbootUdp. *)
MCFairness ==
    /\ []<>(which # "line" \/ L!Blocked \/ L!Ended) \/ []<><<which = "line" /\ ~L!Loses>>_line
    /\ WF_udp(which = "udp" /\ Timeout)
MCSpec == MCInit /\ [][MCNext]_all /\ MCFairness

(* Sparse images: the pieces of a split fit the limit and expand to the whole  *)
(* image, see FastbootFormats.                                                 *)
SplitIsExact == F!SplitIsExact

(* Boot images: what one half of the image code wrote the other half reads,    *)
(* see FastbootFormats.                                                        *)
ImagesRoundTrip == F!ImagesRoundTrip

(* Framing: responses come out of a stream in order however it is cut, see     *)
(* FastbootFormats.                                                            *)
ResponsesInOrder == F!ResponsesInOrder

(* The command line: payload and commands are kept apart, see FastbootHost.    *)
PayloadAndCommandsApart == L!PayloadAndCommandsApart

(* The command line: success means the device has done all that was asked, in  *)
(* order, see FastbootHost.                                                    *)
SuccessIsTrue == L!SuccessIsTrue

(* Every fastboot command returns, and so does every read, write and connect   *)
(* of the UDP transport, whatever the device and the network do.               *)
FastbootReturns ==
    /\ which = "line" => L!Returns
    /\ which = "udp" => OpReturns
=============================================================================
