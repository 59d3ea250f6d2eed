-------------------------- MODULE FastbootFraming --------------------------
(***************************************************************************)
(* How a fastboot response is found in a byte stream without frames        *)
(* (crates/fastboot-protocol/src/transport.rs, response.rs): raw TCP, and  *)
(* the default parser of the USB and UDP transports.  A four-byte prefix   *)
(* is two tokens, so that a segment can end inside it; the eight digits of *)
(* a DATA size are two tokens as well; every other token is body text.     *)
(***************************************************************************)
EXTENDS Integers, Sequences, SequencesExt, FiniteSetsExt

(* FB_PREFIXES. *)
Kinds == {"OKAY", "FAIL", "DATA", "INFO", "TEXT"}

Prefix(k) == <<<<k, 1>>, <<k, 2>>>>
Text(v) == <<"text", v>>
SizeOf(v) == <<<<"size1", v>>, <<"size2", v>>>>

Response(k, body) == [kind |-> k, body |-> body]

(* What a device writes for a response. *)
OnTheWire(r) == Prefix(r.kind) \o r.body

Terminal(r) == r.kind \notin {"INFO", "TEXT"}

From(buf, i) == SubSeq(buf, i, Len(buf))

(* is_fb_prefix, is_partial_prefix. *)
IsFbPrefix(buf) == Len(buf) >= 2 /\ \E k \in Kinds : SubSeq(buf, 1, 2) = Prefix(k)
IsPartialPrefix(buf) == Len(buf) = 1 /\ \E k \in Kinds : buf[1] = <<k, 1>>

(* The first place at or after n where a prefix starts, {} if there is none. *)
PrefixAt(buf, n) ==
    LET at == {i \in n..Len(buf) : IsFbPrefix(From(buf, i))}
    IN  IF at = {} THEN {} ELSE {Min(at)}

(* The place where buf ends in a partial prefix, {} if it does not. *)
PartialAt(buf, n) == {i \in {Len(buf)} : i >= n /\ IsPartialPrefix(From(buf, i))}

(* parse_one_response on a buffer that starts with a prefix.  A DATA       *)
(* response has a fixed length; the body of every other one goes up to the *)
(* next prefix, or part of a prefix, or to the end of what was received.   *)
ParseOne(buf) ==
    LET kind == buf[1][1]
        ends == IF PrefixAt(buf, 3) # {} THEN PrefixAt(buf, 3) ELSE PartialAt(buf, 3)
        end  == IF ends = {} THEN Len(buf) ELSE (CHOOSE e \in ends : TRUE) - 1
    IN  IF kind # "DATA" THEN [got |-> "response", r |-> Response(kind, SubSeq(buf, 3, end)), used |-> end]
        ELSE IF Len(buf) < 4 THEN [got |-> "short"]
        ELSE IF SubSeq(buf, 3, 4) = SizeOf(buf[3][2])
        THEN [got |-> "response", r |-> Response("DATA", SubSeq(buf, 3, 4)), used |-> 4]
        ELSE [got |-> "error"]

(* Defective form: a buffer without a prefix is dropped altogether. *)
ResyncAll(buf) == IF PrefixAt(buf, 1) # {} THEN From(buf, CHOOSE i \in PrefixAt(buf, 1) : TRUE) ELSE <<>>

(* What precedes the first prefix is dropped; without one, all but a       *)
(* partial prefix at the end.                                              *)
Resync(buf) ==
    IF PrefixAt(buf, 1) # {} THEN From(buf, CHOOSE i \in PrefixAt(buf, 1) : TRUE)
    ELSE IF PartialAt(buf, 1) # {} THEN From(buf, CHOOSE i \in PartialAt(buf, 1) : TRUE)
    ELSE <<>>

(* The inner loop of recv_response_with_info: the terminal response found  *)
(* in buf, if any, what is left of buf and the INFO and TEXT bodies met.   *)
RECURSIVE Scan(_, _)
Scan(buf, infos) ==
    LET b    == Resync(buf)
        more == [resp |-> {}, rest |-> b, infos |-> infos]
    IN  IF ~IsFbPrefix(b) THEN more
        ELSE LET p == ParseOne(b) IN
             CASE p.got = "short" -> more
               [] p.got = "error" -> Scan(Tail(b), infos)
               [] p.got = "response" ->
                    IF Terminal(p.r) THEN [resp |-> {p.r}, rest |-> From(b, p.used + 1), infos |-> infos]
                    ELSE Scan(From(b, p.used + 1), Append(infos, p.r.body))

(* recv_response_with_info called again and again on the segments segs     *)
(* until the stream ends.  A TCP transport keeps what it read beyond the   *)
(* response (keep); the default parser drops it.                           *)
RECURSIVE ReceiveAll(_, _, _, _, _)
ReceiveAll(buf, segs, infos, out, keep) ==
    LET s == Scan(buf, infos) IN
    IF s.resp # {}
    THEN ReceiveAll(IF keep THEN s.rest ELSE <<>>, segs, <<>>,
                    Append(out, [resp |-> CHOOSE r \in s.resp : TRUE, infos |-> s.infos]), keep)
    ELSE IF segs = <<>> THEN out
    ELSE ReceiveAll(s.rest \o Head(segs), Tail(segs), s.infos, out, keep)

=============================================================================
