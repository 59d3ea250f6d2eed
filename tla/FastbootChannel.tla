-------------------------- MODULE FastbootChannel --------------------------
(***************************************************************************)
(* What the fastboot host may rely on in a packet transport: until an      *)
(* operation has reported an error, every chunk it wrote was taken by the  *)
(* device exactly once and in order, and every part of a reply the device  *)
(* gave out was read exactly once and in order.  After an error the device *)
(* may have taken one chunk more than the host knows of, or miss chunks    *)
(* that are reported later.                                                *)
(***************************************************************************)
EXTENDS Naturals, Sequences

CONSTANTS Chunks,  \* what a write is cut into
          Parts    \* what a reply is cut into

VARIABLES
    wrote,    \* chunks the host was told are delivered
    taken,    \* chunks the device took
    offered,  \* parts of replies the device gave out
    got,      \* parts of replies the host read
    ok        \* no operation of the host has failed

vars == <<wrote, taken, offered, got, ok>>

Init ==
    /\ wrote = <<>> /\ taken = <<>>
    /\ offered = <<>> /\ got = <<>>
    /\ ok = TRUE

Take ==
    /\ ok => taken = wrote
    /\ \E c \in Chunks : taken' = Append(taken, c)
    /\ UNCHANGED <<wrote, offered, got, ok>>

Confirm ==
    /\ \E c \in Chunks : wrote' = Append(wrote, c)
    /\ ok => wrote' = taken
    /\ UNCHANGED <<taken, offered, got, ok>>

Offer ==
    /\ ok => offered = got
    /\ \E p \in Parts : offered' = Append(offered, p)
    /\ UNCHANGED <<wrote, taken, got, ok>>

Get ==
    /\ \E p \in Parts : got' = Append(got, p)
    /\ ok => got' = offered
    /\ UNCHANGED <<wrote, taken, offered, ok>>

Break ==
    /\ ok' = FALSE
    /\ UNCHANGED <<wrote, taken, offered, got>>

Next == Take \/ Confirm \/ Offer \/ Get \/ Break

Spec == Init /\ [][Next]_vars
=============================================================================
