--------------------------- MODULE TransferProofs ---------------------------
(***************************************************************************)
(* The incremental attempt and the install sessions for any command line,  *)
(* any files and any packages.                                             *)
(*                                                                         *)
(* The attempt: which processes may run follows from where the command is, *)
(* and the server's arguments are the front of the database, because that  *)
(* lists the signed files first.                                           *)
(*                                                                         *)
(* The sessions: between two commands, the sessions that are open, what is *)
(* in them and which of them are known follow from the next command; in    *)
(* the clean-up, whatever is left over has its command still to come.      *)
(***************************************************************************)
EXTENDS Transfers, TLAPS

(***************************************************************************)
(* The install sessions.                                                   *)
(***************************************************************************)
Multi == sessions_mode = "install_multi_package"

\* A command the entry point gives in its turn.
Placed(k) ==
    /\ k \in [c : {"push", "install", "create", "write", "add", "commit"}, s : S!Sessions, i : Nat]
    /\ k.c \in {"push", "install", "add", "commit"} \/ ~Multi => k.s = S!Parent
    /\ k.c = "push" => /\ sessions_mode \in {"install_apk", "install_multiple"} /\ k.i \in 1 .. Len(S!Batch)
                       /\ sessions_mode = "install_apk" => k.i = 1
    /\ k.c = "install" => sessions_mode \in {"install_apk", "install_apk_streamed"} /\ k.i = 1
    /\ k.c \in {"create", "write", "add", "commit"} => sessions_mode \notin {"install_apk", "install_apk_streamed"}
    /\ k.c = "create" => k.i = 0
    /\ k.c = "write" => k.i \in 1 .. Len(S!Apks(k.s))
    /\ k.c = "add" => Multi

\* The sessions that are open when command k is to be given, and what has been
\* written to them.
Opened(k) ==
    {s \in S!Sessions : \/ k.c = "create" /\ s < k.s
                        \/ k.c = "write" /\ s <= k.s
                        \/ k.c \in {"add", "commit"} /\ (Multi \/ s = S!Parent)}
Written(k, s) ==
    IF s \notin Opened(k) THEN {}
    ELSE IF k.c = "write" /\ s = k.s THEN {S!Apks(s)[i] : i \in 1 .. k.i - 1} ELSE S!Wanted(s)

\* The device's sessions and files are those of the packages.
STypes ==
    /\ sessions_mode \in Modes
    /\ phase \in {"start", "work", "cleanup", "returned"}
    /\ known \in Seq(S!Sessions)
    /\ session \in [S!Sessions -> {"none", "open", "committed", "abandoned"}]
    /\ DOMAIN sessions_files = S!Sessions
    /\ staged \subseteq {S!Batch[i] : i \in DOMAIN S!Batch}
    /\ sessions_mode \notin {"install_apk", "install_multiple"} => staged = {}
    /\ sessions_mode # "install_multiple" => staged \subseteq {S!Batch[1]}

\* Before the first command and between two of them.
Fresh ==
    /\ link = TRUE /\ refused = FALSE /\ failed = FALSE /\ installed = {} /\ sessions_todo = <<>>
    /\ phase = "start" => /\ staged = {} /\ known = <<>> /\ session = [s \in S!Sessions |-> "none"]
                          /\ sessions_files = [s \in S!Sessions |-> {}]
Working ==
    /\ Placed(now)
    /\ S!Known = Opened(now)
    /\ \A s \in S!Sessions : session[s] = IF s \in Opened(now) THEN "open" ELSE "none"
    /\ \A s \in S!Sessions : sessions_files[s] = Written(now, s)
    /\ now.c = "commit" /\ Multi => children = S!Packages

\* What is left is still to be cleaned up.
Chores == [c : {"abandon", "rm"}, s : S!Sessions, i : Nat]
Abandoned(t, s) == \E j \in DOMAIN t : t[j].c = "abandon" /\ t[j].s = s
Removed(t, f) == \E j \in DOMAIN t : t[j].c = "rm" /\ S!File(t[j]) = f
Cleaning ==
    /\ sessions_todo \in Seq(Chores)
    /\ (phase = "cleanup") = (sessions_todo # <<>>)
    /\ link /\ ~refused =>
         /\ \A s \in S!Known : session[s] = "open" => Abandoned(sessions_todo, s)
         /\ \A f \in staged : (sessions_mode = "install_apk" /\ installed = {}) \/ Removed(sessions_todo, f)
    /\ ~failed => session[S!Parent] = "committed" \/ installed = {S!Batch[1]}
    /\ failed /\ link => session[S!Parent] # "committed" /\ installed = {}

\* Sessions are committed with all of their files, and together.
Whole ==
    /\ \A s \in S!Sessions : session[s] = "committed" => sessions_files[s] = S!Wanted(s)
    /\ session[S!Parent] = "committed" /\ Multi => \A p \in S!Packages : session[p] = "committed"

SInv ==
    /\ STypes /\ Whole
    /\ phase \in {"start", "work"} => Fresh
    /\ phase = "work" => Working
    /\ phase \in {"cleanup", "returned"} => Cleaning

\* Packages and their files are numbered from 1.
LEMMA Numbers ==
    /\ Len(Splits) \in Nat /\ Len(Splits) # 0
    /\ S!Packages = 1 .. Len(Splits) /\ S!Sessions = 0 .. Len(Splits)
    /\ S!Batch \in Seq(STRING) /\ Len(S!Batch) \in Nat /\ Len(S!Batch) # 0 /\ DOMAIN S!Batch = 1 .. Len(S!Batch)
    /\ \A s \in S!Sessions : /\ S!Apks(s) \in Seq(STRING) /\ Len(S!Apks(s)) \in Nat
                             /\ DOMAIN S!Apks(s) = 1 .. Len(S!Apks(s))
                             /\ Len(S!Apks(s)) = 0 <=> Multi /\ s = S!Parent
<1>1. Len(Splits) \in Nat /\ Len(Splits) # 0 /\ DOMAIN Splits = 1 .. Len(Splits)
  BY SplitsAssumption
<1>2. S!Packages = 1 .. Len(Splits) /\ S!Sessions = 0 .. Len(Splits)
  BY <1>1 DEF S!Packages, S!Sessions, S!Parent
<1>3. \A p \in 1 .. Len(Splits) : /\ Splits[p] \in Seq(STRING) /\ Len(Splits[p]) \in Nat /\ Len(Splits[p]) # 0
                                  /\ DOMAIN Splits[p] = 1 .. Len(Splits[p])
  <2> TAKE p \in 1 .. Len(Splits)
  <2>1. Splits[p] \in Seq(STRING) /\ Splits[p] # <<>>
    BY <1>1, SplitsAssumption
  <2> QED
    BY <2>1
<1>4. /\ S!Batch \in Seq(STRING) /\ Len(S!Batch) \in Nat /\ Len(S!Batch) # 0
      /\ DOMAIN S!Batch = 1 .. Len(S!Batch)
  BY <1>1, <1>3 DEF S!Batch
<1>5. ASSUME NEW s \in S!Sessions
      PROVE  /\ S!Apks(s) \in Seq(STRING) /\ Len(S!Apks(s)) \in Nat
             /\ DOMAIN S!Apks(s) = 1 .. Len(S!Apks(s))
             /\ Len(S!Apks(s)) = 0 <=> Multi /\ s = S!Parent
  <2>1. CASE ~Multi
    BY <1>4, <2>1, Zenon DEF S!Apks, Multi
  <2>2. CASE Multi /\ s = S!Parent
    <3>1. S!Apks(s) = <<>>
      BY <2>2, Zenon DEF S!Apks, Multi
    <3> QED
      BY <2>2, <3>1
  <2>3. CASE Multi /\ s # S!Parent
    BY <1>2, <1>3, <2>3 DEF S!Apks, Multi, S!Parent
  <2> QED
    BY <2>1, <2>2, <2>3, Zenon
<1> QED
  BY <1>1, <1>2, <1>4, <1>5, Zenon

\* The entry point stays the one that was called, and so do its files.
LEMMA SameCall ==
    ASSUME sessions_mode' = sessions_mode
    PROVE  /\ Multi' = Multi
           /\ \A s : S!Apks(s)' = S!Apks(s) /\ S!Wanted(s)' = S!Wanted(s)
           /\ \A k : /\ S!File(k)' = S!File(k) /\ Placed(k)' = Placed(k) /\ Opened(k)' = Opened(k)
                     /\ \A s : Written(k, s)' = Written(k, s)
<1>1. Multi' = Multi
  BY Zenon DEF Multi
<1>2. \A s : S!Apks(s)' = S!Apks(s)
  BY Zenon DEF S!Apks
<1>3. \A s : S!Wanted(s)' = S!Wanted(s)
  BY <1>2, Zenon DEF S!Wanted
<1>4. \A k : S!File(k)' = S!File(k)
  BY <1>2, Zenon DEF S!File
<1>5. \A k : Placed(k)' = Placed(k)
  BY <1>1, <1>2, ZenonT(60) DEF Placed
<1>6. \A k : Opened(k)' = Opened(k)
  BY <1>1, Zenon DEF Opened
<1>7. \A k, s : Written(k, s)' = Written(k, s)
  BY <1>2, <1>3, <1>6, Zenon DEF Written
<1> QED
  BY <1>1, <1>2, <1>3, <1>4, <1>5, <1>6, <1>7, Zenon

\* The step of each kind of command to the next.
LEMMA AfterBegin ==
    ASSUME sessions_mode \in Modes
    PROVE  /\ Placed(S!After(S!Begin))
           /\ Opened(S!After(S!Begin)) = {}
           /\ \A s : Written(S!After(S!Begin), s) = {}
<1> DEFINE n == S!After(S!Begin)
<1>1. \/ sessions_mode \in {"install_apk", "install_multiple"} /\ n = S!Command("push", S!Parent, 1)
      \/ sessions_mode = "install_apk_streamed" /\ n = S!Command("install", S!Parent, 1)
      \/ sessions_mode \in {"install_multiple_streamed", "install_multi_package"}
         /\ n = S!Command("create", S!Parent, 0)
  <2>1. S!Begin.c = "begin" /\ S!Begin.i = 0
    BY Zenon DEF S!Begin, S!Command
  <2>2. sessions_mode \in S!AllModes
    BY SplitsAssumption, Zenon
  <2> QED
    BY <2>1, <2>2, Numbers DEF S!After, S!AllModes, S!install_apk, S!install_multiple, S!install_apk_streamed,
       S!install_multiple_streamed, S!install_multi_package_sessions, S!Session
<1> HIDE DEF n
<1>2. Placed(n)
  BY <1>1, Numbers DEF Placed, S!Command, S!Parent, Multi
<1>3. Opened(n) = {}
  BY <1>1, Numbers DEF Opened, S!Command, S!Parent
<1> QED
  BY <1>2, <1>3, Zenon DEF Written, n

\* After a push: the next push, or the install of what was pushed.
LEMMA AfterPush ==
    ASSUME NEW k, Placed(k), k.c = "push"
    PROVE  /\ S!After(k) # S!Done /\ Placed(S!After(k))
           /\ Opened(S!After(k)) = Opened(k)
           /\ \A s : Written(S!After(k), s) = Written(k, s)
           /\ S!After(k).c # "commit"
<1> DEFINE n == S!After(k)
<1>1. \/ sessions_mode = "install_apk" /\ n = S!Command("install", S!Parent, 1)
      \/ sessions_mode = "install_multiple" /\ k.i + 1 \in 1 .. Len(S!Batch) /\ n = S!Command("push", S!Parent, k.i + 1)
      \/ sessions_mode = "install_multiple" /\ n = S!Command("create", S!Parent, 0)
  BY Numbers DEF Placed, S!After, S!install_apk, S!install_multiple, S!Session
<1> HIDE DEF n
<1>2. Placed(n) /\ n # S!Done /\ n.c # "commit"
  BY <1>1, Numbers DEF Placed, S!Command, S!Parent, Multi, S!Done
<1>3. Opened(n) = {} /\ Opened(k) = {}
  BY <1>1, Numbers DEF Opened, S!Command, S!Parent
<1> QED
  BY <1>2, <1>3, Zenon DEF Written, n

\* After a session is made: its first file, or the first child.
LEMMA AfterCreate ==
    ASSUME NEW k, Placed(k), k.c = "create", sessions_mode \in Modes
    PROVE  /\ S!After(k) # S!Done /\ Placed(S!After(k))
           /\ Opened(S!After(k)) = Opened(k) \cup {k.s} /\ k.s \notin Opened(k)
           /\ \A s \in S!Sessions : Written(S!After(k), s) = Written(k, s)
           /\ S!After(k).c # "commit"
<1> DEFINE n == S!After(k)
<1>0. k.s \in S!Sessions /\ k.i = 0 /\ sessions_mode \in {"install_multiple", "install_multiple_streamed", "install_multi_package"}
  BY SplitsAssumption, Zenon DEF Placed, S!AllModes
<1>1. \/ Len(S!Apks(k.s)) # 0 /\ n = S!Command("write", k.s, 1)
      \/ Multi /\ k.s = S!Parent /\ n = S!Command("create", 1, 0)
  <2>1. CASE Multi
    BY <1>0, <2>1, Numbers DEF S!After, S!install_multi_package_sessions, Multi, S!Parent
  <2>2. CASE ~Multi
    <3>1. k.s = S!Parent /\ S!Apks(k.s) = S!Batch
      BY <2>2, Zenon DEF Placed, S!Apks, Multi
    <3> QED
      BY <1>0, <2>2, <3>1, Numbers DEF S!After, S!install_multiple, S!install_multiple_streamed, S!Session, Multi
  <2> QED
    BY <2>1, <2>2, Zenon
<1> HIDE DEF n
<1>2. Placed(n) /\ n # S!Done /\ n.c # "commit"
  <2>1. CASE Len(S!Apks(k.s)) # 0 /\ n = S!Command("write", k.s, 1)
    BY <1>0, <2>1, Numbers DEF Placed, S!Command, S!Done, Multi
  <2>2. CASE Multi /\ k.s = S!Parent /\ n = S!Command("create", 1, 0)
    BY <1>0, <2>2, Numbers DEF Placed, S!Command, S!Done, Multi
  <2> QED
    BY <1>1, <2>1, <2>2, Zenon
<1>3. Opened(n) = Opened(k) \cup {k.s} /\ k.s \notin Opened(k)
  <2>1. Opened(k) = {s \in S!Sessions : s < k.s}
    BY Zenon DEF Opened
  <2>2. Opened(n) = {s \in S!Sessions : s <= k.s}
    BY <1>0, <1>1, Numbers DEF Opened, S!Command, S!Parent
  <2> QED
    BY <1>0, <2>1, <2>2, Numbers
<1>4. ASSUME NEW s \in S!Sessions
      PROVE  Written(n, s) = Written(k, s)
  <2>1. CASE s \notin Opened(n)
    BY <1>3, <2>1, Zenon DEF Written
  <2>2. CASE s \in Opened(k)
    BY <1>1, <1>3, <2>2 DEF Written, S!Command
  <2>3. CASE s = k.s
    <3>1. Written(k, s) = {}
      BY <1>3, <2>3, Zenon DEF Written
    <3>2. CASE n = S!Command("write", k.s, 1)
      <4>1. Written(n, s) = {S!Apks(s)[i] : i \in 1 .. 1 - 1}
        BY <1>3, <2>3, <3>2, Zenon DEF Written, S!Command
      <4> QED
        BY <3>1, <4>1
    <3>3. CASE Multi /\ k.s = S!Parent /\ n = S!Command("create", 1, 0)
      <4>1. Written(n, s) = S!Wanted(s)
        BY <1>3, <2>3, <3>3, Zenon DEF Written, S!Command
      <4>2. S!Wanted(s) = {}
        BY <2>3, <3>3, Numbers DEF S!Wanted
      <4> QED
        BY <3>1, <4>1, <4>2, Zenon
    <3> QED
      BY <1>1, <3>2, <3>3, Zenon
  <2> QED
    BY <1>3, <2>1, <2>2, <2>3, Zenon
<1> QED
  BY <1>2, <1>3, <1>4, Zenon DEF n

\* After a file is written: the next one, the next child, or the end.
LEMMA AfterWrite ==
    ASSUME NEW k, Placed(k), k.c = "write", sessions_mode \in Modes
    PROVE  /\ S!After(k) # S!Done /\ Placed(S!After(k))
           /\ Opened(S!After(k)) = Opened(k) /\ k.s \in Opened(k)
           /\ \A s \in S!Sessions :
                Written(S!After(k), s) = IF s = k.s THEN Written(k, s) \cup {S!File(k)} ELSE Written(k, s)
           /\ S!After(k).c = "commit" => ~Multi
<1> DEFINE n == S!After(k)
<1>0. /\ k.s \in S!Sessions /\ k.i \in 1 .. Len(S!Apks(k.s)) /\ Len(S!Apks(k.s)) \in Nat
      /\ sessions_mode \in {"install_multiple", "install_multiple_streamed", "install_multi_package"}
  BY SplitsAssumption, Numbers, Zenon DEF Placed, S!AllModes
<1>1. \/ k.i < Len(S!Apks(k.s)) /\ n = S!Command("write", k.s, k.i + 1)
      \/ /\ k.i = Len(S!Apks(k.s))
         /\ \/ Multi /\ k.s + 1 \in S!Packages /\ n = S!Command("create", k.s + 1, 0)
            \/ Multi /\ k.s = Len(Splits) /\ n = S!Command("add", S!Parent, 0)
            \/ ~Multi /\ k.s = S!Parent /\ n = S!Command("commit", S!Parent, 0)
  <2>1. CASE Multi
    BY <1>0, <2>1, Numbers DEF S!After, S!install_multi_package_sessions, Multi
  <2>2. CASE ~Multi
    <3>1. k.s = S!Parent /\ S!Apks(k.s) = S!Batch
      BY <2>2, Zenon DEF Placed, S!Apks, Multi
    <3> QED
      BY <1>0, <2>2, <3>1, Numbers DEF S!After, S!install_multiple, S!install_multiple_streamed, S!Session, Multi
  <2> QED
    BY <2>1, <2>2, Zenon
<1> HIDE DEF n
<1>2. Placed(n) /\ n # S!Done /\ (n.c = "commit" => ~Multi)
  <2>1. CASE k.i < Len(S!Apks(k.s)) /\ n = S!Command("write", k.s, k.i + 1)
    BY <1>0, <2>1, Numbers DEF Placed, S!Command, S!Done, Multi
  <2>2. CASE Multi /\ k.s + 1 \in S!Packages /\ n = S!Command("create", k.s + 1, 0)
    BY <1>0, <2>2, Numbers DEF Placed, S!Command, S!Done, Multi
  <2>3. CASE Multi /\ n = S!Command("add", S!Parent, 0)
    BY <1>0, <2>3, Numbers DEF Placed, S!Command, S!Done, Multi, S!Parent
  <2>4. CASE ~Multi /\ n = S!Command("commit", S!Parent, 0)
    BY <1>0, <2>4, Numbers, Zenon DEF Placed, S!Command, S!Done, Multi, S!Parent
  <2> QED
    BY <1>1, <2>1, <2>2, <2>3, <2>4, Zenon
<1>3. Opened(n) = Opened(k) /\ k.s \in Opened(k)
  <2>1. Opened(k) = {s \in S!Sessions : s <= k.s}
    BY Zenon DEF Opened
  <2>2. Opened(n) = {s \in S!Sessions : s <= k.s}
    BY <1>0, <1>1, Numbers, SMTT(60) DEF Opened, S!Command, S!Parent
  <2> QED
    BY <1>0, <2>1, <2>2, Numbers
<1>4. S!File(k) = S!Apks(k.s)[k.i] /\ Written(k, k.s) = {S!Apks(k.s)[i] : i \in 1 .. k.i - 1}
  BY <1>3, Zenon DEF S!File, Written
<1>5. Written(k, k.s) \cup {S!File(k)} = {S!Apks(k.s)[i] : i \in 1 .. k.i}
  BY <1>0, <1>4
<1>6. Written(n, k.s) = {S!Apks(k.s)[i] : i \in 1 .. k.i}
  <2>1. CASE k.i < Len(S!Apks(k.s)) /\ n = S!Command("write", k.s, k.i + 1)
    <3>1. Written(n, k.s) = {S!Apks(k.s)[i] : i \in 1 .. (k.i + 1) - 1}
      BY <1>3, <2>1, Zenon DEF Written, S!Command
    <3>2. (k.i + 1) - 1 = k.i
      BY <1>0
    <3> QED
      BY <3>1, <3>2, Zenon
  <2>2. CASE k.i = Len(S!Apks(k.s)) /\ n.c # "write"
    <3>1. Written(n, k.s) = S!Wanted(k.s)
      BY <1>3, <2>2, Zenon DEF Written
    <3>2. S!Wanted(k.s) = {S!Apks(k.s)[i] : i \in 1 .. Len(S!Apks(k.s))}
      BY <1>0, Numbers, Zenon DEF S!Wanted
    <3> QED
      BY <2>2, <3>1, <3>2, Zenon
  <2> QED
    BY <1>1, <2>1, <2>2 DEF S!Command
<1>7. ASSUME NEW s \in S!Sessions, s # k.s
      PROVE  Written(n, s) = Written(k, s)
  <2>1. n.c = "write" => n.s = k.s
    BY <1>1 DEF S!Command
  <2> QED
    BY <1>3, <1>7, <2>1, Zenon DEF Written
<1> QED
  BY <1>2, <1>3, <1>5, <1>6, <1>7, Zenon DEF n

\* After the children are added: the commit.
LEMMA AfterAdd ==
    ASSUME NEW k, Placed(k), k.c = "add"
    PROVE  /\ S!After(k) # S!Done /\ Placed(S!After(k))
           /\ Opened(S!After(k)) = Opened(k) /\ Opened(k) = S!Sessions
           /\ \A s : Written(S!After(k), s) = Written(k, s)
<1> DEFINE n == S!After(k)
<1>1. Multi /\ n = S!Command("commit", S!Parent, 0)
  BY Zenon DEF Placed, S!After, S!install_multi_package_sessions, Multi
<1> HIDE DEF n
<1>2. Placed(n) /\ n # S!Done
  BY <1>1, Numbers, Zenon DEF Placed, S!Command, S!Parent, Multi, S!Done
<1>3. Opened(n) = S!Sessions /\ Opened(k) = S!Sessions
  BY <1>1, Zenon DEF Opened, S!Command
<1> QED
  BY <1>1, <1>2, <1>3 DEF Written, n, S!Command

\* Nothing comes after an install or a commit.
LEMMA AfterLast ==
    ASSUME NEW k, Placed(k), k.c \in {"install", "commit"}, sessions_mode \in Modes
    PROVE  S!After(k) = S!Done
<1>1. sessions_mode \in S!AllModes
  BY SplitsAssumption, Zenon
<1> QED
  BY <1>1, Zenon DEF Placed, S!AllModes, S!After, S!install_apk, S!install_multiple, S!install_apk_streamed,
     S!install_multiple_streamed, S!install_multi_package_sessions, S!Session

\* A command given over a connection that is up.
LEMMA Given ==
    ASSUME NEW k, NEW o \in {"success", "failure", "broken", "changed", "unparsable"}, link = TRUE, S!Give(k, o)
    PROVE  /\ o \in {"success", "unparsable"} => S!Accepts(k) /\ S!Effect(k) /\ link' = link
           /\ o = "failure" => UNCHANGED <<S!device, link>>
           /\ o = "changed" => /\ UNCHANGED <<session, sessions_files, children, installed, link>>
                               /\ staged' = IF k.c = "push" THEN staged \cup {S!File(k)} ELSE staged
           /\ o = "broken" => link' = FALSE /\ (UNCHANGED S!device \/ (S!Accepts(k) /\ S!Effect(k)))
BY Zenon DEF S!Give

\* What each command changes on the device.
LEMMA Effects ==
    ASSUME NEW k, S!Effect(k)
    PROVE  /\ k.c = "push" => staged' = staged \cup {S!File(k)} /\ UNCHANGED <<session, sessions_files, children, installed>>
           /\ k.c = "install" => installed' = installed \cup {S!File(k)} /\ UNCHANGED <<session, sessions_files, children, staged>>
           /\ k.c = "create" => /\ session' = [session EXCEPT ![k.s] = "open"]
                                /\ UNCHANGED <<sessions_files, children, staged, installed>>
           /\ k.c = "write" => /\ sessions_files' = [sessions_files EXCEPT ![k.s] = @ \cup {S!File(k)}]
                               /\ UNCHANGED <<session, children, staged, installed>>
           /\ k.c = "add" => children' = S!Known \ {S!Parent} /\ UNCHANGED <<session, sessions_files, staged, installed>>
           /\ k.c = "commit" => /\ session' = [s \in S!Sessions |-> IF s \in S!Commits(k.s) THEN "committed" ELSE session[s]]
                                /\ UNCHANGED <<sessions_files, children, staged, installed>>
           /\ k.c = "abandon" => /\ session' = [session EXCEPT ![k.s] = "abandoned"]
                                 /\ UNCHANGED <<sessions_files, children, staged, installed>>
           /\ k.c = "rm" => staged' = staged \ {S!File(k)} /\ UNCHANGED <<session, sessions_files, children, installed>>
BY Zenon DEF S!Effect

\* The file of a push is one of the batch.
LEMMA Pushed ==
    ASSUME NEW k, Placed(k), k.c = "push"
    PROVE  /\ S!File(k) \in {S!Batch[i] : i \in DOMAIN S!Batch}
           /\ sessions_mode = "install_apk" => S!File(k) = S!Batch[1]
BY Numbers, Zenon DEF Placed, S!File, S!Apks, Multi

\* What a command in its turn leaves on the device.
LEMMA Carried ==
    ASSUME STypes, Working, sessions_mode' = sessions_mode, S!Effect(now),
           known' \in Seq(S!Sessions), phase' \in {"start", "work", "cleanup", "returned"}
    PROVE  STypes' /\ Whole'
           /\ (now.c # "commit" => \A s \in S!Sessions : session'[s] # "committed")
           /\ (now.c # "install" => installed' = installed)
<1>0. now.c \in {"push", "install", "create", "write", "add", "commit"} /\ now.s \in S!Sessions
  BY Zenon DEF Working, Placed
<1>1. session' \in [S!Sessions -> {"none", "open", "committed", "abandoned"}]
  BY <1>0, Effects, Zenon DEF STypes
<1>2. DOMAIN sessions_files' = S!Sessions
  BY <1>0, Effects, Zenon DEF STypes
<1>3. /\ staged' \subseteq {S!Batch[i] : i \in DOMAIN S!Batch}
      /\ sessions_mode \notin {"install_apk", "install_multiple"} => staged' = {}
      /\ sessions_mode # "install_multiple" => staged' \subseteq {S!Batch[1]}
  <2>1. CASE now.c = "push"
    BY <2>1, Effects, Pushed DEF STypes, Working, Placed
  <2>2. CASE now.c # "push"
    BY <1>0, <2>2, Effects, Zenon DEF STypes
  <2> QED
    BY <2>1, <2>2, Zenon
<1>4. STypes'
  BY <1>1, <1>2, <1>3, Zenon DEF STypes
<1>5. now.c # "commit" => \A s \in S!Sessions : session'[s] # "committed"
  BY <1>0, Effects, Zenon DEF Working, STypes
<1>6. now.c # "install" => installed' = installed
  BY <1>0, Effects, Zenon
<1>7. Whole'
  <2>1. CASE now.c # "commit"
    <3>1. S!Parent \in S!Sessions
      BY Zenon DEF S!Sessions
    <3> QED
      BY <1>5, <2>1, <3>1, Zenon DEF Whole
  <2>2. CASE now.c = "commit"
    <3>1. now.s = S!Parent /\ Opened(now) = {s \in S!Sessions : Multi \/ s = S!Parent}
      BY <2>2, Zenon DEF Working, Placed, Opened
    <3>2. sessions_files' = sessions_files
          /\ session' = [s \in S!Sessions |-> IF s \in S!Commits(S!Parent) THEN "committed" ELSE session[s]]
      BY <2>2, <3>1, Effects, SMTT(60)
    <3>3. \A s \in Opened(now) : sessions_files[s] = S!Wanted(s)
      BY <2>2, <3>1, Zenon DEF Working, Written
    <3>4. S!Commits(S!Parent) = IF Multi THEN {S!Parent} \cup S!Packages ELSE {S!Parent}
      BY <2>2, Zenon DEF S!Commits, Working, Multi
    <3>5. \A s \in S!Sessions : session'[s] = "committed" => s \in Opened(now)
      BY <3>1, <3>2, <3>4, Zenon DEF Working
    <3>6. Multi => \A p \in S!Packages : session'[p] = "committed"
      BY <3>2, <3>4, Zenon DEF S!Sessions
    <3> QED
      BY <3>2, <3>3, <3>5, <3>6, SameCall DEF Whole
  <2> QED
    BY <2>1, <2>2, Zenon
<1> QED
  BY <1>4, <1>5, <1>6, <1>7, Zenon

\* A session that is made is known.
LEMMA Knowing ==
    ASSUME known \in Seq(S!Sessions), NEW s \in S!Sessions, known' = Append(known, s)
    PROVE  known' \in Seq(S!Sessions) /\ S!Known' = S!Known \cup {s}
<1>1. known' \in Seq(S!Sessions) /\ Len(known') = Len(known) + 1 /\ Len(known) \in Nat
      /\ DOMAIN known = 1 .. Len(known) /\ DOMAIN known' = 1 .. Len(known) + 1
  OBVIOUS
<1>2. (\A i \in 1 .. Len(known) : known'[i] = known[i]) /\ known'[Len(known) + 1] = s
  OBVIOUS
<1> QED
  BY <1>1, <1>2 DEF S!Known

\* A command that succeeds and is not the last.
LEMMA GoesOn ==
    ASSUME SInv, phase = "work", now' = S!After(now), S!After(now) # S!Done, S!Effect(now),
           known' = (IF now.c = "create" THEN Append(known, now.s) ELSE known),
           UNCHANGED <<sessions_mode, sessions_todo, phase, failed, refused, link>>
    PROVE  SInv'
<1>0. STypes /\ Fresh /\ Working /\ now.c \in {"push", "install", "create", "write", "add", "commit"}
      /\ now.s \in S!Sessions /\ sessions_mode \in Modes
  BY Zenon DEF SInv, STypes, Working, Placed
<1>1. now.c \notin {"install", "commit"}
  BY <1>0, AfterLast, Zenon DEF Working
<1>2. known' \in Seq(S!Sessions) /\ S!Known' = IF now.c = "create" THEN S!Known \cup {now.s} ELSE S!Known
  <2>1. CASE now.c = "create"
    BY <1>0, <2>1, Knowing, Zenon DEF STypes
  <2>2. CASE now.c # "create"
    BY <1>0, <2>2, Zenon DEF STypes, S!Known
  <2> QED
    BY <2>1, <2>2, Zenon
<1>3. STypes' /\ Whole' /\ installed' = installed
  BY <1>0, <1>1, <1>2, Carried, Zenon DEF STypes
<1>4. Fresh'
  BY <1>0, <1>3, Zenon DEF Fresh
<1>5. Placed(S!After(now)) /\ Opened(S!After(now)) = S!Known'
  BY <1>0, <1>1, <1>2, AfterPush, AfterCreate, AfterWrite, AfterAdd, Zenon DEF Working
<1>6. \A s \in S!Sessions : session'[s] = IF s \in Opened(S!After(now)) THEN "open" ELSE "none"
  <2>1. CASE now.c = "create"
    BY <1>0, <2>1, AfterCreate, Effects, SMTT(60) DEF Working, STypes
  <2>2. CASE now.c # "create"
    BY <1>0, <1>1, <1>2, <1>5, <2>2, Effects, Zenon DEF Working
  <2> QED
    BY <2>1, <2>2, Zenon
<1>7. \A s \in S!Sessions : sessions_files'[s] = Written(S!After(now), s)
  <2>1. CASE now.c = "write"
    <3>1. \A s \in S!Sessions :
             sessions_files'[s] = IF s = now.s THEN sessions_files[s] \cup {S!File(now)} ELSE sessions_files[s]
      <4>1. sessions_files' = [sessions_files EXCEPT ![now.s] = sessions_files[now.s] \cup {S!File(now)}]
        BY <2>1, Effects, Zenon
      <4>2. DOMAIN sessions_files = S!Sessions
        BY <1>0, Zenon DEF STypes
      <4> QED
        BY <4>1, <4>2, Zenon
    <3>2. \A s \in S!Sessions : sessions_files[s] = Written(now, s)
      BY <1>0, Zenon DEF Working
    <3>3. Placed(now)
      BY <1>0, Zenon DEF Working
    <3> QED
      BY <1>0, <2>1, <3>1, <3>2, <3>3, AfterWrite, ZenonT(60)
  <2>2. CASE now.c \in {"push", "create", "add"}
    BY <1>0, <2>2, AfterPush, AfterCreate, AfterAdd, Effects, SMTT(60) DEF Working
  <2> QED
    BY <1>0, <1>1, <2>1, <2>2, Zenon
<1>8. S!After(now).c = "commit" /\ Multi => children' = S!Packages
  <2>1. CASE now.c = "add"
    <3>1. S!Known = S!Sessions
      BY <1>0, <2>1, AfterAdd, Zenon DEF Working
    <3>2. children' = S!Sessions \ {S!Parent}
      BY <2>1, <3>1, Effects, Zenon
    <3> QED
      BY <3>2, Numbers DEF S!Parent
  <2>2. CASE now.c \in {"push", "create", "write"}
    BY <1>0, <2>2, AfterPush, AfterCreate, AfterWrite, Zenon DEF Working
  <2> QED
    BY <1>0, <1>1, <2>1, <2>2, Zenon
<1>9. Working'
  <2>1. Placed(now)' /\ Opened(now)' = Opened(S!After(now)) /\ Multi' = Multi
        /\ \A s : Written(now, s)' = Written(S!After(now), s)
    <3>1. Placed(now)' <=> Placed(S!After(now))
      BY Zenon DEF Placed, Multi, S!Apks
    <3> QED
      BY <1>5, SameCall, Zenon
  <2> QED
    BY <1>5, <1>6, <1>7, <1>8, <2>1, Zenon DEF Working
<1> QED
  BY <1>3, <1>4, <1>9, Zenon DEF SInv

\* The clean-up abandons every known session after a failure, and removes the
\* files that were to be pushed.
LEMMA ToCleanUp ==
    ASSUME known \in Seq(S!Sessions), NEW k, Placed(k), NEW ok \in BOOLEAN
    PROVE  /\ S!Cleanup(k, ok) \in Seq(Chores)
           /\ ~ok => \A s \in S!Known : Abandoned(S!Cleanup(k, ok), s)
           /\ sessions_mode = "install_multiple" \/ (sessions_mode = "install_apk" /\ k.c = "install") =>
                \A f \in {S!Batch[i] : i \in DOMAIN S!Batch} :
                   f = S!Batch[1] \/ sessions_mode = "install_multiple" => Removed(S!Cleanup(k, ok), f)
<1> DEFINE a == IF ok THEN <<>> ELSE S!Abandons
           b == CASE sessions_mode = "install_apk" /\ k.c = "install" -> <<S!Command("rm", S!Parent, k.i)>>
                  [] sessions_mode = "install_multiple" -> S!cleanup_staged_apks
                  [] OTHER -> <<>>
<1>1. S!Cleanup(k, ok) = a \o b
  BY Zenon DEF S!Cleanup
<1>2. Len(known) \in Nat /\ DOMAIN known = 1 .. Len(known) /\ \A i \in 1 .. Len(known) : known[i] \in S!Sessions
  OBVIOUS
<1>3. S!Abandons \in [1 .. Len(known) -> Chores]
      /\ \A i \in 1 .. Len(known) : S!Abandons[i].c = "abandon" /\ S!Abandons[i].s = known[i]
  BY <1>2, Zenon DEF S!Abandons, S!Command, Chores
<1>4. a \in Seq(Chores) /\ (~ok => a = S!Abandons /\ Len(a) = Len(known))
  BY <1>2, <1>3
<1>5. S!Parent \in S!Sessions /\ k.i \in Nat
  BY Zenon DEF S!Sessions, Placed
<1>6. sessions_mode = "install_apk" /\ k.c = "install" => b = <<S!Command("rm", S!Parent, 1)>>
  BY Zenon DEF Placed
<1>7. sessions_mode = "install_multiple" => b = S!cleanup_staged_apks
  BY Zenon
<1>8. S!cleanup_staged_apks \in [1 .. Len(S!Batch) -> Chores]
      /\ \A i \in 1 .. Len(S!Batch) : S!cleanup_staged_apks[i] = S!Command("rm", S!Parent, i)
  BY <1>5, Numbers DEF S!cleanup_staged_apks, S!Command, Chores
<1>9. S!cleanup_staged_apks \in Seq(Chores) /\ Len(S!cleanup_staged_apks) = Len(S!Batch)
  BY <1>8, Numbers
<1>10. S!Command("rm", S!Parent, k.i) \in Chores
  BY <1>5, Zenon DEF S!Command, Chores
<1>11. b \in Seq(Chores)
  BY <1>9, <1>10
<1> HIDE DEF a, b
<1>12. /\ a \o b \in Seq(Chores)
       /\ \A j \in 1 .. Len(a) : j \in DOMAIN (a \o b) /\ (a \o b)[j] = a[j]
       /\ \A j \in 1 .. Len(b) : Len(a) + j \in DOMAIN (a \o b) /\ (a \o b)[Len(a) + j] = b[j]
  BY <1>4, <1>11
<1>13. ~ok => \A s \in S!Known : Abandoned(a \o b, s)
  <2> SUFFICES ASSUME ~ok, NEW i \in 1 .. Len(known)
               PROVE  Abandoned(a \o b, known[i])
    BY <1>2, Zenon DEF S!Known
  <2> QED
    BY <1>3, <1>4, <1>12 DEF Abandoned
<1>14. ASSUME ~Multi, NEW i \in 1 .. Len(S!Batch)
       PROVE  S!File(S!Command("rm", S!Parent, i)) = S!Batch[i]
  BY <1>14, Zenon DEF S!File, S!Command, S!Apks, Multi
<1>15. ASSUME sessions_mode = "install_multiple", NEW i \in 1 .. Len(S!Batch)
       PROVE  Removed(a \o b, S!Batch[i])
  <2>1. b[i] = S!Command("rm", S!Parent, i) /\ Len(b) = Len(S!Batch) /\ ~Multi
    BY <1>7, <1>8, <1>9, <1>15, Zenon DEF Multi
  <2>2. b[i].c = "rm"
    BY <2>1 DEF S!Command
  <2>3. Len(a) + i \in DOMAIN (a \o b) /\ (a \o b)[Len(a) + i] = b[i]
    BY <1>12, <2>1, Zenon
  <2> QED
    BY <1>14, <2>1, <2>2, <2>3, Zenon DEF Removed
<1>16. ASSUME sessions_mode = "install_apk", k.c = "install"
       PROVE  Removed(a \o b, S!Batch[1])
  <2>1. b[1] = S!Command("rm", S!Parent, 1) /\ Len(b) = 1 /\ ~Multi
    BY <1>6, <1>16 DEF Multi
  <2>2. b[1].c = "rm"
    BY <2>1 DEF S!Command
  <2>3. Len(a) + 1 \in DOMAIN (a \o b) /\ (a \o b)[Len(a) + 1] = b[1]
    BY <1>12, <2>1
  <2> QED
    <3>1. 1 \in 1 .. Len(S!Batch)
      BY Numbers
    <3> QED
      BY <1>14, <2>1, <2>2, <2>3, <3>1, Zenon DEF Removed
<1>17. ASSUME sessions_mode = "install_multiple" \/ (sessions_mode = "install_apk" /\ k.c = "install"),
              NEW f \in {S!Batch[i] : i \in DOMAIN S!Batch}, f = S!Batch[1] \/ sessions_mode = "install_multiple"
       PROVE  Removed(a \o b, f)
  <2>1. PICK i \in 1 .. Len(S!Batch) : f = S!Batch[i]
    BY Numbers, Zenon
  <2> QED
    BY <1>15, <1>16, <1>17, <2>1, Zenon
<1> QED
  BY <1>1, <1>12, <1>13, <1>17, Zenon

\* A command that fails: the clean-up has everything to do.

\* A command that fails: everything there is has its clean-up.
LEMMA Stops ==
    ASSUME SInv, phase = "work", NEW o \in {"failure", "broken", "changed", "unparsable"}, S!Give(now, o),
           o = "unparsable" => now.c = "create",
           S!Enter(S!Cleanup(now, FALSE), FALSE), UNCHANGED <<sessions_mode, known, refused>>
    PROVE  SInv'
<1>0. STypes /\ Whole /\ Fresh /\ Working /\ Placed(now) /\ known \in Seq(S!Sessions) /\ S!Parent \in S!Sessions
  BY Zenon DEF SInv, STypes, Working, S!Sessions
<1>1. /\ failed' = TRUE /\ sessions_todo' = S!Cleanup(now, FALSE) /\ phase' \in {"cleanup", "returned"}
      /\ (phase' = "cleanup") = (sessions_todo' # <<>>)
  BY Zenon DEF S!Enter
<1>2. /\ o = "unparsable" => S!Effect(now) /\ link' = link
      /\ o = "failure" => UNCHANGED <<S!device, link>>
      /\ o = "changed" => /\ UNCHANGED <<session, sessions_files, children, installed, link>>
                          /\ staged' = IF now.c = "push" THEN staged \cup {S!File(now)} ELSE staged
      /\ o = "broken" => link' = FALSE /\ (UNCHANGED S!device \/ S!Effect(now))
  BY <1>0, Given, ZenonT(60) DEF Fresh
<1>3. /\ session[S!Parent] # "committed" /\ installed = {}
      /\ \A s \in S!Sessions : session[s] # "committed"
  BY <1>0, Zenon DEF Working, Fresh
<1>4. STypes' /\ Whole' /\ (link' => session'[S!Parent] # "committed" /\ installed' = {})
  <2>1. CASE S!Effect(now)
    <3>1. STypes' /\ Whole'
      BY <1>0, <1>1, <2>1, Carried, Zenon
    <3>2. (now.c # "commit" => \A s \in S!Sessions : session'[s] # "committed")
          /\ (now.c # "install" => installed' = installed)
      BY <1>0, <1>1, <2>1, Carried, Zenon
    <3>3. CASE o = "unparsable"
      BY <1>0, <1>3, <3>1, <3>2, <3>3, Zenon
    <3>4. CASE o = "broken"
      BY <1>2, <3>1, <3>4, Zenon
    <3>5. CASE o \in {"failure", "changed"}
      <4>1. session' = session /\ installed' = installed
        BY <1>2, <3>5, Zenon DEF S!device
      <4> QED
        BY <1>3, <3>1, <4>1, Zenon
    <3> QED
      BY <3>3, <3>4, <3>5, Zenon
  <2>2. CASE UNCHANGED <<session, sessions_files, children, installed>>
              /\ (staged' = staged \/ (now.c = "push" /\ staged' = staged \cup {S!File(now)}))
    <3>1. STypes'
      BY <1>0, <1>1, <2>2, Pushed, SMTT(60) DEF STypes, Placed
    <3>2. Whole'
      BY <1>0, <1>3, <2>2, Zenon DEF Whole
    <3> QED
      BY <1>3, <2>2, <3>1, <3>2, Zenon
  <2> QED
    BY <1>2, <2>1, <2>2, Zenon DEF S!device
<1>5. Cleaning'
  <2>1. sessions_todo' \in Seq(Chores)
    BY <1>0, <1>1, ToCleanUp, Zenon
  <2>2. \A s \in S!Known' : Abandoned(sessions_todo', s)
    <3>1. S!Known' = S!Known
      BY Zenon DEF S!Known
    <3> QED
      BY <1>0, <1>1, <3>1, ToCleanUp, Zenon
  <2>3. ASSUME link', NEW f \in staged'
        PROVE  (sessions_mode' = "install_apk" /\ installed' = {}) \/ Removed(sessions_todo', f)
    <3>1. f \in {S!Batch[i] : i \in DOMAIN S!Batch} /\ sessions_mode \in {"install_apk", "install_multiple"}
      BY <1>4, <2>3, Zenon DEF STypes
    <3>2. CASE sessions_mode = "install_apk"
      BY <1>4, <2>3, <3>2, Zenon
    <3>3. CASE sessions_mode = "install_multiple"
      BY <1>0, <1>1, <3>1, <3>3, ToCleanUp, ZenonT(60)
    <3> QED
      BY <3>1, <3>2, <3>3, Zenon
  <2>4. \A f : Removed(sessions_todo, f)' <=> Removed(sessions_todo', f)
    BY Zenon DEF Removed, S!File, S!Apks
  <2>5. \A s : Abandoned(sessions_todo, s)' <=> Abandoned(sessions_todo', s)
    BY Zenon DEF Abandoned
  <2> QED
    BY <1>1, <1>4, <2>1, <2>2, <2>3, <2>4, <2>5, Zenon DEF Cleaning
<1> QED
  BY <1>1, <1>4, <1>5, Zenon DEF SInv

\* The last command succeeds.
LEMMA Ends ==
    ASSUME SInv, phase = "work", S!After(now) = S!Done, S!Effect(now),
           known' = (IF now.c = "create" THEN Append(known, now.s) ELSE known),
           S!Enter(S!Cleanup(now, TRUE), TRUE), UNCHANGED <<sessions_mode, refused, link>>
    PROVE  SInv'
<1>0. /\ STypes /\ Whole /\ Fresh /\ Working /\ Placed(now) /\ known \in Seq(S!Sessions) /\ S!Parent \in S!Sessions
      /\ now.c \in {"push", "install", "create", "write", "add", "commit"} /\ sessions_mode \in Modes
  BY Zenon DEF SInv, STypes, Working, S!Sessions, Placed
<1>1. /\ failed' = FALSE /\ sessions_todo' = S!Cleanup(now, TRUE) /\ phase' \in {"cleanup", "returned"}
      /\ (phase' = "cleanup") = (sessions_todo' # <<>>)
  BY Zenon DEF S!Enter
<1>2. now.c \in {"install", "commit"}
  BY <1>0, AfterPush, AfterCreate, AfterWrite, AfterAdd, Zenon
<1>3. known' = known /\ S!Known' = S!Known
  BY <1>2, Zenon DEF S!Known
<1>4. STypes' /\ Whole'
  BY <1>0, <1>1, <1>3, Carried, Zenon
<1>5. \A s \in S!Known : session'[s] # "open"
  <2>1. CASE now.c = "install"
    BY <1>0, <2>1, Zenon DEF Working, Opened
  <2>2. CASE now.c = "commit"
    <3>1. S!Known = {s \in S!Sessions : Multi \/ s = S!Parent}
      BY <1>0, <2>2, Zenon DEF Working, Opened
    <3>2. S!Commits(now.s) = IF Multi THEN {S!Parent} \cup S!Packages ELSE {S!Parent}
      BY <1>0, <2>2, ZenonT(60) DEF S!Commits, Working, Multi, Placed
    <3>3. \A s \in S!Known : s \in S!Sessions /\ s \in S!Commits(now.s)
      BY <3>1, <3>2, Zenon DEF S!Sessions
    <3> QED
      BY <2>2, <3>3, Effects, SMTT(60)
  <2> QED
    BY <1>2, <2>1, <2>2, Zenon
<1>6. session'[S!Parent] = "committed" \/ installed' = {S!Batch[1]}
  <2>1. CASE now.c = "install"
    <3>1. S!File(now) = S!Batch[1]
      BY <1>0, <2>1, ZenonT(60) DEF Placed, S!File, S!Apks
    <3> QED
      BY <1>0, <2>1, <3>1, Effects, Zenon DEF Fresh
  <2>2. CASE now.c = "commit"
    <3>1. S!Parent \in S!Commits(now.s)
      BY <1>0, <2>2, Zenon DEF S!Commits, Placed
    <3> QED
      BY <1>0, <2>2, <3>1, Effects, SMTT(60)
  <2> QED
    BY <1>2, <2>1, <2>2, Zenon
<1>7. Cleaning'
  <2>1. sessions_todo' \in Seq(Chores)
    BY <1>0, <1>1, ToCleanUp, Zenon
  <2>2. ASSUME NEW f \in staged'
        PROVE  Removed(sessions_todo', f)
    <3>1. /\ f \in {S!Batch[i] : i \in DOMAIN S!Batch} /\ sessions_mode \in {"install_apk", "install_multiple"}
          /\ sessions_mode = "install_apk" => f = S!Batch[1]
      BY <1>4, <2>2, Zenon DEF STypes
    <3>2. sessions_mode = "install_apk" => now.c = "install"
      BY <1>0, <1>2, Zenon DEF Placed
    <3> QED
      BY <1>0, <1>1, <3>1, <3>2, ToCleanUp, Zenon
  <2>3. \A f : Removed(sessions_todo, f)' <=> Removed(sessions_todo', f)
    BY Zenon DEF Removed, S!File, S!Apks
  <2> QED
    BY <1>1, <1>3, <1>5, <1>6, <2>1, <2>2, <2>3, ZenonT(60) DEF Cleaning
<1> QED
  BY <1>1, <1>4, <1>7, Zenon DEF SInv

\* Every command of the entry point keeps the invariant.
LEMMA Works ==
    ASSUME SInv, S!Work
    PROVE  SInv'
<1>1. PICK o \in S!Outcomes(now) :
        /\ S!Give(now, o)
        /\ known' = IF now.c = "create" /\ o = "success" THEN Append(known, now.s) ELSE known
        /\ IF o = "success" /\ S!After(now) # S!Done
           THEN now' = S!After(now) /\ UNCHANGED <<sessions_todo, phase, failed>>
           ELSE S!Enter(S!Cleanup(now, o = "success"), o = "success")
  BY Zenon DEF S!Work
<1>2. phase = "work" /\ UNCHANGED <<sessions_mode, refused>>
  BY Zenon DEF S!Work
<1>3. o \in {"success", "failure", "broken", "changed", "unparsable"} /\ (o = "unparsable" => now.c = "create")
  BY <1>1, Zenon DEF S!Outcomes, S!push_apk_to_path, S!parse_install_session_id, S!stream_file_to_install_command,
     S!run_shell_command
<1>4. link = TRUE
  BY <1>2, Zenon DEF SInv, Fresh
<1>5. CASE o = "success"
  <2>1. S!Effect(now) /\ link' = link
    BY <1>1, <1>3, <1>4, <1>5, Given, Zenon
  <2>2. known' = IF now.c = "create" THEN Append(known, now.s) ELSE known
    BY <1>1, <1>5, Zenon
  <2>3. CASE S!After(now) # S!Done
    BY <1>1, <1>2, <1>5, <2>1, <2>2, <2>3, GoesOn, Zenon
  <2>4. CASE S!After(now) = S!Done
    <3>1. S!Enter(S!Cleanup(now, TRUE), TRUE)
      BY <1>1, <1>5, <2>4, ZenonT(60)
    <3> QED
      BY <1>2, <2>1, <2>2, <2>4, <3>1, Ends, Zenon
  <2> QED
    BY <2>3, <2>4, Zenon
<1>6. CASE o # "success"
  <2>1. S!Enter(S!Cleanup(now, FALSE), FALSE)
    <3>1. (o = "success") = FALSE
      BY <1>6, Zenon
    <3> QED
      BY <1>1, <1>6, <3>1, Zenon
  <2>2. UNCHANGED known
    BY <1>1, <1>6, Zenon
  <2> QED
    BY <1>1, <1>2, <1>3, <1>6, <2>1, <2>2, Stops, Zenon
<1> QED
  BY <1>5, <1>6, Zenon

\* A command of the clean-up, carried out or not, leaves only what is still to do.
LEMMA CleansUp ==
    ASSUME SInv, S!CleanUp
    PROVE  SInv'
<1> DEFINE h == Head(sessions_todo)
<1>0. /\ STypes /\ Whole /\ Cleaning /\ phase = "cleanup" /\ S!Parent \in S!Sessions
      /\ sessions_todo \in Seq(Chores) /\ sessions_todo # <<>>
  BY Zenon DEF SInv, S!CleanUp, Cleaning, S!Sessions
<1>1. PICK o \in S!run_shell_command : S!Give(h, o) /\ refused' = (refused \/ (o = "failure" /\ S!Accepts(h)))
  BY Zenon DEF S!CleanUp
<1>2. /\ sessions_todo' = Tail(sessions_todo) /\ UNCHANGED <<sessions_mode, failed, known>>
      /\ phase' = IF sessions_todo' = <<>> THEN "returned" ELSE "cleanup"
  BY <1>0, Zenon DEF S!CleanUp
<1>3. h \in Chores /\ sessions_todo' \in Seq(Chores)
      /\ \A j \in DOMAIN sessions_todo :
            sessions_todo[j] = h \/ \E i \in DOMAIN sessions_todo' : sessions_todo'[i] = sessions_todo[j]
  <2>1. h = sessions_todo[1] /\ h \in Chores /\ sessions_todo' \in Seq(Chores)
    BY <1>0, <1>2
  <2>2. ASSUME NEW j \in DOMAIN sessions_todo, j # 1
        PROVE  j - 1 \in DOMAIN sessions_todo' /\ sessions_todo'[j - 1] = sessions_todo[j]
    BY <1>0, <1>2, <2>2
  <2> QED
    BY <2>1, <2>2, Zenon
<1> HIDE DEF h
<1>4. h.c \in {"abandon", "rm"} /\ h.s \in S!Sessions
  BY <1>3, Zenon DEF Chores
<1>5. /\ ~link => UNCHANGED <<S!device, link>>
      /\ link' => link /\ (\/ o = "success" /\ S!Accepts(h) /\ S!Effect(h)
                           \/ o = "failure" /\ UNCHANGED S!device)
      /\ UNCHANGED S!device \/ (S!Accepts(h) /\ S!Effect(h))
  BY <1>1, ZenonT(60) DEF S!Give, S!run_shell_command
<1>6. /\ UNCHANGED <<sessions_files, installed>> /\ staged' \subseteq staged
      /\ session' \in [S!Sessions -> {"none", "open", "committed", "abandoned"}]
      /\ \A s \in S!Sessions : session'[s] = session[s] \/ (session[s] = "open" /\ session'[s] = "abandoned")
  <2>1. CASE UNCHANGED S!device
    BY <1>0, <2>1, Zenon DEF S!device, STypes
  <2>2. CASE S!Accepts(h) /\ S!Effect(h)
    <3>1. CASE h.c = "abandon"
      <4>1. session[h.s] = "open"
        BY <2>2, <3>1, Zenon DEF S!Accepts
      <4> QED
        BY <1>0, <1>4, <2>2, <3>1, <4>1, Effects DEF STypes
    <3>2. CASE h.c = "rm"
      BY <1>0, <2>2, <3>2, Effects, SMTT(60) DEF STypes
    <3> QED
      BY <1>4, <3>1, <3>2, Zenon
  <2> QED
    BY <1>5, <2>1, <2>2, Zenon
<1>7. STypes'
  BY <1>0, <1>2, <1>6, Zenon DEF STypes
<1>8. Whole'
  <2>1. \A s \in S!Sessions : session'[s] = "committed" <=> session[s] = "committed"
    BY <1>6, Zenon
  <2>2. \A s : S!Wanted(s)' = S!Wanted(s)
    BY <1>2, SameCall, Zenon
  <2>3. Multi' = Multi /\ S!Packages \subseteq S!Sessions
    BY <1>2, SameCall, Zenon DEF S!Sessions
  <2>4. \A s \in S!Sessions : session'[s] = "committed" => sessions_files'[s] = S!Wanted(s)'
    BY <1>0, <1>6, <2>1, <2>2, Zenon DEF Whole
  <2>5. session'[S!Parent] = "committed" /\ Multi => \A p \in S!Packages : session'[p] = "committed"
    BY <1>0, <2>1, <2>3, Zenon DEF Whole
  <2> QED
    BY <2>3, <2>4, <2>5, Zenon DEF Whole
<1>9. ASSUME link', ~refused'
      PROVE  /\ \A s \in S!Known : session'[s] = "open" => Abandoned(sessions_todo', s)
             /\ \A f \in staged' : (sessions_mode = "install_apk" /\ installed = {}) \/ Removed(sessions_todo', f)
  <2>1. /\ link /\ ~refused
        /\ \/ S!Accepts(h) /\ S!Effect(h)
           \/ ~S!Accepts(h) /\ UNCHANGED S!device
    BY <1>1, <1>5, <1>9, ZenonT(60)
  <2>2. ASSUME NEW s \in S!Known, session'[s] = "open"
        PROVE  Abandoned(sessions_todo', s)
    <3>1. s \in S!Sessions /\ session[s] = "open"
      BY <1>0, <1>6, <2>2 DEF STypes, S!Known
    <3>2. PICK j \in DOMAIN sessions_todo : sessions_todo[j].c = "abandon" /\ sessions_todo[j].s = s
      BY <1>0, <2>1, <3>1, Zenon DEF Cleaning, Abandoned
    <3>3. sessions_todo[j] # h
      <4> SUFFICES ASSUME h.c = "abandon", h.s = s
                   PROVE  FALSE
        BY <3>2, Zenon
      <4>1. S!Accepts(h)
        BY <3>1, Zenon DEF S!Accepts
      <4>2. session' = [session EXCEPT ![h.s] = "abandoned"]
        BY <2>1, <4>1, Effects, Zenon
      <4> QED
        BY <1>0, <2>2, <3>1, <4>2, Zenon DEF STypes
    <3> QED
      BY <1>3, <3>2, <3>3, Zenon DEF Abandoned
  <2>3. ASSUME NEW f \in staged', ~(sessions_mode = "install_apk" /\ installed = {})
        PROVE  Removed(sessions_todo', f)
    <3>1. f \in staged
      BY <1>6, Zenon
    <3>2. PICK j \in DOMAIN sessions_todo : sessions_todo[j].c = "rm" /\ S!File(sessions_todo[j]) = f
      BY <1>0, <2>1, <2>3, <3>1, Zenon DEF Cleaning, Removed
    <3>3. sessions_todo[j] # h
      <4> SUFFICES ASSUME h.c = "rm", S!File(h) = f
                   PROVE  FALSE
        BY <3>2, Zenon
      <4>1. S!Accepts(h)
        BY <3>1, Zenon DEF S!Accepts
      <4>2. staged' = staged \ {f}
        BY <2>1, <4>1, Effects, Zenon
      <4> QED
        BY <4>2, Zenon
    <3> QED
      BY <1>3, <3>2, <3>3, Zenon DEF Removed
  <2> QED
    BY <2>2, <2>3, Zenon
<1>10. /\ ~failed => session'[S!Parent] = "committed" \/ installed = {S!Batch[1]}
       /\ failed /\ link' => session'[S!Parent] # "committed" /\ installed = {}
  BY <1>0, <1>5, <1>6, Zenon DEF Cleaning
<1>11. S!Known' = S!Known
  BY <1>2, Zenon DEF S!Known
<1>12. \A f : Removed(sessions_todo, f)' <=> Removed(sessions_todo', f)
  BY <1>2, Zenon DEF Removed, S!File, S!Apks
<1>13. Cleaning'
  BY <1>2, <1>3, <1>6, <1>9, <1>10, <1>11, <1>12, Zenon DEF Cleaning
<1> QED
  BY <1>2, <1>7, <1>8, <1>13, Zenon DEF SInv

\* A call begins with nothing on the device.
LEMMA Begins == S!Init => SInv
<1> SUFFICES ASSUME S!Init PROVE SInv
  BY Zenon
<1>1. STypes
  BY DEF S!Init, STypes
<1>2. Fresh
  BY Zenon DEF S!Init, Fresh
<1>3. Whole
  <2>1. S!Parent \in S!Sessions /\ \A s \in S!Sessions : session[s] = "none"
    BY Zenon DEF S!Init, S!Sessions
  <2> QED
    BY <2>1, Zenon DEF Whole
<1> QED
  BY <1>1, <1>2, <1>3, Zenon DEF SInv, S!Init

\* The local files are looked at first.
LEMMA StartsUp ==
    ASSUME SInv, S!Start
    PROVE  SInv'
<1>0. /\ STypes /\ Whole /\ Fresh /\ phase = "start" /\ sessions_mode \in Modes /\ S!Parent \in S!Sessions
      /\ UNCHANGED <<sessions_mode, sessions_todo, known, link, refused, session, sessions_files, children, staged, installed>>
  BY Zenon DEF SInv, S!Start, S!device, STypes, S!Sessions
<1>1. /\ known = <<>> /\ staged = {} /\ sessions_todo = <<>> /\ session = [s \in S!Sessions |-> "none"]
      /\ sessions_files = [s \in S!Sessions |-> {}] /\ link = TRUE /\ refused = FALSE /\ installed = {}
  BY <1>0, Zenon DEF Fresh
<1>2. phase' \in {"work", "returned"}
  BY Zenon DEF S!Start
<1>3. STypes'
  BY <1>0, <1>2, ZenonT(60) DEF STypes
<1>4. Whole'
  BY <1>0, <1>1, SameCall, Zenon DEF Whole, S!Sessions
<1>5. S!Known = {} /\ S!Known' = {}
  BY <1>0, <1>1 DEF S!Known
<1>6. CASE phase' = "work"
  <2>1. now' = S!After(S!Begin) /\ failed' = failed
    BY <1>6, Zenon DEF S!Start
  <2>2. Fresh'
    BY <1>0, <1>6, <2>1, Zenon DEF Fresh
  <2>3. /\ Placed(S!After(S!Begin)) /\ Opened(S!After(S!Begin)) = {}
        /\ \A s : Written(S!After(S!Begin), s) = {}
    BY <1>0, AfterBegin, Zenon
  <2>4. Placed(now)' /\ Opened(now)' = {} /\ \A s : Written(now, s)' = {}
    BY <1>0, <2>1, <2>3, SameCall, Zenon
  <2>5. S!After(S!Begin).c # "commit"
    <3>1. S!Begin.c = "begin"
      BY Zenon DEF S!Begin, S!Command
    <3> QED
      BY <1>0, <3>1, SplitsAssumption, SMTT(60) DEF S!After, S!AllModes, S!install_apk, S!install_multiple,
         S!install_apk_streamed, S!install_multiple_streamed, S!install_multi_package_sessions, S!Session, S!Command
  <2>6. Working'
    BY <1>0, <1>1, <1>5, <2>1, <2>4, <2>5, Zenon DEF Working
  <2> QED
    BY <1>3, <1>4, <1>6, <2>2, <2>6, Zenon DEF SInv
<1>7. CASE phase' = "returned"
  <2>1. failed' = TRUE
    BY <1>7, Zenon DEF S!Start
  <2>2. sessions_todo' \in Seq(Chores) /\ sessions_todo' = <<>>
    BY <1>0, <1>1, SMTT(60)
  <2>3. Cleaning'
    BY <1>0, <1>1, <1>5, <1>7, <2>1, <2>2, Zenon DEF Cleaning
  <2> QED
    BY <1>3, <1>4, <1>7, <2>3, Zenon DEF SInv
<1> QED
  BY <1>2, <1>6, <1>7, Zenon

\* A step that changes nothing.
LEMMA Idles ==
    ASSUME SInv, UNCHANGED S!vars
    PROVE  SInv'
<1>1. /\ UNCHANGED <<sessions_mode, now, sessions_todo, phase, failed, known, link, refused, session, sessions_files>>
      /\ UNCHANGED <<children, staged, installed>>
  BY Zenon DEF S!vars
<1>2. STypes => STypes'
  BY <1>1, Zenon DEF STypes
<1>3. Whole => Whole'
  BY <1>1, SameCall, Zenon DEF Whole
<1>4. Fresh => Fresh'
  BY <1>1, Zenon DEF Fresh
<1>5. S!Known' = S!Known
  BY <1>1, ZenonT(60) DEF S!Known
<1>6. Working => Working'
  <2>1. Placed(now)' = Placed(now) /\ Opened(now)' = Opened(now) /\ Multi' = Multi
        /\ \A s : Written(now, s)' = Written(now, s)
    BY <1>1, SameCall, Zenon
  <2> QED
    BY <1>1, <1>5, <2>1, Zenon DEF Working
<1>7. Cleaning => Cleaning'
  <2>1. \A f : Removed(sessions_todo, f)' <=> Removed(sessions_todo, f)
    BY <1>1, Zenon DEF Removed, S!File, S!Apks
  <2>2. \A s : Abandoned(sessions_todo, s)' <=> Abandoned(sessions_todo, s)
    BY <1>1, Zenon DEF Abandoned
  <2> QED
    BY <1>1, <1>5, <2>1, <2>2, Zenon DEF Cleaning
<1> QED
  BY <1>1, <1>2, <1>3, <1>4, <1>6, <1>7, Zenon DEF SInv

\* Every step keeps the invariant.
LEMMA SessionStep ==
    ASSUME SInv, [S!Next]_(S!vars)
    PROVE  SInv'
BY Idles, StartsUp, Works, CleansUp, Zenon DEF S!Next

\* Whatever packages are installed in whichever way, with the connection, the
\* device or a local file failing at any command: a package is committed whole
\* or not at all, packages installed together are committed together, and the
\* call tells its caller which (adb_install.rs, the install functions).
THEOREM InstallsAreWhole == S!Spec => []AllOrNothing
<1>1. SInv => AllOrNothing
  BY Zenon DEF SInv, Whole, Cleaning, AllOrNothing, S!AllOrNothing, Multi
<1> QED
  BY <1>1, Begins, SessionStep, PTL DEF S!Spec

\* Whatever packages are installed in whichever way: when the call returns, the
\* sessions it knows of and the files it pushed are gone, unless the connection
\* broke or the device refused to clean up (adb_install.rs, the abandons and
\* cleanup_staged_apks).
THEOREM InstallsCleanUp == S!Spec => []NothingLeftBehind
<1>1. SInv => NothingLeftBehind
  <2> SUFFICES ASSUME SInv, phase = "returned", link, ~refused
               PROVE  (\A s \in S!Known : session[s] # "open")
                      /\ (staged # {} => sessions_mode = "install_apk" /\ installed = {})
    BY Zenon DEF NothingLeftBehind, S!NothingLeftBehind
  <2>1. Cleaning /\ sessions_todo = <<>>
    BY Zenon DEF SInv, Cleaning
  <2>2. \A s : ~Abandoned(sessions_todo, s)
    BY <2>1 DEF Abandoned
  <2>3. \A f : ~Removed(sessions_todo, f)
    BY <2>1, SMTT(60) DEF Removed
  <2> QED
    BY <2>1, <2>2, <2>3, Zenon DEF Cleaning
<1> QED
  BY <1>1, Begins, SessionStep, PTL DEF S!Spec

(***************************************************************************)
(* The incremental attempt.                                                *)
(***************************************************************************)

\* What the choice of the mode leaves, and where no process of the attempt runs.
AInv ==
    /\ input \in Inputs
    /\ attempt_pc = "choose" => fallback = NoMode
    /\ attempt_pc # "returned" => attempt_result = "none" /\ regular = NoMode
    /\ fallback \in {NoMode, "streamed", "push"} /\ (fallback = "streamed" => input.cmd)
    /\ input.incr = "enable" => fallback = NoMode /\ attempt_pc # "regular"
    /\ attempt_pc = "regular" => attempt_mode \in {"streamed", "push"} /\ (attempt_mode = "streamed" => input.cmd)
    /\ attempt_pc \in {"choose", "attempt", "connect", "launch"} => pump # "running"
    /\ attempt_pc \in {"choose", "attempt", "connect", "launch", "serve"} => server # "running"
    /\ AttemptIsContained

\* Init runs no process.
LEMMA AttemptInit == A!Init => AInv
BY InputsAssumption, Zenon DEF A!Init, AInv, AttemptIsContained, A!AttemptIsContained, A!silent

\* A failed attempt kills what it started, and falls back only where it may.
LEMMA Failing ==
    ASSUME AInv, A!AttemptFails, attempt_pc \notin {"choose", "regular", "returned"},
           UNCHANGED <<input, fallback, verdict, regular>>
    PROVE  AInv'
<1>1. "running" \notin {pump', server'}
  BY Zenon DEF A!AttemptFails, A!Kill
<1>2. \/ attempt_result' = "error" /\ attempt_pc' = "returned"
      \/ fallback # NoMode /\ attempt_pc' = "regular" /\ attempt_mode' = fallback /\ attempt_result' = attempt_result
  BY Zenon DEF A!AttemptFails, A!Return, A!silent
<1> QED
  BY <1>1, <1>2, InputsAssumption, Zenon DEF AInv, AttemptIsContained, A!AttemptIsContained, A!silent

\* Every step keeps the attempt contained.
LEMMA AttemptStep ==
    ASSUME AInv, [A!Next]_(A!vars)
    PROVE  AInv'
<1> USE DEF AInv, AttemptIsContained, A!AttemptIsContained, A!silent
<1>1. CASE UNCHANGED A!vars
  BY <1>1, SMTT(60) DEF A!vars
<1>2. CASE A!ChooseMode
  <2> DEFINE c == A!calculate_install_mode(input)
  <2>1. /\ ~c.ok \/ c.mode \in {"streamed", "push", "incremental"}
        /\ c.fallback \in {NoMode, "streamed", "push"}
        /\ c.ok /\ c.mode # "incremental" => c.fallback = NoMode /\ input.incr # "enable"
        /\ input.incr = "enable" => c.fallback = NoMode
        /\ c.ok /\ c.mode = "incremental" =>
              /\ input.abb
              /\ input.modeArg = NoMode
              /\ input.incr = "none" => input.env # "off" /\ input.probe # "off" /\ c.fallback # NoMode
    BY InputsAssumption, ZenonT(60) DEF A!calculate_install_mode, A!Choice, A!Refusal, A!BestMode
  <2>2. ~A!Unsupported(input, c) => "streamed" \notin {c.mode, c.fallback} \/ input.cmd
    BY Zenon DEF A!Unsupported, A!BestMode
  <2>3. \/ attempt_pc' = "returned" /\ attempt_result' = "error" /\ UNCHANGED fallback
        \/ /\ c.ok /\ ~A!Unsupported(input, c) /\ attempt_mode' = c.mode /\ fallback' = c.fallback
           /\ attempt_pc' = IF c.mode = "incremental" THEN "attempt" ELSE "regular"
           /\ UNCHANGED attempt_result
    BY <1>2, Zenon DEF A!ChooseMode, A!Return
  <2>4. attempt_pc = "choose" /\ UNCHANGED <<input, pump, server, verdict, regular>>
    BY <1>2, Zenon DEF A!ChooseMode
  <2> HIDE DEF c
  <2> QED
    BY <2>1, <2>2, <2>3, <2>4, Zenon
<1>3. CASE A!Attempt
  <2>1. CASE A!AttemptFails
    BY <1>3, <2>1, Failing, ZenonT(60) DEF A!Attempt
  <2>2. CASE attempt_pc' = "connect" /\ UNCHANGED <<attempt_mode, attempt_result, pump, server>>
    BY <1>3, <2>2, Zenon DEF A!Attempt
  <2> QED
    BY <1>3, <2>1, <2>2, ZenonT(60) DEF A!Attempt
<1>4. CASE A!Connect
  <2>1. CASE A!AttemptFails
    BY <1>4, <2>1, Failing, ZenonT(60) DEF A!Connect
  <2>2. CASE attempt_pc' = "launch" /\ UNCHANGED <<attempt_mode, attempt_result, pump, server>>
    BY <1>4, <2>2, Zenon DEF A!Connect
  <2> QED
    BY <1>4, <2>1, <2>2, ZenonT(60) DEF A!Connect
<1>5. CASE A!LaunchPump
  <2>1. CASE A!AttemptFails
    BY <1>5, <2>1, Failing, ZenonT(60) DEF A!LaunchPump
  <2>2. CASE pump' = "running" /\ attempt_pc' = "serve" /\ UNCHANGED <<attempt_mode, attempt_result, server>>
    BY <1>5, <2>2, Zenon DEF A!LaunchPump
  <2> QED
    BY <1>5, <2>1, <2>2, Zenon DEF A!LaunchPump
<1>6. CASE A!LaunchServer
  <2>1. CASE A!AttemptFails
    BY <1>6, <2>1, Failing, ZenonT(60) DEF A!LaunchServer
  <2>2. CASE server' = "running" /\ attempt_pc' = "wait" /\ UNCHANGED <<attempt_mode, attempt_result, pump>>
    BY <1>6, <2>2, Zenon DEF A!LaunchServer
  <2> QED
    BY <1>6, <2>1, <2>2, ZenonT(60) DEF A!LaunchServer
<1>7. CASE A!Speaks
  BY <1>7, Zenon DEF A!Speaks
<1>8. CASE A!ServerExits
  BY <1>8, Zenon DEF A!ServerExits
<1>9. CASE A!Verdict
  <2>1. CASE A!AttemptFails
    BY <1>9, <2>1, Failing, Zenon DEF A!Verdict
  <2>2. CASE verdict = "Success" /\ A!Return("ok") /\ UNCHANGED <<attempt_mode, pump, server>>
    BY <1>9, <2>2, Zenon DEF A!Verdict, A!Return
  <2> QED
    BY <1>9, <2>1, <2>2, ZenonT(60) DEF A!Verdict
<1>10. CASE A!Regular
  BY <1>10, InputsAssumption, Zenon DEF A!Regular, A!Return
<1> QED
  BY <1>1, <1>2, <1>3, <1>4, <1>5, <1>6, <1>7, <1>8, <1>9, <1>10, ZenonT(60) DEF A!Next

\* Whatever the command line, the device and the files, an incremental attempt
\* is contained: it is made only where it may be, leaves no process behind when
\* it fails, and succeeds only when the package manager says so (main_adb.rs
\* calculate_install_mode, incremental.rs).
THEOREM IncrementalIsContained == A!Spec => []AttemptIsContained
<1>1. AInv => AttemptIsContained
  BY Zenon DEF AInv
<1> QED
  BY <1>1, AttemptInit, AttemptStep, PTL DEF A!Spec

(***************************************************************************)
(* The ids of the files.                                                   *)
(***************************************************************************)
INSTANCE FiniteSetTheorems

\* How many of ks are not above k.
Rank(ks) == [k \in ks |-> Cardinality({j \in ks : j <= k})]

\* The rank of a number is its place in the order.
LEMMA Ranks ==
    ASSUME NEW N \in Nat, NEW ks \in SUBSET (1 .. N)
    PROVE  /\ IsFiniteSet(ks) /\ Cardinality(ks) \in Nat
           /\ Rank(ks) \in Surjection(ks, 1 .. Cardinality(ks))
<1>1. IsFiniteSet(1 .. N)
  BY FS_Interval, SMTT(60)
<1>2. IsFiniteSet(ks) /\ Cardinality(ks) \in Nat
  BY <1>1, FS_Subset, FS_CardinalityType, ZenonT(60)
<1> DEFINE Upto(k) == {j \in ks : j <= k}
<1>3. \A k \in ks : /\ IsFiniteSet(Upto(k)) /\ Cardinality(Upto(k)) \in Nat
                    /\ Cardinality(Upto(k)) <= Cardinality(ks) /\ Cardinality(Upto(k)) # 0
  <2> TAKE k \in ks
  <2>1. Upto(k) \in SUBSET ks /\ k \in Upto(k)
    OBVIOUS
  <2> HIDE DEF Upto
  <2>2. IsFiniteSet(Upto(k)) /\ Cardinality(Upto(k)) <= Cardinality(ks)
    BY <1>2, <2>1, FS_Subset, SMTT(60)
  <2> QED
    BY <2>1, <2>2, FS_CardinalityType, FS_EmptySet, Zenon
<1>4. \A k \in ks : Cardinality(Upto(k)) \in 1 .. Cardinality(ks)
  BY <1>2, <1>3, SMTT(60)
<1>5. Rank(ks) \in [ks -> 1 .. Cardinality(ks)]
  BY <1>4, Zenon DEF Rank
<1>6. \A k, l \in ks : k < l => Cardinality(Upto(k)) # Cardinality(Upto(l))
  <2> SUFFICES ASSUME NEW k \in ks, NEW l \in ks, k < l, Cardinality(Upto(k)) = Cardinality(Upto(l))
               PROVE  FALSE
    BY Zenon
  <2>0. ks \subseteq Int /\ k \in Int /\ l \in Int
    OBVIOUS
  <2>1. Upto(k) \in SUBSET Upto(l) /\ l \in Upto(l) /\ l \notin Upto(k)
    <3>1. \A j \in ks : j <= k => j <= l
      BY <2>0
    <3>2. l <= l /\ ~(l <= k)
      BY <2>0
    <3> QED
      BY <3>1, <3>2, Zenon
  <2>2. IsFiniteSet(Upto(l))
    BY <1>3, Zenon
  <2> HIDE DEF Upto
  <2>3. Upto(l) = Upto(k)
    BY <2>1, <2>2, FS_Subset, SMTT(60)
  <2> QED
    BY <2>1, <2>3, SMTT(60)
<1>7. \A k, l \in ks : Rank(ks)[k] = Rank(ks)[l] => k = l
  <2> SUFFICES ASSUME NEW k \in ks, NEW l \in ks, Rank(ks)[k] = Rank(ks)[l], k # l
               PROVE  FALSE
    BY Zenon
  <2>1. Cardinality(Upto(k)) = Cardinality(Upto(l))
    BY Zenon DEF Rank
  <2>2. k < l \/ l < k
    OBVIOUS
  <2> HIDE DEF Upto
  <2> QED
    BY <1>6, <2>1, <2>2, SMTT(60)
<1>8. Rank(ks) \in Injection(ks, 1 .. Cardinality(ks))
  BY <1>5, <1>7, Zenon DEF Injection, IsInjective
<1>9. IsFiniteSet(1 .. Cardinality(ks)) /\ Cardinality(1 .. Cardinality(ks)) = Cardinality(ks)
  BY <1>2, FS_Interval, SMTT(60)
<1> QED
  BY <1>2, <1>8, <1>9, FS_Injection, SMTT(60)

\* A list with entries passed over has the others, each in its place; none is
\* moved when those passed over come last.
LEMMA InOrderOf ==
    ASSUME NEW N \in Nat, NEW ks \in SUBSET (1 .. N)
    PROVE  /\ Cardinality(ks) \in Nat
           /\ A!Ordered(ks) \in [1 .. Cardinality(ks) -> ks]
           /\ \A m \in Nat : ks = 1 .. m => Cardinality(ks) = m /\ \A k \in 1 .. m : A!Ordered(ks)[k] = k
<1> DEFINE Nth(n) == CHOOSE k \in ks : Cardinality({j \in ks : j <= k}) = n
<1>1. Cardinality(ks) \in Nat /\ Rank(ks) \in Surjection(ks, 1 .. Cardinality(ks))
  BY Ranks, Zenon
<1>2. A!Ordered(ks) = [n \in 1 .. Cardinality(ks) |-> Nth(n)]
  BY Zenon DEF A!Ordered, A!Cardinality, Cardinality
<1>3. \A n \in 1 .. Cardinality(ks) : Nth(n) \in ks /\ Cardinality({j \in ks : j <= Nth(n)}) = n
  <2> TAKE n \in 1 .. Cardinality(ks)
  <2>1. \E k \in ks : Cardinality({j \in ks : j <= k}) = n
    BY <1>1, Zenon DEF Surjection, Rank
  <2> QED
    BY <2>1, Zenon
<1>4. A!Ordered(ks) \in [1 .. Cardinality(ks) -> ks]
  BY <1>2, <1>3, ZenonT(60)
<1>5. ASSUME NEW m \in Nat, ks = 1 .. m
      PROVE  Cardinality(ks) = m /\ \A k \in 1 .. m : A!Ordered(ks)[k] = k
  <2>1. Cardinality(ks) = m
    BY <1>5, FS_Interval, SMTT(60)
  <2>2. \A k \in 1 .. m : {j \in 1 .. m : j <= k} = 1 .. k /\ Cardinality(1 .. k) = k
    BY FS_Interval, SMTT(60)
  <2>3. ASSUME NEW k \in 1 .. m
        PROVE  Nth(k) = k
    <3>1. Nth(k) \in 1 .. m /\ Cardinality({j \in 1 .. m : j <= Nth(k)}) = k
      BY <1>3, <1>5, <2>1, Zenon
    <3> QED
      BY <2>2, <3>1, Zenon
  <2> QED
    BY <1>2, <2>1, <2>3, Zenon
<1> QED
  BY <1>1, <1>4, <1>5, Zenon

\* The database is there before the arguments are.
IdsInv ==
    /\ input \in Inputs
    /\ attempt_pc \in {"choose", "attempt", "connect", "launch", "serve"} => args = <<>>
    /\ attempt_pc \in {"connect", "launch", "serve"} => db = A!build_database(input.files)
    /\ FileIdsAgree

\* The database begins with the signed files: its place in it is a file's id.
LEMMA SignedFirst ==
    ASSUME NEW i \in Inputs, db = A!build_database(i.files)
    PROVE  \E m \in Nat : /\ 1 .. m \subseteq DOMAIN db
                          /\ \A k \in 1 .. m : db[k].id = k - 1
                          /\ DOMAIN A!SignedFiles = 1 .. m
                          /\ \A k \in 1 .. m : A!SignedFiles[k] = db[k]
<1> DEFINE fs == i.files
           yes == {k \in DOMAIN fs : (fs[k].sig # "none") = TRUE}
           no == {k \in DOMAIN fs : (fs[k].sig # "none") = FALSE}
           first == A!Ordered(yes)
           last == A!Ordered(no)
           m == Cardinality(yes)
           n == Cardinality(no)
           order == first \o last
<1>1. Len(fs) \in Nat /\ DOMAIN fs = 1 .. Len(fs)
  BY InputsAssumption, SMTT(60)
<1>2. m \in Nat /\ first \in [1 .. m -> yes]
  <2>1. yes \in SUBSET (1 .. Len(fs))
    BY <1>1, Zenon
  <2> QED
    BY <1>1, <2>1, InOrderOf, ZenonT(60)
<1>3. n \in Nat /\ last \in [1 .. n -> no]
  <2>1. no \in SUBSET (1 .. Len(fs))
    BY <1>1, Zenon
  <2> QED
    BY <1>1, <2>1, InOrderOf, ZenonT(60)
<1>4. db = [k \in DOMAIN order |-> [file |-> order[k], id |-> k - 1, signed |-> fs[order[k]].sig # "none"]]
  BY Zenon DEF A!build_database, A!Entries
<1>5. \A k \in yes : fs[k].sig # "none"
  BY Zenon
<1>6. \A k \in no : fs[k].sig = "none"
  BY Zenon
<1> HIDE DEF fs, yes, no, m, n, first, last
<1>7. first \in Seq(yes) /\ Len(first) = m /\ last \in Seq(no) /\ Len(last) = n
  BY <1>2, <1>3, SMTT(60)
<1>8. DOMAIN order = 1 .. m + n /\ (\A k \in 1 .. m : order[k] \in yes) /\ (\A k \in m + 1 .. m + n : order[k] \in no)
  BY <1>2, <1>3, <1>7, SMTT(60)
<1> HIDE DEF order
<1>9. /\ DOMAIN db = 1 .. m + n
      /\ \A k \in 1 .. m + n : db[k].id = k - 1 /\ db[k].signed = (fs[order[k]].sig # "none")
  BY <1>4, <1>8, SMTT(60)
<1>10. {k \in DOMAIN db : db[k].signed} = 1 .. m
  <2>0. \A k \in 1 .. m + n : k \in 1 .. m \/ k \in m + 1 .. m + n
    BY <1>2, <1>3, SMTT(60)
  <2>1. \A k \in 1 .. m : k \in 1 .. m + n
    BY <1>2, <1>3, SMTT(60)
  <2>2. \A k \in 1 .. m : db[k].signed
    BY <1>5, <1>8, <1>9, <2>1, ZenonT(60)
  <2>3. \A k \in 1 .. m + n : db[k].signed => k \in 1 .. m
    BY <1>6, <1>8, <1>9, <2>0, ZenonT(60)
  <2> QED
    BY <1>9, <2>1, <2>2, <2>3, ZenonT(60)
<1>11. /\ A!Ordered(1 .. m) \in [1 .. m -> 1 .. m]
       /\ \A k \in 1 .. m : A!Ordered(1 .. m)[k] = k
  <2>1. 1 .. m \in SUBSET (1 .. m)
    BY Zenon
  <2>2. Cardinality(1 .. m) = m /\ \A k \in 1 .. m : A!Ordered(1 .. m)[k] = k
    BY <1>2, <2>1, InOrderOf, Zenon
  <2>3. A!Ordered(1 .. m) \in [1 .. Cardinality(1 .. m) -> 1 .. m]
    BY <1>2, <2>1, InOrderOf, Zenon
  <2> QED
    BY <2>2, <2>3, SMTT(60)
<1>12. A!SignedFiles = [k \in DOMAIN A!Ordered(1 .. m) |-> db[A!Ordered(1 .. m)[k]]]
  BY <1>10, Zenon DEF A!SignedFiles
<1>13. DOMAIN A!SignedFiles = 1 .. m /\ \A k \in 1 .. m : A!SignedFiles[k] = db[k]
  BY <1>11, <1>12, ZenonT(60)
<1>14. 1 .. m \subseteq DOMAIN db /\ \A k \in 1 .. m : db[k].id = k - 1
  BY <1>2, <1>3, <1>9
<1> QED
  BY <1>2, <1>13, <1>14, SMTT(60)

\* Init gives the server no arguments.
LEMMA IdsInit == A!Init => IdsInv
BY SMTT(60) DEF A!Init, IdsInv, FileIdsAgree, A!FileIdsAgree

\* The arguments of the server are made from the database, once.
LEMMA IdsStep ==
    ASSUME IdsInv, [A!Next]_(A!vars)
    PROVE  IdsInv'
<1> USE DEF IdsInv
<1>1. CASE UNCHANGED A!vars
  BY <1>1, ZenonT(60) DEF A!vars, FileIdsAgree, A!FileIdsAgree
<1>2. CASE A!ChooseMode
  BY <1>2, Zenon DEF A!ChooseMode, A!Return, FileIdsAgree, A!FileIdsAgree
<1>3. CASE A!Attempt
  BY <1>3, SMTT(60) DEF A!Attempt, A!AttemptFails, A!Return, FileIdsAgree, A!FileIdsAgree
<1>4. CASE A!Connect
  BY <1>4, Zenon DEF A!Connect, A!AttemptFails, A!Return, FileIdsAgree, A!FileIdsAgree
<1>5. CASE A!LaunchPump
  BY <1>5, Zenon DEF A!LaunchPump, A!AttemptFails, A!Return, FileIdsAgree, A!FileIdsAgree
<1>6. CASE A!LaunchServer
  <2>1. CASE args' = [k \in DOMAIN A!SignedFiles |-> A!SignedFiles[k].file] /\ attempt_pc' = "wait"
    <3>1. UNCHANGED <<input, db>>
      BY <1>6, SMTT(60) DEF A!LaunchServer
    <3>2. attempt_pc \in {"launch", "serve"}
      BY <1>6, SMTT(60) DEF A!LaunchServer
    <3>3. PICK m \in Nat : /\ 1 .. m \subseteq DOMAIN db
                           /\ \A k \in 1 .. m : db[k].id = k - 1
                           /\ DOMAIN A!SignedFiles = 1 .. m
                           /\ \A k \in 1 .. m : A!SignedFiles[k] = db[k]
      BY <3>2, SignedFirst, SMTT(60)
    <3>4. DOMAIN args' = 1 .. m /\ \A k \in 1 .. m : args'[k] = db[k].file
      BY <2>1, <3>3, SMTT(60)
    <3>5. FileIdsAgree'
      BY <3>1, <3>3, <3>4, SMTT(60) DEF FileIdsAgree, A!FileIdsAgree
    <3> QED
      BY <2>1, <3>1, <3>5, SMTT(60)
  <2>2. CASE A!AttemptFails /\ UNCHANGED args
    BY <1>6, <2>2, SMTT(60) DEF A!LaunchServer, A!AttemptFails, A!Return, FileIdsAgree, A!FileIdsAgree
  <2> QED
    BY <1>6, <2>1, <2>2, SMTT(60) DEF A!LaunchServer
<1>7. CASE A!Speaks
  BY <1>7, ZenonT(60) DEF A!Speaks, FileIdsAgree, A!FileIdsAgree
<1>8. CASE A!ServerExits
  BY <1>8, SMTT(60) DEF A!ServerExits, FileIdsAgree, A!FileIdsAgree
<1>9. CASE A!Verdict
  BY <1>9, SMTT(60) DEF A!Verdict, A!AttemptFails, A!Return, FileIdsAgree, A!FileIdsAgree
<1>10. CASE A!Regular
  BY <1>10, SMTT(60) DEF A!Regular, A!Return, FileIdsAgree, A!FileIdsAgree
<1> QED
  BY <1>1, <1>2, <1>3, <1>4, <1>5, <1>6, <1>7, <1>8, <1>9, <1>10, Zenon DEF A!Next

\* Whatever files are installed, signed or not in any order, the server answers
\* for an id with the file the device knows by it (incremental.rs build_database
\* and start_inc_server).
THEOREM ServerAndDeviceAgreeOnIds == A!Spec => []FileIdsAgree
<1>1. IdsInv => FileIdsAgree
  BY Zenon DEF IdsInv
<1> QED
  BY <1>1, IdsInit, IdsStep, PTL DEF A!Spec
=============================================================================
