---------------------------- MODULE SetupProofs ----------------------------
(***************************************************************************)
(* Proofs about the setup scripts, for any chroot definitions and any      *)
(* number of stacked mounts: setup-stop can be repeated until it succeeds, *)
(* destroys nothing that is mounted, and leaves nothing when it succeeds.  *)
(*                                                                         *)
(* The order of the commands carries the argument.  Each stage has a rank  *)
(* for each of its commands, the commands left are in increasing rank, and *)
(* what is known after a command is known while it is not among those      *)
(* left.                                                                   *)
(***************************************************************************)
EXTENDS SetupScripts, TLAPS

Elements(s) == {s[i] : i \in DOMAIN s}
Left == Elements(todo)

Ranks == [CommandNames -> Nat]

StartCommands ==
    {"snapshot", "clone", "mkdir-tree", "unpack", "mkdir-overlay", "mkdir-underlay",
     "mkdir-mountdir", "mount-lower", "mount", "binfmt", "configure"}
RecoverCommands ==
    {"check-union", "mkdir-mountdir", "umount-lower", "umount", "mount-lower", "mount",
     "binfmt", "realpath", "kill", "configure"}
StopCommands ==
    {"realpath", "kill", "binfmt", "umount", "umount-lower", "rmdir-mountdir",
     "destroy-clone", "destroy-snapshot", "rm-overlay", "rmdir-underlay", "delete",
     "repack", "rm-tree"}

StartRank == [c \in CommandNames |->
    CASE c = "snapshot" -> 1 [] c = "clone" -> 2 [] c = "mkdir-tree" -> 1 [] c = "unpack" -> 2
      [] c = "mkdir-overlay" -> 1 [] c = "mkdir-underlay" -> 2
      [] c = "mkdir-mountdir" -> 3 [] c = "mount-lower" -> 4 [] c = "mount" -> 5
      [] c = "binfmt" -> 6 [] c = "configure" -> 7 [] OTHER -> 0]

RecoverRank == [c \in CommandNames |->
    CASE c = "check-union" -> 1 [] c = "mkdir-mountdir" -> 2 [] c = "umount-lower" -> 3
      [] c = "umount" -> 4 [] c = "mount-lower" -> 5 [] c = "mount" -> 6 [] c = "binfmt" -> 7
      [] c = "realpath" -> 8 [] c = "kill" -> 9 [] c = "configure" -> 10 [] OTHER -> 0]

StopRank == [c \in CommandNames |->
    CASE c = "realpath" -> 1 [] c = "kill" -> 2 [] c = "binfmt" -> 3 [] c = "umount" -> 4
      [] c = "umount-lower" -> 5 [] c = "rmdir-mountdir" -> 6 [] c = "destroy-clone" -> 7
      [] c = "destroy-snapshot" -> 7 [] c = "rm-overlay" -> 8 [] c = "rmdir-underlay" -> 9
      [] c = "delete" -> 10 [] c = "repack" -> 11 [] c = "rm-tree" -> 12 [] OTHER -> 0]

\* The commands of a sequence are in increasing rank.
Increasing(s, rank) == \A i, j \in DOMAIN s : i < j => rank[s[i]] < rank[s[j]]

\* What a script does for one kind of chroot is left to do only for that kind.
ForThisChroot ==
    /\ ~cfg.union => Left \cap {"mkdir-overlay", "mkdir-underlay", "check-union", "mount-lower"} = {}
    /\ cfg.type # "file" => Left \cap {"mkdir-tree", "unpack"} = {}

\* The commands left are those of the stage, in its order, and none is left
\* outside a stage and after a failure.
InOrder ==
    /\ stage \in {"none", "run"} \/ ~ok => todo = <<>>
    /\ stage = "setup-start" => Left \subseteq StartCommands /\ Increasing(todo, StartRank)
    /\ stage = "setup-recover" => Left \subseteq RecoverCommands /\ Increasing(todo, RecoverRank)
    /\ stage = "setup-stop" => Left \subseteq StopCommands /\ Increasing(todo, StopRank)

\* The session file stands for all that is set up, mounts are where they can be,
\* and processes run only inside what is mounted.
Standing ==
    /\ stage # "none" => file
    /\ ~file => Nothing
    /\ mounts > 0 => mountdir
    /\ lower > 0 => underlay
    /\ stray => mounts > 0
    /\ stage = "run" => mounts > 0
    /\ ~cfg.union => ~overlay /\ ~underlay
    /\ cfg.type # "file" => tree = "none"

\* What setup-start and setup-recover have done so far.
SettingUp ==
    stage \in {"setup-start", "setup-recover"} /\ ok =>
      /\ "mkdir-mountdir" \notin Left => mountdir
      /\ "mount-lower" \in Left => lower < MaxMounts
      /\ "mount-lower" \in Left /\ Left \cap {"mkdir-underlay", "check-union"} = {} => underlay
      /\ "mount" \in Left => mounts < MaxMounts
      /\ "mount" \notin Left => mounts > 0
      /\ "umount" \in Left => "mount" \in Left

\* What setup-stop has done so far.
TearingDown ==
    stage = "setup-stop" /\ ok =>
      /\ "kill" \notin Left /\ stray => fault
      /\ "umount" \notin Left /\ mounts > 0 => fault
      /\ "umount-lower" \notin Left /\ lower > 0 => fault
      /\ "rmdir-mountdir" \notin Left => ~mountdir
      /\ "rm-overlay" \notin Left => ~overlay
      /\ "rmdir-underlay" \notin Left => ~underlay
      /\ "rm-tree" \notin Left => tree = "none"

ScriptsInv ==
    /\ TypeOK /\ ForThisChroot /\ InOrder /\ Standing /\ SettingUp /\ TearingDown
    /\ StopRetryable

-----------------------------------------------------------------------------
(* The lists of commands. *)

\* The ranks, command by command.
LEMMA StartRanks ==
    /\ StartRank \in Ranks
    /\ StartRank["snapshot"] = 1 /\ StartRank["clone"] = 2
    /\ StartRank["mkdir-tree"] = 1 /\ StartRank["unpack"] = 2
    /\ StartRank["mkdir-overlay"] = 1 /\ StartRank["mkdir-underlay"] = 2
    /\ StartRank["mkdir-mountdir"] = 3 /\ StartRank["mount-lower"] = 4
    /\ StartRank["mount"] = 5 /\ StartRank["binfmt"] = 6 /\ StartRank["configure"] = 7
BY DEF StartRank, Ranks, CommandNames

\* The same for setup-recover.
LEMMA RecoverRanks ==
    /\ RecoverRank \in Ranks
    /\ RecoverRank["check-union"] = 1 /\ RecoverRank["mkdir-mountdir"] = 2
    /\ RecoverRank["umount-lower"] = 3 /\ RecoverRank["umount"] = 4
    /\ RecoverRank["mount-lower"] = 5 /\ RecoverRank["mount"] = 6
    /\ RecoverRank["binfmt"] = 7 /\ RecoverRank["realpath"] = 8
    /\ RecoverRank["kill"] = 9 /\ RecoverRank["configure"] = 10
BY DEF RecoverRank, Ranks, CommandNames

\* The same for setup-stop.
LEMMA StopRanks ==
    /\ StopRank \in Ranks
    /\ StopRank["realpath"] = 1 /\ StopRank["kill"] = 2 /\ StopRank["binfmt"] = 3
    /\ StopRank["umount"] = 4 /\ StopRank["umount-lower"] = 5
    /\ StopRank["rmdir-mountdir"] = 6 /\ StopRank["destroy-clone"] = 7
    /\ StopRank["destroy-snapshot"] = 7 /\ StopRank["rm-overlay"] = 8
    /\ StopRank["rmdir-underlay"] = 9 /\ StopRank["delete"] = 10
    /\ StopRank["repack"] = 11 /\ StopRank["rm-tree"] = 12
BY DEF StopRank, Ranks, CommandNames

\* A list of commands: what is in it, and its order.
List(s, S, rank) == s \in Seq(CommandNames) /\ Elements(s) = S /\ Increasing(s, rank)

\* The lists a script can consist of.
LEMMA ShortLists ==
    ASSUME NEW rank \in Ranks, NEW c \in CommandNames, NEW d \in CommandNames
    PROVE  /\ List(<<>>, {}, rank) /\ List(<<c>>, {c}, rank)
           /\ rank[c] < rank[d] => List(<<c, d>>, {c, d}, rank)
<1>1. List(<<>>, {}, rank)
  BY DEF List, Elements, Increasing
<1>2. List(<<c>>, {c}, rank)
  BY DEF List, Elements, Increasing
<1>3. ASSUME rank[c] < rank[d] PROVE List(<<c, d>>, {c, d}, rank)
  <2> DEFINE s == <<c, d>>
  <2>1. s \in Seq(CommandNames) /\ DOMAIN s = 1..2 /\ s[1] = c /\ s[2] = d
    OBVIOUS
  <2> HIDE DEF s
  <2>2. Elements(s) = {c, d}
    BY <2>1 DEF Elements
  <2>3. Increasing(s, rank)
    <3> SUFFICES ASSUME NEW i \in 1..2, NEW j \in 1..2, i < j PROVE rank[s[i]] < rank[s[j]]
      BY <2>1 DEF Increasing
    <3>1. i = 1 /\ j = 2
      OBVIOUS
    <3> QED  BY <3>1, <2>1, <1>3
  <2> QED  BY <2>1, <2>2, <2>3 DEF List, s
<1> QED  BY <1>1, <1>2, <1>3

\* A list followed by one of higher ranks.
LEMMA Joined ==
    ASSUME NEW rank \in Ranks, NEW S, NEW T, NEW s, NEW t,
           List(s, S, rank), List(t, T, rank),
           \A x \in S, y \in T : rank[x] < rank[y]
    PROVE  List(s \o t, S \cup T, rank)
<1> DEFINE u == s \o t
<1>1. s \in Seq(CommandNames) /\ t \in Seq(CommandNames)
  BY DEF List
<1>2. /\ u \in Seq(CommandNames) /\ Len(u) = Len(s) + Len(t)
      /\ \A i \in 1..Len(u) : u[i] = IF i <= Len(s) THEN s[i] ELSE t[i - Len(s)]
  BY <1>1
<1>3. /\ DOMAIN s = 1..Len(s) /\ DOMAIN t = 1..Len(t) /\ DOMAIN u = 1..Len(u)
      /\ Len(s) \in Nat /\ Len(t) \in Nat /\ Len(u) \in Nat
  BY <1>1, <1>2
<1> HIDE DEF u
<1>4. Elements(u) = S \cup T
  <2>1. \A i \in DOMAIN u : u[i] \in S \cup T
    <3> TAKE i \in DOMAIN u
    <3>1. CASE i <= Len(s)
      BY <3>1, <1>2, <1>3 DEF List, Elements
    <3>2. CASE ~(i <= Len(s))
      <4>1. i - Len(s) \in DOMAIN t
        BY <3>2, <1>2, <1>3
      <4> QED  BY <4>1, <3>2, <1>2, <1>3 DEF List, Elements
    <3> QED  BY <3>1, <3>2
  <2>2. \A i \in DOMAIN s : i \in DOMAIN u /\ u[i] = s[i]
    BY <1>2, <1>3
  <2>3. \A i \in DOMAIN t : i + Len(s) \in DOMAIN u /\ u[i + Len(s)] = t[i]
    <3> TAKE i \in DOMAIN t
    <3>1. i + Len(s) \in 1..Len(u) /\ ~(i + Len(s) <= Len(s)) /\ (i + Len(s)) - Len(s) = i
      BY <1>2, <1>3
    <3> QED  BY <3>1, <1>2, <1>3
  <2>4. Elements(u) \subseteq S \cup T
    BY <2>1 DEF Elements
  <2>5. S \subseteq Elements(u)
    BY <2>2 DEF Elements, List
  <2>6. T \subseteq Elements(u)
    BY <2>3 DEF Elements, List
  <2> QED  BY <2>4, <2>5, <2>6
<1>5. Increasing(u, rank)
  <2> SUFFICES ASSUME NEW i \in DOMAIN u, NEW j \in DOMAIN u, i < j
               PROVE  rank[u[i]] < rank[u[j]]
    BY DEF Increasing
  <2>1. CASE j <= Len(s)
    <3>1. i \in DOMAIN s /\ j \in DOMAIN s /\ u[i] = s[i] /\ u[j] = s[j]
      BY <2>1, <1>2, <1>3
    <3> QED  BY <3>1 DEF List, Increasing
  <2>2. CASE i <= Len(s) /\ ~(j <= Len(s))
    <3>1. i \in DOMAIN s /\ j - Len(s) \in DOMAIN t /\ u[i] = s[i] /\ u[j] = t[j - Len(s)]
      BY <2>2, <1>2, <1>3
    <3>2. u[i] \in S /\ u[j] \in T
      BY <3>1 DEF List, Elements
    <3> QED  BY <3>2
  <2>3. CASE ~(i <= Len(s))
    <3>1. /\ i - Len(s) \in DOMAIN t /\ j - Len(s) \in DOMAIN t /\ i - Len(s) < j - Len(s)
          /\ u[i] = t[i - Len(s)] /\ u[j] = t[j - Len(s)]
      BY <2>3, <1>2, <1>3
    <3> QED  BY <3>1 DEF List, Increasing
  <2> QED  BY <2>1, <2>2, <2>3, <1>3
<1> QED  BY <1>2, <1>4, <1>5 DEF List, u

\* A part of a list for some chroots only.
If(p, S) == IF p THEN S ELSE {}

\* Such a part is a list, empty for the other chroots.
LEMMA Optional ==
    ASSUME NEW rank \in Ranks, NEW S, NEW s, NEW p, List(s, S, rank)
    PROVE  List(IF p THEN s ELSE <<>>, If(p, S), rank)
<1>1. CASE p
  BY <1>1 DEF If
<1>2. CASE ~p
  BY <1>2 DEF If, List, Elements, Increasing
<1> QED  BY <1>1, <1>2

\* What the chroots considered have in common.
LEMMA ConfigFacts ==
    ASSUME cfg \in Configs
    PROVE  /\ cfg.type \in Types /\ cfg.union \in BOOLEAN /\ cfg.repack \in BOOLEAN
           /\ cfg.union => cfg.type \in {"directory", "block-device"}
           /\ cfg.repack => cfg.type = "file"
           /\ cfg.location \in 0..2
BY ScriptsAssumption DEF Config, Possible

\* The commands of setup-start, in their order.
LEMMA StartList ==
    ASSUME cfg \in Configs
    PROVE  List(SetupStart,
                If(cfg.type \in {"btrfs-snapshot", "lvm-snapshot", "zfs-snapshot"}, {"snapshot"})
                \cup If(cfg.type = "zfs-snapshot", {"clone"})
                \cup If(cfg.type = "file", {"mkdir-tree", "unpack"})
                \cup If(cfg.union, {"mkdir-overlay", "mkdir-underlay", "mount-lower"})
                \cup {"mkdir-mountdir", "mount", "binfmt", "configure"},
                StartRank)
<1> DEFINE btrfs == If(cfg.type \in {"btrfs-snapshot"}, {"snapshot"})
           tar == If(cfg.type \in {"file"}, {"mkdir-tree", "unpack"})
           lvm == If(cfg.type \in {"lvm-snapshot"}, {"snapshot"})
           union == If(cfg.union, {"mkdir-overlay", "mkdir-underlay"})
           zfs == If(cfg.type \in {"zfs-snapshot"}, {"snapshot", "clone"})
           under == If(cfg.union, {"mount-lower"})
           rest == {"mount", "binfmt", "configure"}
<1> DEFINE L(s, S) == List(s, S, StartRank)
<1>0. {"snapshot", "clone", "mkdir-tree", "unpack", "mkdir-overlay", "mkdir-underlay",
       "mkdir-mountdir", "mount-lower", "mount", "binfmt", "configure"} \subseteq CommandNames
  BY DEF CommandNames
<1> HIDE DEF L
<1>a. ASSUME NEW S, NEW s, NEW T, NEW u, L(s, S), L(u, T),
             \A x \in S, y \in T : StartRank[x] < StartRank[y]
      PROVE  L(s \o u, S \cup T)
  BY <1>a, Joined, StartRanks DEF L
<1>b. /\ L(<<"snapshot">>, {"snapshot"}) /\ L(<<"mkdir-mountdir">>, {"mkdir-mountdir"})
      /\ L(<<"mount-lower">>, {"mount-lower"})
  BY <1>0, ShortLists, StartRanks DEF L
<1>c. /\ L(<<"mkdir-tree", "unpack">>, {"mkdir-tree", "unpack"})
      /\ L(<<"mkdir-overlay", "mkdir-underlay">>, {"mkdir-overlay", "mkdir-underlay"})
      /\ L(<<"snapshot", "clone">>, {"snapshot", "clone"})
  <2>1. /\ StartRank["mkdir-tree"] < StartRank["unpack"]
        /\ StartRank["mkdir-overlay"] < StartRank["mkdir-underlay"]
        /\ StartRank["snapshot"] < StartRank["clone"]
    BY StartRanks
  <2> QED  BY <1>0, <2>1, ShortLists, StartRanks DEF L
<1>1. L(Snapshot({"btrfs-snapshot"}, <<"snapshot">>), btrfs)
  BY <1>b, Optional, StartRanks DEF Snapshot, L
<1>2. L(Snapshot({"file"}, <<"mkdir-tree", "unpack">>), tar)
  BY <1>c, Optional, StartRanks DEF Snapshot, L
<1>3. L(Snapshot({"lvm-snapshot"}, <<"snapshot">>), lvm)
  BY <1>b, Optional, StartRanks DEF Snapshot, L
<1>4. L(Union(<<"mkdir-overlay", "mkdir-underlay">>), union)
  BY <1>c, Optional, StartRanks DEF Union, L
<1>5. L(Snapshot({"zfs-snapshot"}, <<"snapshot", "clone">>), zfs)
  BY <1>c, Optional, StartRanks DEF Snapshot, L
<1>7. L(Union(<<"mount-lower">>), under)
  BY <1>b, Optional, StartRanks DEF Union, L
<1>8. L(<<"mount", "binfmt", "configure">>, rest)
  BY <1>0, StartRanks DEF List, Elements, Increasing, L
<1>11. L(Snapshot({"btrfs-snapshot"}, <<"snapshot">>)
         \o Snapshot({"file"}, <<"mkdir-tree", "unpack">>), btrfs \cup tar)
  BY <1>a, <1>1, <1>2 DEF If
<1> HIDE DEF L
<1> DEFINE s2 == Snapshot({"btrfs-snapshot"}, <<"snapshot">>)
                 \o Snapshot({"file"}, <<"mkdir-tree", "unpack">>)
           s3 == s2 \o Snapshot({"lvm-snapshot"}, <<"snapshot">>)
           s4 == s3 \o Union(<<"mkdir-overlay", "mkdir-underlay">>)
           s5 == s4 \o Snapshot({"zfs-snapshot"}, <<"snapshot", "clone">>)
           s6 == s5 \o <<"mkdir-mountdir">>
           s7 == s6 \o Union(<<"mount-lower">>)
           s8 == s7 \o <<"mount", "binfmt", "configure">>
<1>12. L(s3, btrfs \cup tar \cup lvm)
  BY <1>a, <1>11, <1>3 DEF If
<1>13. L(s4, btrfs \cup tar \cup lvm \cup union)
  BY <1>a, <1>12, <1>4, ConfigFacts DEF If
<1>14. L(s5, btrfs \cup tar \cup lvm \cup union \cup zfs)
  BY <1>a, <1>13, <1>5, ConfigFacts DEF If
<1>15. L(s6, btrfs \cup tar \cup lvm \cup union \cup zfs \cup {"mkdir-mountdir"})
  BY <1>a, <1>14, <1>b, StartRanks DEF If
<1>16. L(s7, btrfs \cup tar \cup lvm \cup union \cup zfs \cup {"mkdir-mountdir"} \cup under)
  BY <1>a, <1>15, <1>7, StartRanks DEF If
<1>17. L(s8, btrfs \cup tar \cup lvm \cup union \cup zfs \cup {"mkdir-mountdir"} \cup under \cup rest)
  BY <1>a, <1>16, <1>8, StartRanks DEF If
<1>18. s8 = SetupStart
  BY DEF SetupStart
<1> DEFINE all == If(cfg.type \in {"btrfs-snapshot", "lvm-snapshot", "zfs-snapshot"}, {"snapshot"})
                  \cup If(cfg.type = "zfs-snapshot", {"clone"})
                  \cup If(cfg.type = "file", {"mkdir-tree", "unpack"})
                  \cup If(cfg.union, {"mkdir-overlay", "mkdir-underlay", "mount-lower"})
                  \cup {"mkdir-mountdir", "mount", "binfmt", "configure"}
<1>19. btrfs \cup tar \cup lvm \cup union \cup zfs \cup {"mkdir-mountdir"} \cup under \cup rest = all
  BY DEF If
<1>20. L(SetupStart, all)
  BY <1>17, <1>18, <1>19
<1> QED  BY <1>20 DEF L

\* The commands of setup-recover, in their order.
LEMMA RecoverList ==
    ASSUME cfg \in Configs
    PROVE  List(SetupRecover,
                If(cfg.union, {"check-union", "umount-lower", "mount-lower"})
                \cup {"mkdir-mountdir", "umount", "mount", "binfmt", "realpath", "kill", "configure"},
                RecoverRank)
<1> DEFINE check == If(cfg.union, {"check-union"})
           below == If(cfg.union, {"umount-lower"})
           under == If(cfg.union, {"mount-lower"})
           rest == {"mount", "binfmt", "realpath", "kill", "configure"}
           L(s, S) == List(s, S, RecoverRank)
<1>0. RecoverCommands \subseteq CommandNames
  BY DEF CommandNames, RecoverCommands
<1> HIDE DEF L
<1>a. ASSUME NEW S, NEW s, NEW T, NEW u, L(s, S), L(u, T),
             \A x \in S, y \in T : RecoverRank[x] < RecoverRank[y]
      PROVE  L(s \o u, S \cup T)
  BY <1>a, Joined, RecoverRanks DEF L
<1>b. /\ L(<<"check-union">>, {"check-union"}) /\ L(<<"mkdir-mountdir">>, {"mkdir-mountdir"})
      /\ L(<<"umount-lower">>, {"umount-lower"}) /\ L(<<"umount">>, {"umount"})
      /\ L(<<"mount-lower">>, {"mount-lower"})
  BY <1>0, ShortLists, RecoverRanks DEF L, RecoverCommands
<1>1. L(Union(<<"check-union">>), check)
  BY <1>b, Optional, RecoverRanks DEF Union, L
<1>2. L(Union(<<"umount-lower">>), below)
  BY <1>b, Optional, RecoverRanks DEF Union, L
<1>3. L(Union(<<"mount-lower">>), under)
  BY <1>b, Optional, RecoverRanks DEF Union, L
<1>4. L(<<"mount", "binfmt", "realpath", "kill", "configure">>, rest)
  BY <1>0, RecoverRanks DEF List, Elements, Increasing, L, RecoverCommands
<1> DEFINE s2 == Union(<<"check-union">>) \o <<"mkdir-mountdir">>
           s3 == s2 \o Union(<<"umount-lower">>)
           s4 == s3 \o <<"umount">>
           s5 == s4 \o Union(<<"mount-lower">>)
           s6 == s5 \o <<"mount", "binfmt", "realpath", "kill", "configure">>
<1>5. L(s2, check \cup {"mkdir-mountdir"})
  BY <1>a, <1>b, <1>1, RecoverRanks DEF If
<1>6. L(s3, check \cup {"mkdir-mountdir"} \cup below)
  BY <1>a, <1>5, <1>2, RecoverRanks DEF If
<1>7. L(s4, check \cup {"mkdir-mountdir"} \cup below \cup {"umount"})
  BY <1>a, <1>6, <1>b, RecoverRanks DEF If
<1>8. L(s5, check \cup {"mkdir-mountdir"} \cup below \cup {"umount"} \cup under)
  BY <1>a, <1>7, <1>3, RecoverRanks DEF If
<1>9. L(s6, check \cup {"mkdir-mountdir"} \cup below \cup {"umount"} \cup under \cup rest)
  BY <1>a, <1>8, <1>4, RecoverRanks DEF If
<1>10. s6 = SetupRecover
  BY DEF SetupRecover
<1> DEFINE all == If(cfg.union, {"check-union", "umount-lower", "mount-lower"})
           \cup {"mkdir-mountdir", "umount", "mount", "binfmt", "realpath", "kill", "configure"}
<1>11. check \cup {"mkdir-mountdir"} \cup below \cup {"umount"} \cup under \cup rest = all
  BY DEF If
<1>12. L(SetupRecover, all)
  BY <1>9, <1>10, <1>11
<1> QED  BY <1>12 DEF L

\* The commands of setup-stop, in their order.
LEMMA StopList ==
    ASSUME cfg \in Configs
    PROVE  List(SetupStop,
                {"realpath", "kill", "binfmt", "umount", "rmdir-mountdir"}
                \cup If(cfg.union, {"umount-lower", "rm-overlay", "rmdir-underlay"})
                \cup If(cfg.type = "zfs-snapshot", {"destroy-clone"})
                \cup If(cfg.type \in {"lvm-snapshot", "btrfs-snapshot"}, {"delete"})
                \cup If(cfg.repack /\ status' = "ok", {"repack"})
                \cup If(cfg.type = "file", {"rm-tree"}),
                StopRank)
<1> DEFINE below == If(cfg.union, {"umount-lower"})
           zfs == If(cfg.type \in {"zfs-snapshot"}, {"destroy-clone"})
           union == If(cfg.union, {"rm-overlay", "rmdir-underlay"})
           lvm == If(cfg.type \in {"lvm-snapshot"}, {"delete"})
           pack == If(cfg.repack /\ status' = "ok", {"repack"})
           tar == If(cfg.type \in {"file"}, {"rm-tree"})
           btrfs == If(cfg.type \in {"btrfs-snapshot"}, {"delete"})
           first == {"realpath", "kill", "binfmt", "umount"}
           L(s, S) == List(s, S, StopRank)
<1>0. StopCommands \subseteq CommandNames
  BY DEF CommandNames, StopCommands
<1> HIDE DEF L
<1>a. ASSUME NEW S, NEW s, NEW T, NEW u, L(s, S), L(u, T),
             \A x \in S, y \in T : StopRank[x] < StopRank[y]
      PROVE  L(s \o u, S \cup T)
  BY <1>a, Joined, StopRanks DEF L
<1>b. /\ L(<<"umount-lower">>, {"umount-lower"}) /\ L(<<"rmdir-mountdir">>, {"rmdir-mountdir"})
      /\ L(<<"destroy-clone">>, {"destroy-clone"}) /\ L(<<"delete">>, {"delete"})
      /\ L(<<"repack">>, {"repack"}) /\ L(<<"rm-tree">>, {"rm-tree"})
  BY <1>0, ShortLists, StopRanks DEF L, StopCommands
<1>c. L(<<"rm-overlay", "rmdir-underlay">>, {"rm-overlay", "rmdir-underlay"})
  BY <1>0, StopRanks DEF List, Elements, Increasing, L, StopCommands
<1>1. L(<<"realpath", "kill", "binfmt", "umount">>, first)
  BY <1>0, StopRanks DEF List, Elements, Increasing, L, StopCommands
<1>2. L(Union(<<"umount-lower">>), below)
  BY <1>b, Optional, StopRanks DEF Union, L
<1>3. L(Snapshot({"zfs-snapshot"}, <<"destroy-clone">>), zfs)
  BY <1>b, Optional, StopRanks DEF Snapshot, L
<1>4. L(Union(<<"rm-overlay", "rmdir-underlay">>), union)
  BY <1>c, Optional, StopRanks DEF Union, L
<1>5. L(Snapshot({"lvm-snapshot"}, <<"delete">>), lvm)
  BY <1>b, Optional, StopRanks DEF Snapshot, L
<1>6. L(IF cfg.repack /\ status' = "ok" THEN <<"repack">> ELSE <<>>, pack)
  BY <1>b, Optional, StopRanks DEF L
<1>7. L(Snapshot({"file"}, <<"rm-tree">>), tar)
  BY <1>b, Optional, StopRanks DEF Snapshot, L
<1>8. L(Snapshot({"btrfs-snapshot"}, <<"delete">>), btrfs)
  BY <1>b, Optional, StopRanks DEF Snapshot, L
<1> DEFINE s2 == <<"realpath", "kill", "binfmt", "umount">> \o Union(<<"umount-lower">>)
           s3 == s2 \o <<"rmdir-mountdir">>
           s4 == s3 \o Snapshot({"zfs-snapshot"}, <<"destroy-clone">>)
           s5 == s4 \o Union(<<"rm-overlay", "rmdir-underlay">>)
           s6 == s5 \o Snapshot({"lvm-snapshot"}, <<"delete">>)
           s7 == s6 \o (IF cfg.repack /\ status' = "ok" THEN <<"repack">> ELSE <<>>)
           s8 == s7 \o Snapshot({"file"}, <<"rm-tree">>)
           s9 == s8 \o Snapshot({"btrfs-snapshot"}, <<"delete">>)
           upto == first \cup below \cup {"rmdir-mountdir"}
<1>9. L(s2, first \cup below)
  BY <1>a, <1>1, <1>2, StopRanks DEF If
<1>10. L(s3, upto)
  BY <1>a, <1>9, <1>b, StopRanks DEF If
<1>11. L(s4, upto \cup zfs)
  BY <1>a, <1>10, <1>3, StopRanks DEF If
<1>12. L(s5, upto \cup zfs \cup union)
  BY <1>a, <1>11, <1>4, StopRanks DEF If
<1>13. L(s6, upto \cup zfs \cup union \cup lvm)
  BY <1>a, <1>12, <1>5, StopRanks DEF If
<1>14. L(s7, upto \cup zfs \cup union \cup lvm \cup pack)
  <2>1. \A x \in upto \cup zfs \cup union \cup lvm, y \in pack : StopRank[x] < StopRank[y]
    BY StopRanks DEF If
  <2> HIDE DEF upto, zfs, union, lvm, pack, s6
  <2> QED  BY <1>a, <1>13, <1>6, <2>1
<1>15. L(s8, upto \cup zfs \cup union \cup lvm \cup pack \cup tar)
  BY <1>a, <1>14, <1>7, StopRanks DEF If
<1>16. L(s9, upto \cup zfs \cup union \cup lvm \cup pack \cup tar \cup btrfs)
  <2>1. \A x \in upto \cup zfs \cup union \cup lvm \cup pack \cup tar, y \in btrfs :
            StopRank[x] < StopRank[y]
    <3>1. CASE cfg.type = "btrfs-snapshot"
      <4>1. lvm = {} /\ pack = {} /\ tar = {} /\ btrfs = {"delete"}
        BY <3>1, ConfigFacts DEF If
      <4>2. upto \cup zfs \cup union \subseteq
              {"realpath", "kill", "binfmt", "umount", "umount-lower", "rmdir-mountdir",
               "destroy-clone", "rm-overlay", "rmdir-underlay"}
        BY DEF If
      <4> HIDE DEF upto, zfs, union, lvm, pack, tar, btrfs
      <4> QED  BY <4>1, <4>2, StopRanks
    <3>2. CASE cfg.type # "btrfs-snapshot"
      BY <3>2 DEF If
    <3> QED  BY <3>1, <3>2
  <2> HIDE DEF upto, zfs, union, lvm, pack, tar, btrfs, s8
  <2> QED  BY <1>a, <1>15, <1>8, <2>1
<1>17. s9 = SetupStop
  BY DEF SetupStop
<1> DEFINE all == {"realpath", "kill", "binfmt", "umount", "rmdir-mountdir"}
                  \cup If(cfg.union, {"umount-lower", "rm-overlay", "rmdir-underlay"})
                  \cup If(cfg.type = "zfs-snapshot", {"destroy-clone"})
                  \cup If(cfg.type \in {"lvm-snapshot", "btrfs-snapshot"}, {"delete"})
                  \cup If(cfg.repack /\ status' = "ok", {"repack"})
                  \cup If(cfg.type = "file", {"rm-tree"})
<1>18. upto \cup zfs \cup union \cup lvm \cup pack \cup tar \cup btrfs = all
  BY DEF If
<1>19. L(SetupStop, all)
  BY <1>16, <1>17, <1>18
<1> QED  BY <1>19 DEF L

-----------------------------------------------------------------------------
(* What a command may rely on. *)

\* What follows the first command has higher ranks.
LEMMA AfterHead ==
    ASSUME NEW s \in Seq(CommandNames), s # <<>>, NEW rank \in Ranks, Increasing(s, rank)
    PROVE  /\ Tail(s) \in Seq(CommandNames) /\ Head(s) \in Elements(s)
           /\ Elements(Tail(s)) = Elements(s) \ {Head(s)}
           /\ \A c \in Elements(Tail(s)) : rank[Head(s)] < rank[c]
           /\ Increasing(Tail(s), rank)
<1> DEFINE t == Tail(s)
<1>1. /\ t \in Seq(CommandNames) /\ Len(s) \in Nat /\ Len(s) > 0 /\ Len(t) = Len(s) - 1
      /\ \A i \in 1..Len(t) : t[i] = s[i + 1]
  OBVIOUS
<1>2. DOMAIN t = 1..Len(t) /\ DOMAIN s = 1..Len(s) /\ Head(s) = s[1]
  BY <1>1
<1> HIDE DEF t
<1>3. \A i \in DOMAIN t : i + 1 \in DOMAIN s /\ 1 < i + 1 /\ t[i] = s[i + 1]
  BY <1>1, <1>2
<1>4. \A c \in Elements(t) : rank[Head(s)] < rank[c]
  <2> SUFFICES ASSUME NEW i \in DOMAIN t PROVE rank[s[1]] < rank[t[i]]
    BY <1>2 DEF Elements
  <2>1. 1 \in DOMAIN s
    BY <1>1, <1>2
  <2> QED  BY <2>1, <1>3 DEF Increasing
<1>5. Elements(t) = Elements(s) \ {Head(s)}
  <2>1. Head(s) \notin Elements(t)
    <3>1. rank[Head(s)] \in Nat
      <4>1. Head(s) \in CommandNames
        OBVIOUS
      <4> QED  BY <4>1 DEF Ranks
    <3> QED  BY <3>1, <1>4
  <2>2. Elements(t) \subseteq Elements(s)
    BY <1>3 DEF Elements
  <2>3. \A i \in DOMAIN s : s[i] = Head(s) \/ s[i] \in Elements(t)
    <3> TAKE i \in DOMAIN s
    <3>1. CASE i = 1
      BY <3>1, <1>2
    <3>2. CASE i # 1
      <4>1. i - 1 \in DOMAIN t /\ t[i - 1] = s[i]
        BY <3>2, <1>1, <1>2
      <4> QED  BY <4>1 DEF Elements
    <3> QED  BY <3>1, <3>2
  <2>4. Elements(s) \ {Head(s)} \subseteq Elements(t)
    BY <2>3 DEF Elements
  <2> QED  BY <2>1, <2>2, <2>4
<1>6. Increasing(t, rank)
  <2> SUFFICES ASSUME NEW i \in DOMAIN t, NEW j \in DOMAIN t, i < j
               PROVE  rank[t[i]] < rank[t[j]]
    BY DEF Increasing
  <2>1. i + 1 \in DOMAIN s /\ j + 1 \in DOMAIN s /\ i + 1 < j + 1
    BY <1>1, <1>2, <1>3
  <2>2. t[i] = s[i + 1] /\ t[j] = s[j + 1]
    BY <1>3
  <2> QED  BY <2>1, <2>2 DEF Increasing
<1>7. Head(s) \in Elements(s)
  <2>1. 1 \in DOMAIN s
    BY <1>1, <1>2
  <2> QED  BY <2>1, <1>2 DEF Elements
<1> QED  BY <1>1, <1>4, <1>5, <1>6, <1>7 DEF t

\* A command runs only in a stage that has not failed.
LEMMA AtWork ==
    ASSUME ScriptsInv, todo # <<>>
    PROVE  ok /\ stage \in {"setup-start", "setup-recover", "setup-stop"}
BY DEF ScriptsInv, InOrder, TypeOK, Stages

\* The command at work in its stage, and what has been done before it.
LEMMA CommandInOrder ==
    ASSUME ScriptsInv, todo # <<>>
    PROVE  LET c == Head(todo) IN
           /\ Tail(todo) \in Seq(CommandNames) /\ c \in Left
           /\ Elements(Tail(todo)) = Left \ {c}
           /\ stage = "setup-start" =>
                /\ c \in StartCommands /\ Increasing(Tail(todo), StartRank)
                /\ c = "mount-lower" => Left \cap {"mkdir-underlay", "check-union"} = {}
                /\ c \in {"mount-lower", "mount"} => "mkdir-mountdir" \notin Left
                /\ c = "configure" => "mount" \notin Left
           /\ stage = "setup-recover" =>
                /\ c \in RecoverCommands /\ Increasing(Tail(todo), RecoverRank)
                /\ c = "mount-lower" => Left \cap {"mkdir-underlay", "check-union"} = {}
                /\ c \in {"mount-lower", "mount"} => "mkdir-mountdir" \notin Left
                /\ c = "mount" => "umount" \notin Left
                /\ c = "configure" => "mount" \notin Left
           /\ stage = "setup-stop" =>
                /\ c \in StopCommands /\ Increasing(Tail(todo), StopRank)
                /\ \A d \in Left \ {c} : StopRank[c] < StopRank[d]
                /\ c = "umount" => "kill" \notin Left
                /\ c = "umount-lower" => "umount" \notin Left
                /\ c = "rmdir-mountdir" => "umount" \notin Left
                /\ c = "rmdir-underlay" => "umount-lower" \notin Left
                /\ c \in {"destroy-clone", "destroy-snapshot", "rm-overlay", "rmdir-underlay",
                          "delete", "repack", "rm-tree"} => "rmdir-mountdir" \notin Left
<1> DEFINE c == Head(todo)
<1>1. todo \in Seq(CommandNames)
  BY DEF ScriptsInv, TypeOK
<1>2. CASE stage = "setup-start"
  <2>1. Left \subseteq StartCommands /\ Increasing(todo, StartRank)
    BY <1>2 DEF ScriptsInv, InOrder
  <2>2. /\ Tail(todo) \in Seq(CommandNames) /\ c \in Left /\ Elements(Tail(todo)) = Left \ {c}
        /\ Increasing(Tail(todo), StartRank)
        /\ \A d \in Left \ {c} : StartRank[c] < StartRank[d]
    BY <1>1, <2>1, AfterHead, StartRanks DEF Left
  <2> HIDE DEF c
  <2>3. "check-union" \notin Left
    BY <2>1 DEF StartCommands
  <2>4. /\ c = "mount-lower" => "mkdir-underlay" \notin Left
        /\ c \in {"mount-lower", "mount"} => "mkdir-mountdir" \notin Left
        /\ c = "configure" => "mount" \notin Left
    BY <2>2, StartRanks
  <2> QED  BY <1>2, <2>1, <2>2, <2>3, <2>4 DEF c
<1>3. CASE stage = "setup-recover"
  <2>1. Left \subseteq RecoverCommands /\ Increasing(todo, RecoverRank)
    BY <1>3 DEF ScriptsInv, InOrder
  <2>2. /\ Tail(todo) \in Seq(CommandNames) /\ c \in Left /\ Elements(Tail(todo)) = Left \ {c}
        /\ Increasing(Tail(todo), RecoverRank)
        /\ \A d \in Left \ {c} : RecoverRank[c] < RecoverRank[d]
    BY <1>1, <2>1, AfterHead, RecoverRanks DEF Left
  <2> HIDE DEF c
  <2>3. "mkdir-underlay" \notin Left
    BY <2>1 DEF RecoverCommands
  <2>4. /\ c = "mount-lower" => "check-union" \notin Left
        /\ c \in {"mount-lower", "mount"} => "mkdir-mountdir" \notin Left
        /\ c = "mount" => "umount" \notin Left
        /\ c = "configure" => "mount" \notin Left
    BY <2>2, RecoverRanks
  <2> QED  BY <1>3, <2>1, <2>2, <2>3, <2>4 DEF c
<1>4. CASE stage = "setup-stop"
  <2>1. Left \subseteq StopCommands /\ Increasing(todo, StopRank)
    BY <1>4 DEF ScriptsInv, InOrder
  <2>2. /\ Tail(todo) \in Seq(CommandNames) /\ c \in Left /\ Elements(Tail(todo)) = Left \ {c}
        /\ Increasing(Tail(todo), StopRank)
        /\ \A d \in Left \ {c} : StopRank[c] < StopRank[d]
    BY <1>1, <2>1, AfterHead, StopRanks DEF Left
  <2> HIDE DEF c
  <2>3. /\ c = "umount" => "kill" \notin Left
        /\ c = "umount-lower" => "umount" \notin Left
        /\ c = "rmdir-mountdir" => "umount" \notin Left
        /\ c = "rmdir-underlay" => "umount-lower" \notin Left
        /\ c \in {"destroy-clone", "destroy-snapshot", "rm-overlay", "rmdir-underlay",
                  "delete", "repack", "rm-tree"} => "rmdir-mountdir" \notin Left
    BY <2>2, StopRanks
  <2> QED  BY <1>4, <2>1, <2>2, <2>3 DEF c
<1> QED  BY <1>2, <1>3, <1>4, AtWork

-----------------------------------------------------------------------------
(* Every step keeps the invariant. *)

\* The next command follows.
LEMMA Proceeding ==
    ASSUME ScriptsInv, todo # <<>>, todo' = Tail(todo), UNCHANGED <<place, ok>>
    PROVE  /\ todo' \in Seq(CommandNames) /\ Left' = Left \ {Head(todo)}
           /\ ForThisChroot' /\ InOrder'
<1>1. todo' \in Seq(CommandNames) /\ Left' = Left \ {Head(todo)}
  BY CommandInOrder DEF Left
<1>2. ForThisChroot'
  BY <1>1 DEF ScriptsInv, ForThisChroot, place
<1>3. InOrder'
  <2>1. stage \notin {"none", "run"} /\ ok
    BY AtWork
  <2> QED  BY <1>1, <2>1, CommandInOrder DEF ScriptsInv, InOrder, place
<1> QED  BY <1>1, <1>2, <1>3

\* A failure ends the stage.
LEMMA Failing ==
    ASSUME ScriptsInv, todo # <<>>, todo' = <<>>, ok' = FALSE, UNCHANGED place
    PROVE  /\ todo' \in Seq(CommandNames)
           /\ ForThisChroot' /\ InOrder' /\ SettingUp' /\ TearingDown'
<1>1. Left' = {}
  BY DEF Left, Elements
<1>2. todo' \in Seq(CommandNames)
  OBVIOUS
<1>3. ForThisChroot'
  BY <1>1 DEF ForThisChroot
<1>4. InOrder'
  <2>1. \A rank : Increasing(todo', rank)
    BY DEF Increasing
  <2> QED  BY <1>1, <2>1 DEF InOrder
<1> QED  BY <1>2, <1>3, <1>4 DEF SettingUp, TearingDown

\* The things outside the scripts keep their types.
Typed ==
    /\ snapshot \in BOOLEAN /\ clone \in BOOLEAN
    /\ tree \in {"none", "partial", "full"}
    /\ overlay \in BOOLEAN /\ underlay \in BOOLEAN /\ mountdir \in BOOLEAN
    /\ mounts \in 0..MaxMounts /\ lower \in 0..MaxMounts
    /\ stray \in BOOLEAN /\ archive \in {"complete", "partial"}

\* A command that succeeds, or whose failure goes unnoticed; and one that fails.
Succeeds ==
    /\ todo' = Tail(todo) /\ UNCHANGED <<place, ok>> /\ fault' \in {fault, TRUE}
    /\ Left' = Left \ {Head(todo)} => SettingUp' /\ TearingDown'
Fails ==
    \E outside \in BOOLEAN :
      Abort(outside) /\ (stage = "setup-stop" => outside \/ fault \/ cfg.location > 0)

\* A command keeps the invariant if what stands after it and what was done so
\* far are right, and if setup-stop fails with a reason only.
LEMMA CommandStep ==
    ASSUME ScriptsInv, todo # <<>>, Typed', Standing', Succeeds \/ Fails
    PROVE  ScriptsInv'
<1>1. CASE Succeeds
  <2>1. StopRetryable'
    BY <1>1, AtWork DEF StopRetryable, Succeeds
  <2>2. todo' \in Seq(CommandNames) /\ ForThisChroot' /\ InOrder' /\ SettingUp' /\ TearingDown'
    BY <1>1, Proceeding DEF Succeeds
  <2>3. TypeOK'
    BY <1>1, <2>2 DEF ScriptsInv, TypeOK, Typed, Succeeds, place
  <2> QED  BY <2>1, <2>2, <2>3 DEF ScriptsInv
<1>2. CASE Fails
  <2>1. PICK outside \in BOOLEAN :
          Abort(outside) /\ (stage = "setup-stop" => outside \/ fault \/ cfg.location > 0)
    BY <1>2 DEF Fails
  <2>2. StopRetryable'
    BY <2>1 DEF StopRetryable, Abort, place
  <2>3. todo' \in Seq(CommandNames) /\ ForThisChroot' /\ InOrder' /\ SettingUp' /\ TearingDown'
    BY <2>1, Failing DEF Abort
  <2>4. TypeOK'
    BY <2>1, <2>3 DEF ScriptsInv, TypeOK, Typed, Abort, place
  <2> QED  BY <2>2, <2>3, <2>4 DEF ScriptsInv
<1> QED  BY <1>1, <1>2

\* The commands of setup-start and setup-recover that make something.
LEMMA MakingStage ==
    ASSUME ScriptsInv, todo # <<>>,
           Head(todo) \in (StartCommands \cup RecoverCommands) \ StopCommands
    PROVE  ok /\ file /\ stage \in {"setup-start", "setup-recover"}
BY AtWork, CommandInOrder DEF ScriptsInv, Standing

\* The commands of setup-stop alone.
LEMMA RemovingStage ==
    ASSUME ScriptsInv, todo # <<>>,
           Head(todo) \in StopCommands \ (StartCommands \cup RecoverCommands)
    PROVE  ok /\ file /\ stage = "setup-stop"
BY AtWork, CommandInOrder DEF ScriptsInv, Standing

\* 05btrfs, 05lvm and 05zfs: the snapshot and the clone are made.
LEMMA MakeSnapshotStep == ScriptsInv /\ (MakeSnapshot \/ MakeClone) => ScriptsInv'
<1> SUFFICES ASSUME ScriptsInv, MakeSnapshot \/ MakeClone PROVE ScriptsInv'
  OBVIOUS
<1>1. todo # <<>> /\ Head(todo) \in {"snapshot", "clone"}
  BY DEF MakeSnapshot, MakeClone, At
<1>2. ok /\ file /\ stage \in {"setup-start", "setup-recover"}
  BY <1>1, MakingStage DEF StartCommands, StopCommands
<1>3. /\ snapshot' \in BOOLEAN /\ clone' \in BOOLEAN /\ UNCHANGED <<dirs, tree, mnts, archive, place>>
      /\ (Go \/ \E outside \in BOOLEAN : Abort(outside))
  BY DEF MakeSnapshot, MakeClone, Fail, Go, Abort, ScriptsInv, TypeOK
<1>4. Typed' /\ Standing'
  BY <1>3 DEF ScriptsInv, TypeOK, Typed, Standing, Nothing, dirs, mnts, place
<1>5. Succeeds \/ Fails
  <2>1. CASE Go
    BY <1>1, <1>2, <1>3, <2>1
    DEF ScriptsInv, SettingUp, TearingDown, Succeeds, dirs, mnts, place, Go
  <2> QED  BY <1>2, <1>3, <2>1 DEF Fails
<1> QED  BY <1>1, <1>4, <1>5, CommandStep

\* 05file: the archive is unpacked.
LEMMA UnpackStep == ScriptsInv /\ Unpack => ScriptsInv'
<1> SUFFICES ASSUME ScriptsInv, Unpack PROVE ScriptsInv'
  OBVIOUS
<1>1. todo # <<>> /\ Head(todo) \in {"mkdir-tree", "unpack"}
  BY DEF Unpack, At
<1>2. ok /\ file /\ stage \in {"setup-start", "setup-recover"} /\ cfg.type = "file"
  BY <1>1, MakingStage, CommandInOrder
  DEF StartCommands, StopCommands, ScriptsInv, ForThisChroot
<1>3. /\ tree' \in {"none", "partial", "full"} /\ UNCHANGED <<dirs, snaps, mnts, archive, place>>
      /\ (Go \/ Abort(TRUE))
  BY DEF Unpack, Fail, Go, Abort, ScriptsInv, TypeOK
<1>4. Typed' /\ Standing'
  BY <1>2, <1>3 DEF ScriptsInv, TypeOK, Typed, Standing, Nothing, dirs, snaps, mnts, place
<1>5. Succeeds \/ Fails
  <2>1. CASE Go
    BY <1>1, <1>2, <1>3, <2>1
    DEF ScriptsInv, SettingUp, TearingDown, Succeeds, dirs, mnts, place, Go
  <2> QED  BY <1>2, <1>3, <2>1 DEF Fails
<1> QED  BY <1>1, <1>4, <1>5, CommandStep

\* 05union: the directories of the union are made, or looked for.
LEMMA MakeUnionStep == ScriptsInv /\ (MakeUnion \/ CheckUnion) => ScriptsInv'
<1> SUFFICES ASSUME ScriptsInv, MakeUnion \/ CheckUnion PROVE ScriptsInv'
  OBVIOUS
<1>1. todo # <<>> /\ Head(todo) \in {"mkdir-overlay", "mkdir-underlay", "check-union"}
  BY DEF MakeUnion, CheckUnion, At
<1>2. ok /\ file /\ stage \in {"setup-start", "setup-recover"} /\ cfg.union
  BY <1>1, MakingStage, CommandInOrder
  DEF StartCommands, RecoverCommands, StopCommands, ScriptsInv, ForThisChroot
<1>3. /\ overlay' \in BOOLEAN /\ underlay' \in BOOLEAN /\ (underlay => underlay')
      /\ UNCHANGED <<mountdir, snaps, tree, mnts, archive, place>>
      /\ \/ Go /\ (Head(todo) = "mkdir-overlay" \/ underlay')
         \/ \E outside \in BOOLEAN : Abort(outside)
  BY DEF MakeUnion, CheckUnion, dirs, Go, Abort, ScriptsInv, TypeOK, At
<1>a. Typed'
  BY <1>3 DEF ScriptsInv, TypeOK, Typed, snaps, mnts
<1>b. Standing'
  BY <1>2, <1>3 DEF ScriptsInv, Standing, mnts, place
<1>5. Succeeds \/ Fails
  <2>1. CASE Go /\ (Head(todo) = "mkdir-overlay" \/ underlay')
    BY <1>1, <1>2, <1>3, <2>1
    DEF ScriptsInv, SettingUp, TearingDown, Succeeds, mnts, place, Go
  <2> QED  BY <1>2, <1>3, <2>1 DEF Fails
<1> QED  BY <1>1, <1>a, <1>b, <1>5, CommandStep

\* 10mount: the mount location is made.
LEMMA MakeMountdirStep == ScriptsInv /\ MakeMountdir => ScriptsInv'
<1> SUFFICES ASSUME ScriptsInv, MakeMountdir PROVE ScriptsInv'
  OBVIOUS
<1>1. todo # <<>> /\ Head(todo) = "mkdir-mountdir"
  BY DEF MakeMountdir, At
<1>2. ok /\ file /\ stage \in {"setup-start", "setup-recover"}
  BY <1>1, MakingStage DEF StartCommands, StopCommands
<1>3. /\ mountdir' \in BOOLEAN /\ (mountdir => mountdir')
      /\ UNCHANGED <<overlay, underlay, snaps, tree, mnts, archive, place>>
      /\ ((Go /\ mountdir') \/ Abort(TRUE))
  <2>1. mountdir \in BOOLEAN
    BY DEF ScriptsInv, TypeOK
  <2>2. CASE mountdir' = TRUE /\ Go
    BY <2>2 DEF MakeMountdir, Go
  <2>3. CASE mountdir' = mountdir /\ Fail
    BY <2>1, <2>3 DEF MakeMountdir, Fail, Abort
  <2> QED  BY <2>2, <2>3 DEF MakeMountdir
<1>a. Typed'
  BY <1>3 DEF ScriptsInv, TypeOK, Typed, snaps, mnts
<1>b. Standing'
  BY <1>2, <1>3 DEF ScriptsInv, Standing, mnts, place
<1>5. Succeeds \/ Fails
  <2>1. CASE Go /\ mountdir'
    BY <1>1, <1>2, <1>3, <2>1
    DEF ScriptsInv, SettingUp, TearingDown, Succeeds, mnts, place, Go
  <2> QED  BY <1>2, <1>3, <2>1 DEF Fails
<1> QED  BY <1>1, <1>a, <1>b, <1>5, CommandStep

\* 10mount: a union needs the chroot below it mounted first.
LEMMA MountLowerStep == ScriptsInv /\ MountLower => ScriptsInv'
<1> SUFFICES ASSUME ScriptsInv, MountLower PROVE ScriptsInv'
  OBVIOUS
<1>1. todo # <<>> /\ Head(todo) = "mount-lower"
  BY DEF MountLower, At
<1>2. ok /\ file /\ stage \in {"setup-start", "setup-recover"}
  BY <1>1, MakingStage DEF StartCommands, StopCommands
<1>3. /\ lower' \in {lower, lower + 1}
      /\ UNCHANGED <<dirs, snaps, tree, mounts, stray, archive, place>>
      /\ (Go \/ Abort(TRUE))
  BY DEF MountLower, Fail, Go, Abort
<1>4. lower \in Nat /\ lower < MaxMounts /\ underlay
  BY <1>1, <1>2, CommandInOrder DEF ScriptsInv, TypeOK, SettingUp
<1>5. lower' \in 0..MaxMounts
  BY <1>3, <1>4, ScriptsAssumption
<1>6. Typed' /\ Standing'
  BY <1>2, <1>3, <1>4, <1>5 DEF ScriptsInv, TypeOK, Typed, Standing, Nothing, dirs, snaps, place
<1>7. Succeeds \/ Fails
  <2>1. CASE Go
    BY <1>1, <1>2, <1>3, <2>1
    DEF ScriptsInv, SettingUp, TearingDown, Succeeds, dirs, place, Go
  <2> QED  BY <1>2, <1>3, <2>1 DEF Fails
<1> QED  BY <1>1, <1>6, <1>7, CommandStep

\* 10mount: the chroot is mounted.
LEMMA MountStep == ScriptsInv /\ Mount => ScriptsInv'
<1> SUFFICES ASSUME ScriptsInv, Mount PROVE ScriptsInv'
  OBVIOUS
<1>1. todo # <<>> /\ Head(todo) = "mount"
  BY DEF Mount, At
<1>2. ok /\ file /\ stage \in {"setup-start", "setup-recover"}
  BY <1>1, MakingStage DEF StartCommands, StopCommands
<1>3. /\ mounts' \in {mounts, mounts + 1}
      /\ UNCHANGED <<dirs, snaps, tree, lower, stray, archive, place>>
      /\ ((Go /\ mounts' = mounts + 1) \/ \E outside \in BOOLEAN : Abort(outside))
  BY DEF Mount, Fail, Go, Abort
<1>4. mounts \in Nat /\ mounts < MaxMounts /\ mountdir /\ "umount" \notin Left
  <2>1. "umount" \notin Left
    BY <1>1, <1>2, CommandInOrder DEF ScriptsInv, InOrder, StartCommands
  <2> QED  BY <2>1, <1>1, <1>2, CommandInOrder DEF ScriptsInv, TypeOK, SettingUp
<1>5. mounts' \in 0..MaxMounts /\ mounts' >= mounts
  BY <1>3, <1>4, ScriptsAssumption
<1>6. Typed' /\ Standing'
  BY <1>2, <1>3, <1>4, <1>5 DEF ScriptsInv, TypeOK, Typed, Standing, Nothing, dirs, snaps, place
<1>7. Succeeds \/ Fails
  <2>1. CASE Go /\ mounts' = mounts + 1
    BY <1>1, <1>2, <1>3, <1>4, <2>1
    DEF ScriptsInv, SettingUp, TearingDown, Succeeds, dirs, place, Go
  <2> QED  BY <1>2, <1>3, <2>1 DEF Fails
<1> QED  BY <1>1, <1>6, <1>7, CommandStep

\* 20copyfiles to 70services, which may start processes in what is mounted.
LEMMA ConfigureStep == ScriptsInv /\ Configure => ScriptsInv'
<1> SUFFICES ASSUME ScriptsInv, Configure PROVE ScriptsInv'
  OBVIOUS
<1>1. todo # <<>> /\ Head(todo) = "configure"
  BY DEF Configure, At
<1>2. ok /\ file /\ stage \in {"setup-start", "setup-recover"}
  BY <1>1, MakingStage DEF StartCommands, StopCommands
<1>3. /\ stray' \in {stray, TRUE}
      /\ UNCHANGED <<dirs, snaps, tree, mounts, lower, archive, place>>
      /\ (Go \/ Abort(TRUE))
  BY DEF Configure, Fail, Go, Abort
<1>4. mounts > 0
  BY <1>1, <1>2, CommandInOrder DEF ScriptsInv, SettingUp
<1>5. Typed' /\ Standing'
  BY <1>2, <1>3, <1>4 DEF ScriptsInv, TypeOK, Typed, Standing, Nothing, dirs, snaps, place
<1>6. Succeeds \/ Fails
  <2>1. CASE Go
    BY <1>1, <1>2, <1>3, <1>4, <2>1
    DEF ScriptsInv, SettingUp, TearingDown, Succeeds, dirs, place, Go
  <2> QED  BY <1>2, <1>3, <2>1 DEF Fails
<1> QED  BY <1>1, <1>5, <1>6, CommandStep

\* 10mount: what is not busy is unmounted, and a failure goes unnoticed.
LEMMA UmountStep == ScriptsInv /\ Umount => ScriptsInv'
<1> SUFFICES ASSUME ScriptsInv, Umount PROVE ScriptsInv'
  OBVIOUS
<1>1. todo # <<>> /\ Head(todo) = "umount"
  BY DEF Umount, At
<1>2. ok /\ file /\ stage \in {"setup-recover", "setup-stop"}
  BY <1>1, AtWork, CommandInOrder DEF StartCommands, ScriptsInv, Standing
<1>3. mounts \in 0..MaxMounts /\ MaxMounts \in Nat
  BY ScriptsAssumption DEF ScriptsInv, TypeOK
<1>4. CASE mountdir /\ UNCHANGED mounts /\ Fail
  <2>1. UNCHANGED <<dirs, snaps, tree, mnts, archive, place>> /\ Fails
    BY <1>4 DEF Umount, mnts, Fail, Fails, Abort
  <2>2. Typed' /\ Standing'
    BY <1>2, <2>1 DEF ScriptsInv, TypeOK, Typed, Standing, dirs, snaps, mnts, place
  <2> QED  BY <1>1, <2>1, <2>2, CommandStep
<1>5. CASE ~(mountdir /\ UNCHANGED mounts /\ Fail)
  <2>1. /\ mounts' \in 0..MaxMounts /\ mounts' <= mounts
        /\ UNCHANGED <<dirs, snaps, tree, lower, stray, archive, place, ok>>
        /\ todo' = Tail(todo)
        /\ fault' \in {fault, TRUE} /\ (fault => fault')
        /\ mounts' > 0 => stray \/ fault'
        /\ stray /\ mounts > 0 => mounts' > 0
    <3>1. CASE Go /\ mounts' = 0 /\ (~stray \/ mounts = 0)
      BY <1>3, <3>1 DEF Umount, Go
    <3>2. CASE Go /\ mounts' \in 1..mounts /\ stray
      BY <1>3, <3>2 DEF Umount, Go
    <3>3. CASE /\ mounts' \in 1..mounts /\ ~stray
               /\ todo' = Tail(todo) /\ fault' = TRUE /\ UNCHANGED <<place, ok>>
      BY <1>3, <3>3 DEF Umount
    <3> QED  BY <1>5, <3>1, <3>2, <3>3 DEF Umount
  <2>2. Typed'
    BY <2>1 DEF ScriptsInv, TypeOK, Typed, dirs, snaps
  <2>3. Standing'
    BY <1>2, <1>3, <2>1 DEF ScriptsInv, Standing, dirs, place
  <2>4. ASSUME Left' = Left \ {"umount"} PROVE SettingUp' /\ TearingDown'
    <3>1. CASE stage = "setup-recover"
      <4>1. "mount" \in Left
        BY <1>1, <1>2, <3>1, CommandInOrder DEF ScriptsInv, SettingUp
      <4> QED  BY <1>2, <1>3, <2>1, <2>4, <3>1, <4>1
               DEF ScriptsInv, SettingUp, TearingDown, dirs, place
    <3>2. CASE stage = "setup-stop"
      <4>1. stray => fault
        BY <1>1, <1>2, <3>2, CommandInOrder DEF ScriptsInv, TearingDown
      <4> QED  BY <1>2, <1>3, <2>1, <2>4, <3>2, <4>1
               DEF ScriptsInv, SettingUp, TearingDown, dirs, place
    <3> QED  BY <1>2, <3>1, <3>2
  <2> QED  BY <1>1, <2>1, <2>2, <2>3, <2>4, CommandStep DEF Succeeds
<1> QED  BY <1>4, <1>5

\* 10mount: so is what the union lies over.
LEMMA UmountLowerStep == ScriptsInv /\ UmountLower => ScriptsInv'
<1> SUFFICES ASSUME ScriptsInv, UmountLower PROVE ScriptsInv'
  OBVIOUS
<1>1. todo # <<>> /\ Head(todo) = "umount-lower"
  BY DEF UmountLower, At
<1>2. ok /\ file /\ stage \in {"setup-recover", "setup-stop"}
  BY <1>1, AtWork, CommandInOrder DEF StartCommands, ScriptsInv, Standing
<1>3. lower \in 0..MaxMounts /\ mounts \in 0..MaxMounts /\ MaxMounts \in Nat
  BY ScriptsAssumption DEF ScriptsInv, TypeOK
<1>4. CASE underlay /\ UNCHANGED lower /\ Fail
  <2>1. UNCHANGED <<dirs, snaps, tree, mnts, archive, place>> /\ Fails
    BY <1>4 DEF UmountLower, mnts, Fail, Fails, Abort
  <2>2. Typed' /\ Standing'
    BY <1>2, <2>1 DEF ScriptsInv, TypeOK, Typed, Standing, dirs, snaps, mnts, place
  <2> QED  BY <1>1, <2>1, <2>2, CommandStep
<1>5. CASE ~(underlay /\ UNCHANGED lower /\ Fail)
  <2>1. /\ lower' \in 0..MaxMounts /\ lower' <= lower
        /\ UNCHANGED <<dirs, snaps, tree, mounts, stray, archive, place, ok>>
        /\ todo' = Tail(todo)
        /\ fault' \in {fault, TRUE} /\ (fault => fault')
        /\ lower' > 0 => mounts > 0 \/ fault'
    <3>1. CASE Go /\ lower' = 0
      BY <1>3, <3>1 DEF UmountLower, Go
    <3>2. CASE Go /\ lower' \in 0..lower /\ mounts > 0
      BY <1>3, <3>2 DEF UmountLower, Go
    <3>3. CASE /\ lower' \in 1..lower /\ mounts = 0
               /\ todo' = Tail(todo) /\ fault' = TRUE /\ UNCHANGED <<place, ok>>
      BY <1>3, <3>3 DEF UmountLower
    <3> QED  BY <1>5, <3>1, <3>2, <3>3 DEF UmountLower
  <2>2. Typed'
    BY <2>1 DEF ScriptsInv, TypeOK, Typed, dirs, snaps
  <2>3. Standing'
    BY <1>2, <1>3, <2>1 DEF ScriptsInv, Standing, dirs, place
  <2>4. ASSUME Left' = Left \ {"umount-lower"} PROVE SettingUp' /\ TearingDown'
    <3>1. CASE stage = "setup-recover"
      BY <1>2, <1>3, <2>1, <2>4, <3>1
      DEF ScriptsInv, SettingUp, TearingDown, dirs, place
    <3>2. CASE stage = "setup-stop"
      <4>1. mounts > 0 => fault
        BY <1>1, <1>2, <3>2, CommandInOrder DEF ScriptsInv, TearingDown
      <4> QED  BY <1>2, <1>3, <2>1, <2>4, <3>2, <4>1
               DEF ScriptsInv, SettingUp, TearingDown, dirs, place
    <3> QED  BY <1>2, <3>1, <3>2
  <2> QED  BY <1>1, <2>1, <2>2, <2>3, <2>4, CommandStep DEF Succeeds
<1> QED  BY <1>4, <1>5

\* 15binfmt, and the look at the root in 15killprocs, change nothing counted
\* here; the root is found unless it lies below the mount location.
LEMMA LookStep == ScriptsInv /\ (Binfmt \/ Realpath) => ScriptsInv'
<1> SUFFICES ASSUME ScriptsInv, Binfmt \/ Realpath PROVE ScriptsInv'
  OBVIOUS
<1>1. todo # <<>> /\ Head(todo) \in {"binfmt", "realpath"}
  BY DEF Binfmt, Realpath, At
<1>2. ok /\ file
  BY <1>1, AtWork DEF ScriptsInv, Standing
<1>3. UNCHANGED <<dirs, snaps, tree, mnts, archive, place>>
  BY DEF Binfmt, Realpath, Go, Fail, Abort
<1>4. Go \/ Abort(TRUE) \/ (Abort(FALSE) /\ cfg.location > 0)
  <2>1. CASE Binfmt
    BY <2>1 DEF Binfmt, Fail, Abort, Go
  <2>2. CASE Realpath
    <3>1. cfg.location \in 0..2
      BY ConfigFacts DEF ScriptsInv, TypeOK
    <3>2. Missing > 1 => cfg.location > 0
      BY <3>1 DEF Missing
    <3> QED  BY <2>2, <3>2 DEF Realpath, Abort, Go
  <2> QED  BY <2>1, <2>2
<1>5. Typed' /\ Standing'
  BY <1>2, <1>3 DEF ScriptsInv, TypeOK, Typed, Standing, dirs, snaps, mnts, place
<1>6. Succeeds \/ Fails
  <2>1. CASE Go
    BY <1>1, <1>2, <1>3, <2>1
    DEF ScriptsInv, SettingUp, TearingDown, Succeeds, dirs, mnts, place, Go
  <2> QED  BY <1>4, <2>1 DEF Fails
<1> QED  BY <1>1, <1>5, <1>6, CommandStep

\* 15killprocs: processes that survive it are a failure outside the scripts.
LEMMA KillStep == ScriptsInv /\ Kill => ScriptsInv'
<1> SUFFICES ASSUME ScriptsInv, Kill PROVE ScriptsInv'
  OBVIOUS
<1>1. todo # <<>> /\ Head(todo) = "kill"
  BY DEF Kill, At
<1>2. ok /\ file
  BY <1>1, AtWork DEF ScriptsInv, Standing
<1>3. /\ stray' \in BOOLEAN /\ (stray' => stray /\ fault')
      /\ UNCHANGED <<dirs, snaps, tree, mounts, lower, archive, place, ok>>
      /\ todo' = Tail(todo)
      /\ fault' \in {fault, TRUE} /\ (fault => fault')
  <2>0. stray \in BOOLEAN
    BY DEF ScriptsInv, TypeOK
  <2>1. CASE stray' = FALSE /\ Go
    BY <2>1 DEF Kill, Go
  <2>2. CASE /\ stray /\ UNCHANGED stray
             /\ todo' = Tail(todo) /\ fault' = TRUE /\ UNCHANGED <<place, ok>>
    BY <2>0, <2>2 DEF Kill
  <2> QED  BY <2>1, <2>2 DEF Kill
<1>4. Typed'
  BY <1>3 DEF ScriptsInv, TypeOK, Typed, dirs, snaps
<1>5. Standing'
  BY <1>2, <1>3 DEF ScriptsInv, Standing, dirs, place
<1>6. ASSUME Left' = Left \ {"kill"} PROVE SettingUp' /\ TearingDown'
  BY <1>1, <1>2, <1>3, <1>6 DEF ScriptsInv, SettingUp, TearingDown, dirs, place
<1> QED  BY <1>1, <1>3, <1>4, <1>5, <1>6, CommandStep DEF Succeeds

\* 10mount: the mount location goes only when nothing is mounted on it.
LEMMA RmdirMountdirStep == ScriptsInv /\ RmdirMountdir => ScriptsInv'
<1> SUFFICES ASSUME ScriptsInv, RmdirMountdir PROVE ScriptsInv'
  OBVIOUS
<1>1. todo # <<>> /\ Head(todo) = "rmdir-mountdir"
  BY DEF RmdirMountdir, At
<1>2. ok /\ file /\ stage = "setup-stop"
  BY <1>1, RemovingStage DEF StartCommands, RecoverCommands, StopCommands
<1>3. mounts > 0 => fault
  BY <1>1, <1>2, CommandInOrder DEF ScriptsInv, TearingDown
<1>4. mounts \in Nat
  BY DEF ScriptsInv, TypeOK
<1>5. /\ mountdir' \in BOOLEAN /\ (mountdir /\ ~mountdir' => mounts = 0)
      /\ UNCHANGED <<overlay, underlay, snaps, tree, mnts, archive, place>>
      /\ ((Go /\ ~mountdir') \/ Abort(mounts = 0))
  <2>0. mountdir \in BOOLEAN
    BY DEF ScriptsInv, TypeOK
  <2>1. CASE ~mountdir /\ Go /\ UNCHANGED mountdir
    BY <2>0, <2>1 DEF RmdirMountdir, Go
  <2>2. CASE mountdir /\ mounts = 0 /\ mountdir' = FALSE /\ Go
    BY <2>2 DEF RmdirMountdir, Go
  <2>3. CASE mountdir /\ Abort(mounts = 0) /\ UNCHANGED mountdir
    BY <2>0, <2>3 DEF RmdirMountdir, Abort
  <2> QED  BY <2>1, <2>2, <2>3 DEF RmdirMountdir
<1>6. Typed'
  BY <1>5 DEF ScriptsInv, TypeOK, Typed, snaps, mnts
<1>7. Standing'
  BY <1>2, <1>4, <1>5 DEF ScriptsInv, Standing, mnts, place
<1>8. Succeeds \/ Fails
  <2>1. CASE Go /\ ~mountdir'
    BY <1>1, <1>2, <1>5, <2>1
    DEF ScriptsInv, SettingUp, TearingDown, Succeeds, mnts, place, Go
  <2>2. CASE Abort(mounts = 0)
    <3>1. CASE mounts = 0
      <4>1. Abort(TRUE)
        BY <2>2, <3>1 DEF Abort
      <4> QED  BY <4>1 DEF Fails
    <3>2. CASE mounts # 0
      <4>1. Abort(FALSE) /\ fault
        BY <1>3, <1>4, <2>2, <3>2 DEF Abort
      <4> QED  BY <4>1 DEF Fails
    <3> QED  BY <3>1, <3>2
  <2> QED  BY <1>5, <2>1, <2>2
<1> QED  BY <1>1, <1>6, <1>7, <1>8, CommandStep

\* 05lvm and 05btrfs: a failure to delete the snapshot goes unnoticed.
LEMMA DeleteStep == ScriptsInv /\ Delete => ScriptsInv'
<1> SUFFICES ASSUME ScriptsInv, Delete PROVE ScriptsInv'
  OBVIOUS
<1>1. todo # <<>> /\ Head(todo) = "delete"
  BY DEF Delete, At
<1>2. ok /\ file /\ stage = "setup-stop"
  BY <1>1, RemovingStage DEF StartCommands, RecoverCommands, StopCommands
<1>3. /\ snapshot' \in BOOLEAN
      /\ UNCHANGED <<clone, dirs, tree, mnts, archive, place, ok>>
      /\ todo' = Tail(todo) /\ fault' \in {fault, TRUE} /\ (fault => fault')
  <2>0. snapshot \in BOOLEAN
    BY DEF ScriptsInv, TypeOK
  <2>1. CASE snapshot' = FALSE /\ Go
    BY <2>1 DEF Delete, Go
  <2>2. CASE /\ snapshot /\ UNCHANGED snapshot
             /\ todo' = Tail(todo) /\ fault' = TRUE /\ UNCHANGED <<place, ok>>
    BY <2>0, <2>2 DEF Delete
  <2> QED  BY <2>1, <2>2 DEF Delete
<1>4. Typed'
  BY <1>3 DEF ScriptsInv, TypeOK, Typed, dirs, mnts
<1>5. Standing'
  BY <1>3 DEF ScriptsInv, Standing, Nothing, dirs, mnts, place
<1>6. ASSUME Left' = Left \ {"delete"} PROVE SettingUp' /\ TearingDown'
  BY <1>2, <1>3, <1>6 DEF ScriptsInv, SettingUp, TearingDown, dirs, mnts, place
<1> QED  BY <1>1, <1>3, <1>4, <1>5, <1>6, CommandStep DEF Succeeds

\* 05union: the underlay goes only when nothing is mounted on it.
LEMMA RemoveUnionStep == ScriptsInv /\ RemoveUnion => ScriptsInv'
<1> SUFFICES ASSUME ScriptsInv, RemoveUnion PROVE ScriptsInv'
  OBVIOUS
<1>1. todo # <<>> /\ Head(todo) \in {"rm-overlay", "rmdir-underlay"}
  BY DEF RemoveUnion, At
<1>2. ok /\ file /\ stage = "setup-stop"
  BY <1>1, RemovingStage DEF StartCommands, RecoverCommands, StopCommands
<1>3. Head(todo) = "rmdir-underlay" /\ lower > 0 => fault
  BY <1>1, <1>2, CommandInOrder DEF ScriptsInv, TearingDown
<1>4. /\ lower \in Nat /\ overlay \in BOOLEAN /\ underlay \in BOOLEAN
  BY DEF ScriptsInv, TypeOK
<1>5. /\ overlay' \in BOOLEAN /\ underlay' \in BOOLEAN
      /\ (overlay' => overlay) /\ (underlay' => underlay)
      /\ (underlay /\ ~underlay' => lower = 0)
      /\ UNCHANGED <<mountdir, snaps, tree, mnts, archive, place>>
      /\ \/ Go /\ Head(todo) = "rm-overlay" /\ ~overlay'
         \/ Go /\ Head(todo) = "rmdir-underlay" /\ ~underlay'
         \/ Abort(TRUE)
         \/ Abort(lower = 0) /\ Head(todo) = "rmdir-underlay"
  <2>1. CASE At("rm-overlay") /\ overlay' = FALSE /\ Go /\ UNCHANGED underlay
    BY <1>4, <2>1 DEF RemoveUnion, Go, At
  <2>2. CASE At("rm-overlay") /\ Fail /\ UNCHANGED <<overlay, underlay>>
    BY <1>4, <2>2 DEF RemoveUnion, Fail, Abort
  <2>3. CASE At("rmdir-underlay") /\ (underlay => lower = 0) /\ underlay' = FALSE /\ Go
             /\ UNCHANGED overlay
    BY <1>4, <2>3 DEF RemoveUnion, Go, At
  <2>4. CASE At("rmdir-underlay") /\ underlay /\ Abort(lower = 0)
             /\ UNCHANGED <<overlay, underlay>>
    BY <1>4, <2>4 DEF RemoveUnion, Abort, At
  <2> QED  BY <2>1, <2>2, <2>3, <2>4 DEF RemoveUnion
<1>6. Typed'
  BY <1>5 DEF ScriptsInv, TypeOK, Typed, snaps, mnts
<1>7. Standing'
  BY <1>2, <1>4, <1>5 DEF ScriptsInv, Standing, mnts, place
<1>8. Succeeds \/ Fails
  <2>1. CASE Go /\ Head(todo) = "rm-overlay" /\ ~overlay'
    BY <1>2, <1>5, <2>1
    DEF ScriptsInv, SettingUp, TearingDown, Succeeds, mnts, place, Go
  <2>2. CASE Go /\ Head(todo) = "rmdir-underlay" /\ ~underlay'
    BY <1>2, <1>5, <2>2
    DEF ScriptsInv, SettingUp, TearingDown, Succeeds, mnts, place, Go
  <2>3. CASE Abort(TRUE)
    BY <2>3 DEF Fails
  <2>4. CASE Abort(lower = 0) /\ Head(todo) = "rmdir-underlay"
    <3>1. CASE lower = 0
      <4>1. Abort(TRUE)
        BY <2>4, <3>1 DEF Abort
      <4> QED  BY <4>1 DEF Fails
    <3>2. CASE lower # 0
      <4>1. Abort(FALSE) /\ fault
        BY <1>3, <1>4, <2>4, <3>2 DEF Abort
      <4> QED  BY <4>1 DEF Fails
    <3> QED  BY <3>1, <3>2
  <2> QED  BY <1>5, <2>1, <2>2, <2>3, <2>4
<1> QED  BY <1>1, <1>6, <1>7, <1>8, CommandStep

\* 05file: the tree is packed again, and removed.
LEMMA RemoveTreeStep == ScriptsInv /\ (Repack \/ RemoveTree) => ScriptsInv'
<1> SUFFICES ASSUME ScriptsInv, Repack \/ RemoveTree PROVE ScriptsInv'
  OBVIOUS
<1>1. todo # <<>> /\ Head(todo) \in {"repack", "rm-tree"}
  BY DEF Repack, RemoveTree, At
<1>2. ok /\ file /\ stage = "setup-stop"
  BY <1>1, RemovingStage DEF StartCommands, RecoverCommands, StopCommands
<1>3. /\ tree' \in {"none", "partial", "full"} /\ archive' \in {"complete", "partial"}
      /\ (tree = "none" => tree' = "none")
      /\ UNCHANGED <<dirs, snaps, mnts, place>>
      /\ \/ Go /\ Head(todo) = "repack" /\ UNCHANGED tree
         \/ Go /\ Head(todo) = "rm-tree" /\ tree' = "none"
         \/ Abort(TRUE)
  BY DEF ScriptsInv, TypeOK, Repack, RemoveTree, Go, Fail, Abort, At
<1>4. Typed'
  BY <1>3 DEF ScriptsInv, TypeOK, Typed, dirs, snaps, mnts
<1>5. Standing'
  BY <1>2, <1>3 DEF ScriptsInv, Standing, dirs, mnts, place
<1>6. Succeeds \/ Fails
  <2>1. CASE Go /\ Head(todo) = "repack" /\ UNCHANGED tree
    BY <1>2, <1>3, <2>1
    DEF ScriptsInv, SettingUp, TearingDown, Succeeds, dirs, mnts, place, Go
  <2>2. CASE Go /\ Head(todo) = "rm-tree" /\ tree' = "none"
    BY <1>2, <1>3, <2>2
    DEF ScriptsInv, SettingUp, TearingDown, Succeeds, dirs, mnts, place, Go
  <2> QED  BY <1>3, <2>1, <2>2 DEF Fails
<1> QED  BY <1>1, <1>4, <1>5, <1>6, CommandStep

\* 05zfs: where the clone was destroyed, its snapshot is next.
LEMMA DestroyStep == ScriptsInv /\ Destroy => ScriptsInv'
<1> SUFFICES ASSUME ScriptsInv, Destroy PROVE ScriptsInv'
  OBVIOUS
<1>1. todo # <<>> /\ Head(todo) \in {"destroy-clone", "destroy-snapshot"}
  BY DEF Destroy, At
<1>2. ok /\ file /\ stage = "setup-stop"
  BY <1>1, RemovingStage DEF StartCommands, RecoverCommands, StopCommands
<1> DEFINE Next2 ==
      /\ Head(todo) = "destroy-clone" /\ todo' = <<"destroy-snapshot">> \o Tail(todo)
      /\ UNCHANGED <<ok, fault>>
<1>3. /\ snapshot' \in BOOLEAN /\ clone' \in BOOLEAN
      /\ UNCHANGED <<dirs, tree, mnts, archive, place>>
      /\ Go \/ Next2 \/ Abort(TRUE)
  <2>0. snapshot \in BOOLEAN /\ clone \in BOOLEAN
    BY DEF ScriptsInv, TypeOK
  <2>1. CASE Go
    BY <2>0, <2>1 DEF Destroy, Go, snaps
  <2>2. CASE Fail
    BY <2>0, <2>2 DEF Destroy, Fail, Abort, snaps
  <2>3. CASE /\ At("destroy-clone") /\ clone /\ clone' = FALSE /\ UNCHANGED snapshot
             /\ todo' = <<"destroy-snapshot">> \o Tail(todo) /\ UNCHANGED <<place, ok, fault>>
    BY <2>0, <2>3 DEF Destroy, At
  <2> QED  BY <2>1, <2>2, <2>3 DEF Destroy
<1>4. Typed' /\ Standing'
  BY <1>3 DEF ScriptsInv, TypeOK, Typed, Standing, Nothing, dirs, mnts, place
<1>5. CASE Go \/ Abort(TRUE)
  <2>1. ASSUME Go PROVE Succeeds
    BY <1>1, <1>2, <1>3, <2>1
    DEF ScriptsInv, SettingUp, TearingDown, Succeeds, dirs, mnts, place, Go
  <2>2. Succeeds \/ Fails
    BY <1>5, <2>1 DEF Fails
  <2> QED  BY <1>1, <1>4, <2>2, CommandStep
<1>6. CASE Next2
  <2>1. /\ Tail(todo) \in Seq(CommandNames) /\ Elements(Tail(todo)) = Left \ {"destroy-clone"}
        /\ Increasing(Tail(todo), StopRank) /\ Left \subseteq StopCommands
        /\ \A d \in Left \ {"destroy-clone"} : StopRank["destroy-clone"] < StopRank[d]
    BY <1>1, <1>2, <1>6, CommandInOrder DEF ScriptsInv, InOrder
  <2>2. List(<<"destroy-snapshot">>, {"destroy-snapshot"}, StopRank)
    BY ShortLists, StopRanks DEF CommandNames
  <2>3. List(todo', {"destroy-snapshot"} \cup (Left \ {"destroy-clone"}), StopRank)
    <3>1. List(Tail(todo), Left \ {"destroy-clone"}, StopRank)
      BY <2>1 DEF List
    <3>2. \A x \in {"destroy-snapshot"}, y \in Left \ {"destroy-clone"} : StopRank[x] < StopRank[y]
      BY <2>1, StopRanks
    <3>3. StopRank \in Ranks
      BY StopRanks
    <3>4. List(<<"destroy-snapshot">> \o Tail(todo),
               {"destroy-snapshot"} \cup (Left \ {"destroy-clone"}), StopRank)
      BY <2>2, <3>1, <3>2, <3>3, Joined
    <3> QED  BY <1>6, <3>4
  <2>4. /\ todo' \in Seq(CommandNames) /\ Increasing(todo', StopRank)
        /\ Left' = {"destroy-snapshot"} \cup (Left \ {"destroy-clone"})
    BY <2>3 DEF List, Left
  <2>5. TypeOK'
    BY <1>3, <1>4, <1>6, <2>4 DEF ScriptsInv, TypeOK, Typed, place
  <2>6. ForThisChroot'
    BY <1>3, <2>4 DEF ScriptsInv, ForThisChroot, place
  <2>7. InOrder'
    BY <1>2, <1>3, <1>6, <2>1, <2>4 DEF InOrder, place, StopCommands
  <2>8. SettingUp' /\ TearingDown'
    BY <1>2, <1>3, <1>6, <2>4 DEF ScriptsInv, SettingUp, TearingDown, dirs, mnts, place
  <2>9. StopRetryable'
    BY <1>2, <1>6 DEF StopRetryable
  <2> QED  BY <1>4, <2>5, <2>6, <2>7, <2>8, <2>9 DEF ScriptsInv
<1> QED  BY <1>3, <1>5, <1>6

\* Where no script runs, what stands is all there is to show.
LEMMA QuietStep ==
    ASSUME ScriptsInv, TypeOK', Standing', stage' \in {"none", "run"}, todo' = <<>>
    PROVE  ScriptsInv'
<1>1. Left' = {}
  BY DEF Left, Elements
<1>2. ForThisChroot'
  BY <1>1 DEF ForThisChroot
<1>3. InOrder'
  BY DEF InOrder
<1> QED  BY <1>2, <1>3 DEF ScriptsInv, SettingUp, TearingDown, StopRetryable

\* A new session begins with setup-start.
LEMMA CreateStep == ScriptsInv /\ (Create("AUTOMATIC") \/ Create("BEGIN")) => ScriptsInv'
<1> SUFFICES ASSUME ScriptsInv, Create("AUTOMATIC") \/ Create("BEGIN") PROVE ScriptsInv'
  OBVIOUS
<1>1. /\ ~file /\ mode' \in {"AUTOMATIC", "BEGIN"} /\ file' = TRUE /\ stage' = "setup-start"
      /\ status' = "ok" /\ todo' = SetupStart /\ ok' = TRUE /\ fault' = FALSE
      /\ UNCHANGED <<cfg, dirs, snaps, tree, mnts, archive>>
  BY DEF Create, RunParts, Commands
<1>2. cfg \in Configs /\ Nothing
  BY <1>1 DEF ScriptsInv, TypeOK, Standing
<1>3. /\ todo' \in Seq(CommandNames) /\ Increasing(todo', StartRank)
      /\ Left' = If(cfg.type \in {"btrfs-snapshot", "lvm-snapshot", "zfs-snapshot"}, {"snapshot"})
                 \cup If(cfg.type = "zfs-snapshot", {"clone"})
                 \cup If(cfg.type = "file", {"mkdir-tree", "unpack"})
                 \cup If(cfg.union, {"mkdir-overlay", "mkdir-underlay", "mount-lower"})
                 \cup {"mkdir-mountdir", "mount", "binfmt", "configure"}
  BY <1>1, <1>2, StartList DEF List, Left
<1>4. TypeOK'
  BY <1>1, <1>3 DEF ScriptsInv, TypeOK, Stages, dirs, snaps, mnts
<1>5. Standing'
  BY <1>1 DEF ScriptsInv, Standing, dirs, mnts
<1>6. ForThisChroot'
  BY <1>1, <1>3 DEF ForThisChroot, If
<1>7. InOrder'
  BY <1>1, <1>3 DEF InOrder, If, StartCommands
<1>8. SettingUp'
  BY <1>1, <1>2, <1>3, ScriptsAssumption DEF SettingUp, If, Nothing, dirs, mnts
<1> QED  BY <1>1, <1>4, <1>5, <1>6, <1>7, <1>8 DEF ScriptsInv, TearingDown, StopRetryable

\* Recovery runs on what a session has left.
LEMMA RecoverStep == ScriptsInv /\ Recover => ScriptsInv'
<1> SUFFICES ASSUME ScriptsInv, Recover PROVE ScriptsInv'
  OBVIOUS
<1>1. /\ file /\ mounts < MaxMounts /\ lower < MaxMounts
      /\ mode' = "RECOVER" /\ file' = file /\ stage' = "setup-recover"
      /\ status' = "ok" /\ todo' = SetupRecover /\ ok' = TRUE /\ fault' = FALSE
      /\ UNCHANGED <<cfg, dirs, snaps, tree, mnts, archive>>
  BY DEF Recover, RunParts, Commands
<1>2. cfg \in Configs
  BY DEF ScriptsInv, TypeOK
<1>3. /\ todo' \in Seq(CommandNames) /\ Increasing(todo', RecoverRank)
      /\ Left' = If(cfg.union, {"check-union", "umount-lower", "mount-lower"})
                 \cup {"mkdir-mountdir", "umount", "mount", "binfmt", "realpath", "kill",
                       "configure"}
  BY <1>1, <1>2, RecoverList DEF List, Left
<1>4. TypeOK'
  BY <1>1, <1>3 DEF ScriptsInv, TypeOK, Stages, dirs, snaps, mnts
<1>5. Standing'
  BY <1>1 DEF ScriptsInv, Standing, dirs, mnts
<1>6. ForThisChroot'
  BY <1>1, <1>3 DEF ForThisChroot, If
<1>7. InOrder'
  BY <1>1, <1>3 DEF InOrder, If, RecoverCommands
<1>8. SettingUp'
  BY <1>1, <1>3 DEF SettingUp, If, dirs, mnts
<1> QED  BY <1>1, <1>4, <1>5, <1>6, <1>7, <1>8 DEF ScriptsInv, TearingDown, StopRetryable

\* So does setup-stop, whoever runs it.
LEMMA StopStep ==
    ASSUME ScriptsInv, file, file' = file, NEW stat \in {"ok", "fail"},
           mode' \in {"AUTOMATIC", "BEGIN", "RECOVER", "END"}, RunParts("setup-stop", stat)
    PROVE  ScriptsInv'
<1>1. /\ stage' = "setup-stop" /\ status' = stat /\ todo' = SetupStop
      /\ ok' = TRUE /\ fault' = FALSE
      /\ UNCHANGED <<cfg, dirs, snaps, tree, mnts, archive>>
  BY DEF RunParts, Commands
<1>2. cfg \in Configs
  BY DEF ScriptsInv, TypeOK
<1>3. /\ todo' \in Seq(CommandNames) /\ Increasing(todo', StopRank)
      /\ Left' = {"realpath", "kill", "binfmt", "umount", "rmdir-mountdir"}
                 \cup If(cfg.union, {"umount-lower", "rm-overlay", "rmdir-underlay"})
                 \cup If(cfg.type = "zfs-snapshot", {"destroy-clone"})
                 \cup If(cfg.type \in {"lvm-snapshot", "btrfs-snapshot"}, {"delete"})
                 \cup If(cfg.repack /\ status' = "ok", {"repack"})
                 \cup If(cfg.type = "file", {"rm-tree"})
  BY <1>1, <1>2, StopList DEF List, Left
<1>4. TypeOK'
  BY <1>1, <1>3 DEF ScriptsInv, TypeOK, Stages, dirs, snaps, mnts
<1>5. Standing'
  BY <1>1 DEF ScriptsInv, Standing, dirs, mnts
<1>6. ForThisChroot'
  BY <1>1, <1>3 DEF ForThisChroot, If
<1>7. InOrder'
  BY <1>1, <1>3 DEF InOrder, If, StopCommands
<1>8. TearingDown'
  BY <1>1, <1>3, <1>5 DEF TearingDown, Standing, If
<1> QED  BY <1>1, <1>4, <1>5, <1>6, <1>7, <1>8 DEF ScriptsInv, SettingUp, StopRetryable

\* setup-stop is over: when all its scripts succeeded, nothing is left.
LEMMA NothingLeft ==
    ASSUME ScriptsInv, stage = "setup-stop", todo = <<>>, ok
    PROVE  Nothing
<1>1. Left = {}
  BY DEF Left, Elements
<1>2. ~mountdir /\ ~overlay /\ ~underlay /\ tree = "none"
  BY <1>1 DEF ScriptsInv, TearingDown
<1>3. ~(mounts > 0) /\ ~(lower > 0)
  BY <1>2 DEF ScriptsInv, Standing
<1>4. mounts \in Nat /\ lower \in Nat
  BY DEF ScriptsInv, TypeOK
<1> QED  BY <1>2, <1>3, <1>4 DEF Nothing

\* The operations other than those that begin a session or its recovery.
LEMMA OperationStep ==
    ScriptsInv /\ (End \/ Started \/ CommandDone \/ Recovered \/ Stopped \/ Enter) => ScriptsInv'
<1> SUFFICES ASSUME ScriptsInv, End \/ Started \/ CommandDone \/ Recovered \/ Stopped \/ Enter
             PROVE  ScriptsInv'
  OBVIOUS
<1>0. mode \in {"AUTOMATIC", "BEGIN", "RECOVER", "END"} /\ (stage # "none" => file)
  BY DEF ScriptsInv, TypeOK, Standing
<1>1. CASE End
  BY <1>1, StopStep DEF End
<1>2. CASE CommandDone
  BY <1>0, <1>2, StopStep DEF CommandDone
<1>a. ASSUME Idle, UNCHANGED mnts, todo = <<>>, file' = file \/ (file' = FALSE /\ Nothing)
      PROVE  ScriptsInv'
  <2>1. file' \in BOOLEAN
    BY <1>a DEF ScriptsInv, TypeOK
  <2>2. TypeOK'
    BY <1>a, <2>1 DEF Idle, ScriptsInv, TypeOK, Stages, dirs, snaps, mnts
  <2>3. Standing'
    BY <1>a DEF Idle, ScriptsInv, Standing, Nothing, dirs, mnts
  <2> QED  BY <1>a, <2>2, <2>3, QuietStep DEF Idle
<1>3. CASE Started
  <2>1. CASE mode = "BEGIN" /\ Idle /\ UNCHANGED <<file, mnts>>
    BY <1>3, <1>a, <2>1 DEF Started
  <2>2. CASE /\ mode = "AUTOMATIC" /\ ok
             /\ stage' = "run" /\ stray' \in BOOLEAN
             /\ UNCHANGED <<cfg, file, mode, status, run, dirs, snaps, tree, mounts, lower, archive>>
    <3>1. Left = {}
      BY <1>3 DEF Started, Left, Elements
    <3>2. mounts > 0 /\ file
      BY <1>0, <1>3, <2>2, <3>1 DEF Started, ScriptsInv, SettingUp
    <3>3. TypeOK'
      BY <2>2 DEF ScriptsInv, TypeOK, Stages, dirs, snaps, run
    <3>4. Standing'
      BY <2>2, <3>2 DEF ScriptsInv, Standing, dirs
    <3> QED  BY <1>3, <2>2, <3>3, <3>4, QuietStep DEF Started, run
  <2>3. CASE /\ UNCHANGED <<file, mode>>
             /\ \E stat \in {"ok", "fail"} : RunParts("setup-stop", stat)
    BY <1>0, <1>3, <2>3, StopStep DEF Started
  <2> QED  BY <1>3, <2>1, <2>2, <2>3 DEF Started
<1>4. CASE Recovered
  BY <1>4, <1>a DEF Recovered
<1>5. CASE Stopped
  <2>1. ok => Nothing
    BY <1>5, NothingLeft DEF Stopped
  <2> QED  BY <1>5, <1>a, <2>1 DEF Stopped
<1>6. CASE Enter
  <2>1. TypeOK'
    BY <1>6 DEF Enter, ScriptsInv, TypeOK, place, run, dirs, snaps
  <2>2. Standing'
    BY <1>6 DEF Enter, ScriptsInv, Standing, place, dirs
  <2>3. stage' = "none" /\ todo' = <<>>
    BY <1>6 DEF Enter, ScriptsInv, InOrder, place, run
  <2> QED  BY <2>1, <2>2, <2>3, QuietStep
<1> QED  BY <1>1, <1>2, <1>3, <1>4, <1>5, <1>6

\* A crash and a reboot take no directory; a reboot takes all mounts.
LEMMA CrashStep == ScriptsInv /\ (Crash \/ Reboot) => ScriptsInv'
<1> SUFFICES ASSUME ScriptsInv, Crash \/ Reboot PROVE ScriptsInv'
  OBVIOUS
<1>1. /\ stage' = "none" /\ ok' = TRUE /\ fault' = FALSE /\ todo' = <<>>
      /\ UNCHANGED <<cfg, file, mode, status, dirs, snaps, tree, archive>>
  BY DEF Crash, Reboot
<1>2. (mounts' = 0 /\ lower' = 0 /\ stray' = FALSE) \/ UNCHANGED mnts
  BY DEF Crash, Reboot
<1>3. TypeOK'
  <2>1. mounts' \in 0..MaxMounts /\ lower' \in 0..MaxMounts /\ stray' \in BOOLEAN
    <3>1. mounts \in 0..MaxMounts /\ lower \in 0..MaxMounts /\ stray \in BOOLEAN
      BY DEF ScriptsInv, TypeOK
    <3>2. 0 \in 0..MaxMounts
      BY ScriptsAssumption
    <3>3. CASE mounts' = 0 /\ lower' = 0 /\ stray' = FALSE
      BY <3>2, <3>3
    <3>4. CASE UNCHANGED mnts
      BY <3>1, <3>4 DEF mnts
    <3> QED  BY <1>2, <3>3, <3>4
  <2>2. todo' \in Seq(CommandNames)
    BY <1>1
  <2> QED  BY <1>1, <2>1, <2>2 DEF ScriptsInv, TypeOK, Stages, dirs, snaps
<1>4. Standing'
  BY <1>1, <1>2 DEF ScriptsInv, Standing, Nothing, dirs, mnts
<1> QED  BY <1>1, <1>3, <1>4, QuietStep

-----------------------------------------------------------------------------
(* The theorems. *)

\* The initial state has no session.
LEMMA ScriptsInit == Init => ScriptsInv
<1> SUFFICES ASSUME Init PROVE ScriptsInv
  OBVIOUS
<1>1. Left = {}
  BY DEF Init, Left, Elements
<1>2. TypeOK
  <2>1. 0 \in 0..MaxMounts
    BY ScriptsAssumption
  <2>2. todo \in Seq(CommandNames)
    BY DEF Init
  <2> QED  BY <2>1, <2>2 DEF Init, TypeOK, Stages
<1>3. Standing
  BY DEF Init, Standing, Nothing
<1> QED  BY <1>1, <1>2, <1>3
         DEF Init, ScriptsInv, ForThisChroot, InOrder, SettingUp, TearingDown, StopRetryable

\* Every step of the scripts, of the processes that run them and of the machine
\* keeps the invariant.
LEMMA ScriptsNext == ScriptsInv /\ [Next]_vars => ScriptsInv'
<1> SUFFICES ASSUME ScriptsInv, [Next]_vars PROVE ScriptsInv'
  OBVIOUS
<1>1. CASE UNCHANGED vars
  BY <1>1 DEF vars, place, run, dirs, snaps, mnts, ScriptsInv, TypeOK, ForThisChroot, InOrder,
              Standing, SettingUp, TearingDown, StopRetryable, Nothing, Left
<1>2. CASE Operation
  BY <1>2, CreateStep, RecoverStep, OperationStep DEF Operation
<1>3. CASE Script
  BY <1>3, MakeSnapshotStep, UnpackStep, MakeUnionStep, MakeMountdirStep, MountLowerStep,
     MountStep, UmountStep, UmountLowerStep, LookStep, ConfigureStep, KillStep,
     RmdirMountdirStep, DestroyStep, DeleteStep, RemoveUnionStep, RemoveTreeStep
  DEF Script
<1>4. CASE Crash \/ Reboot
  BY <1>4, CrashStep
<1> QED  BY <1>1, <1>2, <1>3, <1>4 DEF Next

\* The invariant that the argument rests on.
THEOREM ScriptsInvariant == Spec => []ScriptsInv
BY ScriptsInit, ScriptsNext, PTL DEF Spec

\* The scripts' variables keep their types; no recovery stacks more mounts than
\* the bound.
THEOREM ScriptsTypeOK == Spec => []TypeOK
<1>1. ScriptsInv => TypeOK
  BY DEF ScriptsInv
<1> QED  BY <1>1, ScriptsInvariant, PTL

\* "They must be idempotent during the setup-stop phase": setup-stop fails only
\* for a reason outside the scripts, after any number of crashes, reboots,
\* recoveries and failed stops before it.
THEOREM StopsCanBeRepeated == Spec => []StopRetryable
<1>1. ScriptsInv => StopRetryable
  BY DEF ScriptsInv
<1> QED  BY <1>1, ScriptsInvariant, PTL

\* Once 10mount has removed the mount location, nothing is mounted on it and
\* no process runs inside.
LEMMA Unmounted ==
    ASSUME ScriptsInv, todo # <<>>,
           Head(todo) \in {"destroy-clone", "destroy-snapshot", "rm-overlay", "rmdir-underlay",
                           "delete", "repack", "rm-tree"}
    PROVE  mounts = 0 /\ ~stray
<1>1. ok /\ stage = "setup-stop"
  BY RemovingStage DEF StartCommands, RecoverCommands, StopCommands
<1>2. "rmdir-mountdir" \notin Left
  BY <1>1, CommandInOrder
<1>3. ~mountdir
  BY <1>1, <1>2 DEF ScriptsInv, TearingDown
<1>4. mounts \in Nat
  BY DEF ScriptsInv, TypeOK
<1> QED  BY <1>3, <1>4 DEF ScriptsInv, Standing

\* Only these commands destroy something.
LEMMA WhatDestroys ==
    ASSUME Next, archive' # archive \/ (overlay /\ ~overlay') \/ (snapshot /\ ~snapshot')
    PROVE  todo # <<>> /\ Head(todo) \in {"destroy-snapshot", "rm-overlay", "delete", "repack"}
<1>1. CASE Operation
  BY <1>1 DEF Operation, Create, Recover, End, Started, CommandDone, Recovered, Stopped, Enter,
              RunParts, Idle, dirs, snaps
<1>2. CASE Crash \/ Reboot
  BY <1>2 DEF Crash, Reboot, dirs, snaps
<1>3. CASE MakeSnapshot \/ MakeClone \/ Unpack
  BY <1>3 DEF MakeSnapshot, MakeClone, Unpack, dirs, snaps
<1>4. CASE MakeUnion \/ CheckUnion \/ MakeMountdir
  BY <1>4 DEF MakeUnion, CheckUnion, MakeMountdir, dirs, snaps
<1>5. CASE MountLower \/ Mount \/ Umount \/ UmountLower \/ Binfmt \/ Configure \/ Realpath \/ Kill
  BY <1>5 DEF MountLower, Mount, Umount, UmountLower, Binfmt, Configure, Realpath, Kill, dirs, snaps
<1>6. CASE RmdirMountdir \/ Destroy \/ Delete
  BY <1>6 DEF RmdirMountdir, Destroy, Delete, At, dirs, snaps
<1>7. CASE RemoveUnion \/ Repack \/ RemoveTree
  BY <1>7 DEF RemoveUnion, Repack, RemoveTree, At, dirs, snaps
<1> QED  BY <1>1, <1>2, <1>3, <1>4, <1>5, <1>6, <1>7 DEF Next, Script

\* setup-stop repacks and deletes only what is unmounted, although do_umount_all
\* does not report what it could not unmount: rmdir of the mount location, which
\* comes before, does.
THEOREM DestroysOnlyUnmounted == Spec => DestroyOnlyUnmounted
<1> DEFINE Safe == \/ archive' # archive
                   \/ At("repack") /\ tree = "full"
                   \/ At("rm-tree")
                   \/ overlay /\ ~overlay'
                   \/ snapshot /\ ~snapshot'
                   => mounts = 0 /\ ~stray
<1>1. ScriptsInv /\ [Next]_vars => [Safe]_vars
  <2> SUFFICES ASSUME ScriptsInv, Next PROVE Safe
    OBVIOUS
  <2>1. At("repack") \/ At("rm-tree") => mounts = 0 /\ ~stray
    BY Unmounted DEF At
  <2>2. archive' # archive \/ (overlay /\ ~overlay') \/ (snapshot /\ ~snapshot')
        => mounts = 0 /\ ~stray
    BY Unmounted, WhatDestroys
  <2> QED  BY <2>1, <2>2
<1> QED  BY <1>1, ScriptsInvariant, PTL DEF Spec, DestroyOnlyUnmounted

\* The session file comes and goes alone.
LEMMA FileSteps ==
    ASSUME Next, file' # file
    PROVE  UNCHANGED <<dirs, tree, mnts>>
<1>1. CASE Operation
  BY <1>1 DEF Operation, Create, Recover, End, Started, CommandDone, Recovered, Stopped, Enter,
              RunParts, Idle, place
<1>2. CASE Crash \/ Reboot
  BY <1>2 DEF Crash, Reboot
<1>3. CASE Script
  <2>1. UNCHANGED place
    BY <1>3 DEF Script, MakeSnapshot, MakeClone, Unpack, MakeUnion, CheckUnion, MakeMountdir,
                MountLower, Mount, Umount, UmountLower, Binfmt, Configure, Realpath, Kill,
                RmdirMountdir, Destroy, Delete, RemoveUnion, Repack, RemoveTree, Go, Fail, Abort
  <2> QED  BY <2>1 DEF place
<1> QED  BY <1>1, <1>2, <1>3 DEF Next

\* The scripts keep the promise that Session relies on, for every kind of chroot:
\* directories and mounts are made and removed only under a session file, and the
\* file goes only when none is left.
THEOREM ScriptsImplement == Spec => ScriptsImplementLifecycle
<1> DEFINE Res == IF Nothing THEN "none" ELSE IF mounts = 0 THEN "partial" ELSE "up"
           Meta == IF file THEN "full" ELSE "absent"
<1>1. Init => Lifecycle!Init
  BY DEF Init, Lifecycle!Init, Nothing
<1>2. ScriptsInv /\ ScriptsInv' /\ [Next]_vars => [Lifecycle!Next]_(Lifecycle!world)
  <2> SUFFICES ASSUME ScriptsInv, ScriptsInv', [Next]_vars
               PROVE  Lifecycle!Next \/ UNCHANGED Lifecycle!world
    OBVIOUS
  <2>0. file \in BOOLEAN /\ file' \in BOOLEAN /\ (~file => Nothing) /\ (~file' => Nothing')
    BY DEF ScriptsInv, TypeOK, Standing
  <2>1. CASE file /\ file'
    <3>1. Lifecycle!Work("session")
      BY <2>1 DEF Lifecycle!Work
    <3> QED  BY <3>1 DEF Lifecycle!Next
  <2>2. CASE ~file /\ ~file'
    BY <2>0, <2>2 DEF Lifecycle!world
  <2>3. CASE file' # file
    <3>1. UNCHANGED <<dirs, tree, mnts>>
      BY <2>3, FileSteps DEF vars, place
    <3>2. Nothing' = Nothing /\ mounts' = mounts
      BY <3>1 DEF Nothing, dirs, mnts
    <3>3. CASE file'
      <4>1. Lifecycle!Create("session")
        BY <2>0, <2>3, <3>2, <3>3 DEF Lifecycle!Create
      <4> QED  BY <4>1 DEF Lifecycle!Next
    <3>4. CASE ~file'
      <4>1. Lifecycle!Remove("session")
        BY <2>0, <2>3, <3>2, <3>4 DEF Lifecycle!Remove
      <4> QED  BY <4>1 DEF Lifecycle!Next
    <3> QED  BY <3>3, <3>4
  <2> QED  BY <2>0, <2>1, <2>2, <2>3
<1> QED  BY <1>1, <1>2, ScriptsInvariant, PTL DEF Spec, ScriptsImplementLifecycle, Lifecycle!Spec
=============================================================================
