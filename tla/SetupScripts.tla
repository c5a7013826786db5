---------------------------- MODULE SetupScripts ----------------------------
(***************************************************************************)
(* The setup scripts of etc/setup.d as run-parts runs them for one session *)
(* name: by name at setup-start and setup-recover, backwards at setup-stop, *)
(* stopping at the first that fails.  A script is the commands of it that  *)
(* change something outside the script, under `set -e`; between any two of *)
(* them the process or the machine may die, and any of them may fail.      *)
(*                                                                         *)
(* Session takes the scripts to lead from nothing to all and back; here is *)
(* what they do to directories, snapshots, mounts and the chroot's archive.*)
(***************************************************************************)
EXTENDS Naturals, Sequences

CONSTANTS
    Configs,     \* the chroot definitions to consider
    MaxMounts    \* bound: how often recovery may stack one mount on another

Types == {"directory", "file", "block-device", "lvm-snapshot", "btrfs-snapshot",
          "zfs-snapshot"}

\* union: a filesystem union is configured; repack: a source session of a
\* file chroot; location: how many directories below the mount location the
\* root of the chroot is.
Config == [type: Types, union: BOOLEAN, repack: BOOLEAN, location: 0..2]

Possible(c) ==
    /\ c.union => c.type \in {"directory", "block-device"}
    /\ c.repack => c.type = "file"
    /\ c.location > 0 => c.type \notin {"directory", "btrfs-snapshot"}

ASSUME ScriptsAssumption ==
    /\ Configs \subseteq {c \in Config : Possible(c)}
    /\ MaxMounts \in Nat \ {0}

VARIABLES
    cfg,
    file,         \* the session file exists
    mode,         \* the operation at work: AUTOMATIC, BEGIN, RECOVER or END
    stage,        \* STAGE; "none" while no script runs, "run" in AUTOMATIC's command
    status,       \* STATUS, the chroot status the scripts are given
    todo,         \* the commands still to run
    ok,           \* no script of this stage has failed
    fault,        \* history: something outside the scripts failed in this stage
    snapshot,     \* the LVM, btrfs or zfs snapshot exists
    clone,        \* the zfs clone exists
    tree,         \* the unpacked archive
    overlay, underlay, mountdir,   \* directories that exist
    mounts,       \* mounts stacked on the mount location
    lower,        \* mounts stacked on the underlay directory
    stray,        \* processes run inside the chroot
    archive       \* what the chroot's archive file holds

place == <<cfg, file, mode, stage, status>>
run   == <<todo, ok, fault>>
dirs  == <<overlay, underlay, mountdir>>
snaps == <<snapshot, clone>>
mnts  == <<mounts, lower, stray>>
vars  == <<place, run, dirs, snaps, tree, mnts, archive>>

Stages == {"none", "run", "setup-start", "setup-recover", "setup-stop"}

\* The commands of the scripts, "configure" for all that 20copyfiles to 70services
\* write into the chroot.
CommandNames ==
    {"snapshot", "clone", "mkdir-tree", "unpack", "mkdir-overlay", "mkdir-underlay",
     "check-union", "mkdir-mountdir", "mount-lower", "mount", "binfmt", "configure",
     "realpath", "kill", "umount", "umount-lower", "rmdir-mountdir", "destroy-clone",
     "destroy-snapshot", "rm-overlay", "rmdir-underlay", "delete", "repack", "rm-tree"}

TypeOK ==
    /\ cfg \in Configs /\ file \in BOOLEAN
    /\ mode \in {"AUTOMATIC", "BEGIN", "RECOVER", "END"}
    /\ stage \in Stages /\ status \in {"ok", "fail"}
    /\ todo \in Seq(CommandNames) /\ ok \in BOOLEAN /\ fault \in BOOLEAN
    /\ snapshot \in BOOLEAN /\ clone \in BOOLEAN
    /\ tree \in {"none", "partial", "full"}
    /\ overlay \in BOOLEAN /\ underlay \in BOOLEAN /\ mountdir \in BOOLEAN
    /\ mounts \in 0..MaxMounts /\ lower \in 0..MaxMounts
    /\ stray \in BOOLEAN /\ archive \in {"complete", "partial"}

(***************************************************************************)
(* The commands of each script that concern the configured chroot.         *)
(***************************************************************************)
Snapshot(types, commands) == IF cfg.type \in types THEN commands ELSE <<>>
Union(commands) == IF cfg.union THEN commands ELSE <<>>

\* 05btrfs, 05file, 05lvm, 05union, 05zfs, 10mount, 15binfmt, 20copyfiles to
\* 70services
SetupStart ==
    Snapshot({"btrfs-snapshot"}, <<"snapshot">>)
    \o Snapshot({"file"}, <<"mkdir-tree", "unpack">>)
    \o Snapshot({"lvm-snapshot"}, <<"snapshot">>)
    \o Union(<<"mkdir-overlay", "mkdir-underlay">>)
    \o Snapshot({"zfs-snapshot"}, <<"snapshot", "clone">>)
    \o <<"mkdir-mountdir">>
    \o Union(<<"mount-lower">>) \o <<"mount", "binfmt", "configure">>

\* 05union, 10mount, 15binfmt, 15killprocs, 20copyfiles to 70services
SetupRecover ==
    Union(<<"check-union">>)
    \o <<"mkdir-mountdir">>
    \o Union(<<"umount-lower">>) \o <<"umount">>
    \o Union(<<"mount-lower">>) \o <<"mount", "binfmt", "realpath", "kill", "configure">>

\* Mutant of SetupStop: the scripts run by name instead of backwards.
SetupStopForward ==
    (IF cfg.repack /\ status' = "ok" THEN <<"repack">> ELSE <<>>)
    \o Snapshot({"file"}, <<"rm-tree">>)
    \o Union(<<"rm-overlay", "rmdir-underlay">>)
    \o <<"umount">> \o Union(<<"umount-lower">>) \o <<"rmdir-mountdir", "realpath", "kill">>

\* 15killprocs, 15binfmt, 10mount, 05zfs, 05union, 05lvm, 05file, 05btrfs
SetupStop ==
    <<"realpath", "kill", "binfmt", "umount">>
    \o Union(<<"umount-lower">>) \o <<"rmdir-mountdir">>
    \o Snapshot({"zfs-snapshot"}, <<"destroy-clone">>)
    \o Union(<<"rm-overlay", "rmdir-underlay">>)
    \o Snapshot({"lvm-snapshot"}, <<"delete">>)
    \o (IF cfg.repack /\ status' = "ok" THEN <<"repack">> ELSE <<>>)
    \o Snapshot({"file"}, <<"rm-tree">>)
    \o Snapshot({"btrfs-snapshot"}, <<"delete">>)

Commands(s) ==
    CASE s = "setup-start"   -> SetupStart
      [] s = "setup-recover" -> SetupRecover
      [] s = "setup-stop"    -> SetupStop

(***************************************************************************)
(* The processes that run the stages, as Session has them one by one.      *)
(***************************************************************************)
RunParts(s, stat) ==
    /\ stage' = s /\ status' = stat
    /\ todo' = Commands(s) /\ ok' = TRUE /\ fault' = FALSE
    /\ UNCHANGED <<cfg, dirs, snaps, tree, mnts, archive>>

Idle ==
    /\ stage' = "none" /\ ok' = TRUE /\ fault' = FALSE
    /\ UNCHANGED <<cfg, mode, status, todo, dirs, snaps, tree, archive>>

Create(m) ==
    /\ stage = "none" /\ ~file
    /\ mode' = m /\ file' = TRUE
    /\ RunParts("setup-start", "ok")

Recover ==
    /\ stage = "none" /\ file /\ mounts < MaxMounts /\ lower < MaxMounts
    /\ mode' = "RECOVER" /\ UNCHANGED file
    /\ RunParts("setup-recover", "ok")

End ==
    /\ stage = "none" /\ file
    /\ mode' = "END" /\ UNCHANGED file
    /\ RunParts("setup-stop", "ok")

\* AUTOMATIC runs its command and then setup-stop, whatever setup-start said;
\* the status it passes on is ok also when a signal killed the scripts.
Started ==
    /\ stage = "setup-start" /\ todo = <<>>
    /\ \/ mode = "BEGIN" /\ Idle /\ UNCHANGED <<file, mnts>>
       \/ /\ mode = "AUTOMATIC" /\ ok
          /\ stage' = "run" /\ stray' \in BOOLEAN
          /\ UNCHANGED <<cfg, file, mode, status, run, dirs, snaps, tree, mounts, lower, archive>>
       \/ /\ mode = "AUTOMATIC" /\ ~ok
          /\ UNCHANGED <<file, mode>>
          /\ \E stat \in {"ok", "fail"} : RunParts("setup-stop", stat)

CommandDone ==
    /\ stage = "run"
    /\ UNCHANGED <<file, mode>>
    /\ RunParts("setup-stop", "ok")

Recovered ==
    /\ stage = "setup-recover" /\ todo = <<>>
    /\ Idle /\ UNCHANGED <<file, mnts>>

\* The session file goes only when every script succeeded, and unlinking it
\* may fail.
Stopped ==
    /\ stage = "setup-stop" /\ todo = <<>>
    /\ Idle /\ UNCHANGED mnts
    /\ \/ ok /\ file' = FALSE
       \/ UNCHANGED file

\* --run-session enters a session that is set up; its command may leave
\* processes behind.
Enter ==
    /\ stage = "none" /\ file /\ mounts > 0
    /\ stray' \in BOOLEAN
    /\ UNCHANGED <<place, run, dirs, snaps, tree, mounts, lower, archive>>

\* The process and its scripts die; with the machine, all mounts go too.
Crash ==
    /\ stage # "none"
    /\ stage' = "none" /\ ok' = TRUE /\ fault' = FALSE /\ todo' = <<>>
    /\ UNCHANGED <<cfg, file, mode, status, dirs, snaps, tree, mnts, archive>>

Reboot ==
    /\ stage' = "none" /\ ok' = TRUE /\ fault' = FALSE /\ todo' = <<>>
    /\ mounts' = 0 /\ lower' = 0 /\ stray' = FALSE
    /\ UNCHANGED <<cfg, file, mode, status, dirs, snaps, tree, archive>>

(***************************************************************************)
(* The commands.                                                           *)
(***************************************************************************)
At(command) == todo # <<>> /\ Head(todo) = command

Go ==
    /\ todo' = Tail(todo)
    /\ UNCHANGED <<place, ok, fault>>

\* A command that cannot succeed in this state ends the script and run-parts.
Abort(outside) ==
    /\ todo' = <<>> /\ ok' = FALSE /\ fault' = (fault \/ outside)
    /\ UNCHANGED place

\* A command fails for a reason outside the scripts.
Fail == Abort(TRUE)

MakeSnapshot ==
    /\ At("snapshot")
    /\ \/ ~snapshot /\ snapshot' = TRUE /\ Go
       \/ UNCHANGED snapshot /\ Abort(~snapshot)
    /\ UNCHANGED <<clone, dirs, tree, mnts, archive>>

MakeClone ==
    /\ At("clone")
    /\ \/ clone' = TRUE /\ Go
       \/ UNCHANGED clone /\ Fail
    /\ UNCHANGED <<snapshot, dirs, tree, mnts, archive>>

Unpack ==
    /\ \/ At("mkdir-tree") /\ tree' = (IF tree = "none" THEN "partial" ELSE tree) /\ Go
       \/ At("mkdir-tree") /\ UNCHANGED tree /\ Fail
       \/ At("unpack") /\ tree' = "full" /\ Go
       \/ At("unpack") /\ UNCHANGED tree /\ Fail
    /\ UNCHANGED <<dirs, snaps, mnts, archive>>

\* mkdir, not mkdir -p: an existing overlay is an error.
MakeUnion ==
    /\ \/ At("mkdir-overlay") /\ ~overlay /\ overlay' = TRUE /\ Go /\ UNCHANGED underlay
       \/ At("mkdir-underlay") /\ ~underlay /\ underlay' = TRUE /\ Go /\ UNCHANGED overlay
       \/ At("mkdir-overlay") /\ Abort(~overlay) /\ UNCHANGED <<overlay, underlay>>
       \/ At("mkdir-underlay") /\ Abort(~underlay) /\ UNCHANGED <<overlay, underlay>>
    /\ UNCHANGED <<mountdir, snaps, tree, mnts, archive>>

CheckUnion ==
    /\ At("check-union")
    /\ IF overlay /\ underlay THEN Go ELSE Abort(FALSE)
    /\ UNCHANGED <<dirs, snaps, tree, mnts, archive>>

MakeMountdir ==
    /\ At("mkdir-mountdir")
    /\ \/ mountdir' = TRUE /\ Go
       \/ UNCHANGED mountdir /\ Fail
    /\ UNCHANGED <<overlay, underlay, snaps, tree, mnts, archive>>

\* do_mount and do_mount_fs_union.  A mount needs its source to exist; what
\* follows it in the script (making it private, the fstab) may fail as well.
Mountable ==
    CASE cfg.type = "file"           -> tree # "none"
      [] cfg.type \in {"lvm-snapshot", "btrfs-snapshot"} -> snapshot
      [] cfg.type = "zfs-snapshot"   -> clone
      [] OTHER                       -> TRUE

MountLower ==
    /\ At("mount-lower")
    /\ \/ lower' = lower + 1 /\ Go
       \/ lower' \in {lower, lower + 1} /\ Fail
    /\ UNCHANGED <<dirs, snaps, tree, mounts, stray, archive>>

Mount ==
    /\ At("mount")
    /\ \/ Mountable /\ mounts' = mounts + 1 /\ Go
       \/ Mountable /\ mounts' \in {mounts, mounts + 1} /\ Fail
       \/ ~Mountable /\ UNCHANGED mounts /\ Abort(FALSE)
    /\ UNCHANGED <<dirs, snaps, tree, lower, stray, archive>>

\* do_umount_all: what is busy stays, and the loop that notes a failure runs
\* in a subshell, so that the command succeeds all the same.  Without the
\* directory there is nothing to do; with it, the directory of the lock may not
\* be as it has to, or flock or schroot-listmounts fails before any unmount.
Umount ==
    /\ At("umount")
    /\ \/ Go /\ mounts' = 0 /\ (~stray \/ mounts = 0)
       \/ Go /\ mounts' \in 1..mounts /\ stray
       \/ /\ mounts' \in 1..mounts /\ ~stray
          /\ todo' = Tail(todo) /\ fault' = TRUE /\ UNCHANGED <<place, ok>>
       \/ mountdir /\ UNCHANGED mounts /\ Fail
    /\ UNCHANGED <<dirs, snaps, tree, lower, stray, archive>>

\* The union mounted above may keep the underlay busy, depending on its type.
UmountLower ==
    /\ At("umount-lower")
    /\ \/ Go /\ lower' = 0
       \/ Go /\ lower' \in 0..lower /\ mounts > 0
       \/ /\ lower' \in 1..lower /\ mounts = 0
          /\ todo' = Tail(todo) /\ fault' = TRUE /\ UNCHANGED <<place, ok>>
       \/ underlay /\ UNCHANGED lower /\ Fail
    /\ UNCHANGED <<dirs, snaps, tree, mounts, stray, archive>>

\* Mounts an emulator inside the chroot, below the mounts counted here.
Binfmt ==
    /\ At("binfmt")
    /\ Go \/ Fail
    /\ UNCHANGED <<dirs, snaps, tree, mnts, archive>>

\* 20copyfiles, 20nssdatabases, 50chrootname; 70services may start daemons.
Configure ==
    /\ At("configure")
    /\ \/ stray' \in {stray, TRUE} /\ Go
       \/ stray' \in {stray, TRUE} /\ Fail
    /\ UNCHANGED <<dirs, snaps, tree, mounts, lower, archive>>

\* realpath(1) accepts a missing last component and no other.
Missing == IF mounts > 0 THEN 0 ELSE cfg.location + (IF mountdir THEN 0 ELSE 1)

Realpath ==
    /\ At("realpath")
    /\ IF Missing > 1 THEN Abort(FALSE) ELSE Go
    /\ UNCHANGED <<dirs, snaps, tree, mnts, archive>>

\* SIGTERM, and SIGKILL five seconds later; failures to kill are ignored.
Kill ==
    /\ At("kill")
    /\ \/ stray' = FALSE /\ Go
       \/ /\ stray /\ UNCHANGED stray
          /\ todo' = Tail(todo) /\ fault' = TRUE /\ UNCHANGED <<place, ok>>
    /\ UNCHANGED <<dirs, snaps, tree, mounts, lower, archive>>

\* Mutants of RmdirMountdir: a failed rmdir is ignored; the directory is not
\* looked for first.
RmdirMountdirOrTrue ==
    /\ At("rmdir-mountdir")
    /\ mountdir' = (mountdir /\ mounts > 0) /\ Go
    /\ UNCHANGED <<overlay, underlay, snaps, tree, mnts, archive>>

RmdirMountdirUntested ==
    /\ At("rmdir-mountdir")
    /\ \/ mountdir /\ mounts = 0 /\ mountdir' = FALSE /\ Go
       \/ (mountdir => mounts > 0) /\ Abort(FALSE) /\ UNCHANGED mountdir
    /\ UNCHANGED <<overlay, underlay, snaps, tree, mnts, archive>>

\* rmdir refuses a directory something is mounted on.
RmdirMountdir ==
    /\ At("rmdir-mountdir")
    /\ \/ ~mountdir /\ Go /\ UNCHANGED mountdir
       \/ mountdir /\ mounts = 0 /\ mountdir' = FALSE /\ Go
       \/ mountdir /\ Abort(mounts = 0) /\ UNCHANGED mountdir
    /\ UNCHANGED <<overlay, underlay, snaps, tree, mnts, archive>>

\* 05zfs: the snapshot is destroyed only together with the clone.
Destroy ==
    /\ \/ At("destroy-clone") /\ ~clone /\ Go /\ UNCHANGED snaps
       \/ /\ At("destroy-clone") /\ clone /\ clone' = FALSE /\ UNCHANGED snapshot
          /\ todo' = <<"destroy-snapshot">> \o Tail(todo) /\ UNCHANGED <<place, ok, fault>>
       \/ At("destroy-clone") /\ clone /\ Fail /\ UNCHANGED snaps
       \/ At("destroy-snapshot") /\ snapshot' = FALSE /\ Go /\ UNCHANGED clone
       \/ At("destroy-snapshot") /\ Fail /\ UNCHANGED snaps
    /\ UNCHANGED <<dirs, tree, mnts, archive>>

\* 05lvm, 05btrfs: "|| true".
Delete ==
    /\ At("delete")
    /\ \/ snapshot' = FALSE /\ Go
       \/ /\ snapshot /\ UNCHANGED snapshot
          /\ todo' = Tail(todo) /\ fault' = TRUE /\ UNCHANGED <<place, ok>>
    /\ UNCHANGED <<clone, dirs, tree, mnts, archive>>

\* 05union: rm -rf of the overlay, rmdir of the underlay.
RemoveUnion ==
    /\ \/ At("rm-overlay") /\ overlay' = FALSE /\ Go /\ UNCHANGED underlay
       \/ At("rm-overlay") /\ Fail /\ UNCHANGED <<overlay, underlay>>
       \/ At("rmdir-underlay") /\ (underlay => lower = 0) /\ underlay' = FALSE /\ Go
          /\ UNCHANGED overlay
       \/ At("rmdir-underlay") /\ underlay /\ Abort(lower = 0)
          /\ UNCHANGED <<overlay, underlay>>
    /\ UNCHANGED <<mountdir, snaps, tree, mnts, archive>>

\* 05file: repack_file writes a new archive and renames it over the old one.
Repack ==
    /\ At("repack")
    /\ \/ tree = "none" /\ Go /\ UNCHANGED archive
       \/ tree # "none" /\ archive' = (IF tree = "full" THEN archive ELSE "partial") /\ Go
       \/ tree # "none" /\ Fail /\ UNCHANGED archive
    /\ UNCHANGED <<dirs, snaps, tree, mnts>>

RemoveTree ==
    /\ At("rm-tree")
    /\ \/ tree' = "none" /\ Go
       \/ tree # "none" /\ tree' \in {tree, "partial"} /\ Fail
    /\ UNCHANGED <<dirs, snaps, mnts, archive>>

Init ==
    /\ cfg \in Configs /\ file = FALSE /\ mode = "END" /\ stage = "none" /\ status = "ok"
    /\ todo = <<>> /\ ok = TRUE /\ fault = FALSE
    /\ snapshot = FALSE /\ clone = FALSE /\ tree = "none"
    /\ overlay = FALSE /\ underlay = FALSE /\ mountdir = FALSE
    /\ mounts = 0 /\ lower = 0 /\ stray = FALSE /\ archive = "complete"

Operation ==
    \/ Create("AUTOMATIC") \/ Create("BEGIN") \/ Recover \/ End
    \/ Started \/ CommandDone \/ Recovered \/ Stopped \/ Enter

Script ==
    \/ MakeSnapshot \/ MakeClone \/ Unpack \/ MakeUnion \/ CheckUnion \/ MakeMountdir
    \/ MountLower \/ Mount \/ Umount \/ UmountLower \/ Binfmt \/ Configure \/ Realpath \/ Kill
    \/ RmdirMountdir \/ Destroy \/ Delete \/ RemoveUnion \/ Repack \/ RemoveTree

Next == Operation \/ Script \/ Crash \/ Reboot

Spec == Init /\ [][Next]_vars

(***************************************************************************)
(* Properties.                                                             *)
(***************************************************************************)
\* "They must be idempotent during the setup-stop phase, because they may be
\* run more than once": setup-stop fails only if something outside the scripts
\* failed meanwhile, however far setup-start and earlier setup-stops got.  Only
\* where the root lies below the mount location does realpath in 15killprocs
\* fail once the chroot is unmounted.
StopRetryable == stage = "setup-stop" /\ ~ok => fault \/ cfg.location > 0

\* The archive is repacked, the unpacked tree and the overlay are deleted with
\* rm -rf and a snapshot is removed only when nothing is mounted any more at the
\* mount location or below, although failed unmounts go unnoticed.  (The mount
\* under a union, on the underlay, is not asked for: it is no part of what is
\* deleted, and rmdir refuses a directory it is on.)
DestroyOnlyUnmounted ==
    [][ \/ archive' # archive
        \/ At("repack") /\ tree = "full"
        \/ At("rm-tree")
        \/ overlay /\ ~overlay'
        \/ snapshot /\ ~snapshot'
        => mounts = 0 /\ ~stray ]_vars

\* The life of the session as SessionLifecycle has it, where `res` is what the
\* scripts have made of directories and mounts.
Nothing ==
    tree = "none" /\ ~overlay /\ ~underlay /\ ~mountdir /\ mounts = 0 /\ lower = 0

Lifecycle == INSTANCE SessionLifecycle WITH
    Slots <- {"session"},
    meta <- [s \in {"session"} |-> IF file THEN "full" ELSE "absent"],
    res <- [s \in {"session"} |-> IF Nothing THEN "none" ELSE IF mounts = 0 THEN "partial" ELSE "up"]

\* The scripts keep the promise Session relies on: directories and mounts exist
\* only under a session file and none is left when it goes, although
\* do_umount_all hides failed unmounts and each script removes only its own
\* things.  (A snapshot whose deletion failed is left: "|| true".)
ScriptsImplementLifecycle == Lifecycle!Spec
=============================================================================
