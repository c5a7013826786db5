------------------------------- MODULE Mount -------------------------------
(***************************************************************************)
(* schroot-mount and schroot-listmounts, as 10mount uses them: the file    *)
(* systems of the chroot's fstab are mounted one by one at the place where *)
(* the name leads from inside the chroot, and at the end everything        *)
(* mounted at or below the mount location is unmounted, in the reverse     *)
(* order of /proc/mounts.  Other sessions mount and unmount meanwhile.     *)
(*                                                                         *)
(* A path is the sequence of its names.  What a mounted file system hides  *)
(* or shows is left out: directories are there or are not.                 *)
(***************************************************************************)
EXTENDS Naturals, Sequences, SequencesExt, FiniteSetsExt

CONSTANTS
    Base,        \* CHROOT_PATH and CHROOT_MOUNT_LOCATION of the session, which are
                 \* the same unless the chroot has a location below the mount
    Others,      \* directories at which other sessions mount
    Dirs,        \* the directories of the host at the start
    Links,       \* [path of a symbolic link -> the absolute path it names]
    NamePrefix,  \* {<<m, n>>}: name m is a proper prefix of name n
    Fstabs,      \* fstab files: sequences of [dir, bind, propagation]
    MaxFaults,   \* bound: commands that fail
    MaxOther     \* bound: mounts and unmounts of other sessions

ASSUME MountAssumption ==
    /\ Base \in Dirs /\ Others \subseteq Dirs
    /\ DOMAIN Links \cap Dirs = {}
    /\ \A f \in Fstabs : \A i \in DOMAIN f : f[i].dir # <<>>
    /\ MaxFaults \in Nat /\ MaxOther \in Nat

VARIABLES
    fstab, dry_run,
    pc,        \* "open", "entry", "resolve", "create", "mount", "private", then
               \* "exited", and in 10mount "umount", "stopped"
    status,    \* the exit status, or "thrown"
    unread,    \* entries of the file that mntstream has not read
    data,      \* mntstream's queue
    entry,     \* the entry at work
    directory, \* where it is to be mounted
    dirs,      \* directories that exist
    mounts,    \* /proc/mounts: sequence of [dir, private, name], name the fstab's
    list,      \* what schroot-listmounts printed and is still to be unmounted
    busy,      \* a mount that could not be unmounted, or none could be looked for
    faults, other

proc == <<unread, data, entry, directory>>
vars == <<fstab, dry_run, pc, status, proc, dirs, mounts, list, busy, faults, other>>

NoEntry == [dir |-> <<>>, bind |-> FALSE, propagation |-> FALSE]

(***************************************************************************)
(* realpath below a root: the canonical path, or <<"?">> if a part of the  *)
(* name is missing.  A link is followed from the root again.               *)
(***************************************************************************)
Missing == <<"?">>
MaxLinks == 4

RECURSIVE Realpath(_, _, _, _, _)
Realpath(root, done, rest, there, n) ==
    IF rest = <<>> THEN done
    ELSE LET here == Append(done, Head(rest))
         IN  IF root \o here \in DOMAIN Links
             THEN IF n = 0 THEN Missing
                  ELSE Realpath(root, <<>>, Links[root \o here] \o Tail(rest), there, n - 1)
             ELSE IF root \o here \in there
             THEN Realpath(root, here, Tail(rest), there, n)
             ELSE Missing

realpath(root, path) == Realpath(root, <<>>, path, dirs, MaxLinks)

\* resolve_path_chrooted, run in a child whose root is Base.  A name that is
\* missing is taken as it is below what its parent resolves to; a link to
\* nowhere is an error.
IsLink(path) ==
    LET parent == realpath(Base, Front(path))
    IN  parent # Missing /\ Base \o Append(parent, Last(path)) \in DOMAIN Links

RECURSIVE resolve_path_chrooted(_)
resolve_path_chrooted(path) ==
    IF realpath(Base, path) # Missing THEN realpath(Base, path)
    ELSE IF IsLink(path) THEN Missing
    ELSE IF Len(path) > 1
    THEN LET parent == resolve_path_chrooted(Front(path))
         IN  IF parent = Missing THEN Missing ELSE Append(parent, Last(path))
    ELSE path

\* Mutant of resolve_path: the name is resolved without changing the root.
resolve_path_host(path) ==
    LET r == realpath(<<>>, Base \o path) IN IF r = Missing THEN Base \o path ELSE r

\* resolve_path: where the file system is to be mounted, seen from the host.
resolve_path(path) ==
    LET r == resolve_path_chrooted(path) IN IF r = Missing THEN Missing ELSE Base \o r

Init ==
    /\ fstab \in Fstabs /\ dry_run \in BOOLEAN
    /\ pc = "open" /\ status = "running"
    /\ unread = fstab /\ data = <<>> /\ entry = NoEntry /\ directory = <<>>
    /\ dirs = Dirs
    /\ mounts = <<[dir |-> Base, private |-> TRUE, name |-> <<>>]>>
    /\ list = <<>> /\ busy = FALSE /\ faults = 0 /\ other = 0

Fault == faults < MaxFaults /\ faults' = faults + 1
Leave(s) == pc' = "exited" /\ status' = s

(***************************************************************************)
(* mntstream: an entry is read ahead when the file is opened, and another  *)
(* one before each that is handed out.                                     *)
(***************************************************************************)
Read(d) ==
    /\ data' = IF unread = <<>> THEN d ELSE Append(d, Head(unread))
    /\ unread' = IF unread = <<>> THEN <<>> ELSE Tail(unread)

open ==
    /\ pc = "open"
    /\ Read(<<>>)
    /\ pc' = "entry"
    /\ UNCHANGED <<fstab, dry_run, status, entry, directory, dirs, mounts, list, busy, faults, other>>

ReadFails ==
    /\ pc \in {"open", "entry"} /\ Fault
    /\ Leave("thrown")
    /\ UNCHANGED <<fstab, dry_run, proc, dirs, mounts, list, busy, other>>

\* operator>> and the loop condition of action_mount.
extract ==
    /\ pc = "entry"
    /\ LET d == IF unread = <<>> THEN data ELSE Append(data, Head(unread))
       IN  /\ unread' = IF unread = <<>> THEN <<>> ELSE Tail(unread)
           /\ IF d # <<>>
              THEN entry' = Head(d) /\ data' = Tail(d) /\ pc' = "resolve" /\ status' = status
              ELSE entry' = NoEntry /\ data' = d /\ Leave("0")
    /\ UNCHANGED <<fstab, dry_run, directory, dirs, mounts, list, busy, faults, other>>

(***************************************************************************)
(* action_mount, for one entry.                                            *)
(***************************************************************************)
\* The child found the place, or it failed and schroot-mount exits with its
\* status.
ResolvePath ==
    /\ pc = "resolve"
    /\ IF resolve_path(entry.dir) # Missing
       THEN /\ directory' = resolve_path(entry.dir)
            /\ pc' = IF directory' \in dirs \/ dry_run THEN "mount" ELSE "create"
            /\ UNCHANGED status
       ELSE Leave("1") /\ UNCHANGED directory
    /\ UNCHANGED <<fstab, dry_run, unread, data, entry, dirs, mounts, list, busy, faults, other>>

\* pipe, fork, poll or waitpid fail: thrown.
ResolveFails ==
    /\ pc = "resolve" /\ Fault
    /\ Leave("thrown")
    /\ UNCHANGED <<fstab, dry_run, proc, dirs, mounts, list, busy, other>>

CreateDirectories ==
    /\ pc = "create"
    /\ dirs' = dirs \cup {SubSeq(directory, 1, n) : n \in 1..Len(directory)}
    /\ pc' = "mount"
    /\ UNCHANGED <<fstab, dry_run, status, proc, mounts, list, busy, faults, other>>

CreateFails ==
    /\ pc = "create" /\ Fault
    /\ Leave("1")
    /\ UNCHANGED <<fstab, dry_run, proc, dirs, mounts, list, busy, other>>

Private == entry.bind /\ ~entry.propagation

\* The mount command.  A bind mount (bind or rbind) is then made private,
\* recursively for rbind, unless its propagation is given.
DoMount ==
    /\ pc = "mount"
    /\ mounts' = IF dry_run THEN mounts
                 ELSE Append(mounts, [dir |-> directory, private |-> FALSE, name |-> entry.dir])
    /\ pc' = IF Private /\ ~dry_run THEN "private" ELSE "entry"
    /\ UNCHANGED <<fstab, dry_run, status, proc, dirs, list, busy, faults, other>>

make_mount_private ==
    /\ pc = "private"
    /\ LET i == Max({k \in DOMAIN mounts : mounts[k].dir = directory})
       IN  mounts' = [mounts EXCEPT ![i].private = TRUE]
    /\ pc' = "entry"
    /\ UNCHANGED <<fstab, dry_run, status, proc, dirs, list, busy, faults, other>>

\* run_child: the command fails, or cannot be started.
CommandFails ==
    /\ pc \in {"mount", "private"} /\ ~dry_run /\ Fault
    /\ Leave("1")
    /\ UNCHANGED <<fstab, dry_run, proc, dirs, mounts, list, busy, other>>

(***************************************************************************)
(* do_umount_all: schroot-listmounts and the loop over its output.         *)
(***************************************************************************)
\* p begins q, as strings.
StringPrefix(p, q) ==
    \/ p = <<>>
    \/ /\ Len(p) <= Len(q) /\ Front(p) = SubSeq(q, 1, Len(p) - 1)
       /\ Last(p) = q[Len(p)] \/ <<Last(p), q[Len(p)]>> \in NamePrefix

\* Mutant of Listed: only the beginning of the name is compared.
ListedPrefix(to_find, dir) == StringPrefix(to_find, dir)

\* The names are the same, or a "/" follows.
Listed(to_find, dir) ==
    \/ to_find = <<>>
    \/ StringPrefix(to_find, dir) /\ (dir = to_find \/ Last(to_find) = dir[Len(to_find)])

action_listmounts(to_find) ==
    Reverse(SelectSeq([i \in DOMAIN mounts |-> mounts[i].dir], LAMBDA d : Listed(to_find, d)))

\* 10mount at setup-stop, whatever came before.
ListMounts ==
    /\ pc = "exited"
    /\ list' = action_listmounts(Base)
    /\ pc' = "umount"
    /\ UNCHANGED <<fstab, dry_run, status, proc, dirs, mounts, busy, faults, other>>

\* schroot-listmounts cannot resolve the mount location or read the mounts, or
\* the lock around it fails.
ListFails ==
    /\ pc = "exited" /\ Fault
    /\ pc' = "stopped" /\ busy' = TRUE
    /\ UNCHANGED <<fstab, dry_run, status, proc, dirs, mounts, list, other>>

\* The mounts that hold mount i: on a directory of its file system.
Below(i) == {k \in (i + 1)..Len(mounts) :
                IsPrefix(mounts[i].dir, mounts[k].dir) /\ mounts[k].dir # mounts[i].dir}

Topmost(d) == Max({k \in DOMAIN mounts : mounts[k].dir = d})

\* umount of the next one; it fails when something is mounted below it or a
\* process uses it, and the loop goes on.
Umount ==
    /\ pc = "umount" /\ list # <<>>
    /\ LET at == {k \in DOMAIN mounts : mounts[k].dir = Head(list)}
       IN  IF at = {} \/ Below(Topmost(Head(list))) # {}
           THEN busy' = TRUE /\ UNCHANGED mounts
           ELSE mounts' = RemoveAt(mounts, Topmost(Head(list))) /\ UNCHANGED busy
    /\ list' = Tail(list)
    /\ UNCHANGED <<fstab, dry_run, pc, status, proc, dirs, faults, other>>

UmountInUse ==
    /\ pc = "umount" /\ list # <<>> /\ Fault
    /\ busy' = TRUE /\ list' = Tail(list)
    /\ UNCHANGED <<fstab, dry_run, pc, status, proc, dirs, mounts, other>>

UmountDone ==
    /\ pc = "umount" /\ list = <<>>
    /\ pc' = "stopped"
    /\ UNCHANGED <<fstab, dry_run, status, proc, dirs, mounts, list, busy, faults, other>>

(***************************************************************************)
(* Other sessions.                                                         *)
(***************************************************************************)
OtherMounts(d) ==
    /\ other < MaxOther /\ other' = other + 1
    /\ mounts' = Append(mounts, [dir |-> d, private |-> TRUE, name |-> <<>>])
    /\ UNCHANGED <<fstab, dry_run, pc, status, proc, dirs, list, busy, faults>>

OtherUmounts(d) ==
    /\ other < MaxOther /\ other' = other + 1
    /\ \E k \in DOMAIN mounts : mounts[k].dir = d
    /\ mounts' = RemoveAt(mounts, Topmost(d))
    /\ UNCHANGED <<fstab, dry_run, pc, status, proc, dirs, list, busy, faults>>

Done == pc = "stopped" /\ UNCHANGED vars

Next ==
    \/ open \/ ReadFails \/ extract
    \/ ResolvePath \/ ResolveFails \/ CreateDirectories \/ CreateFails
    \/ DoMount \/ make_mount_private \/ CommandFails
    \/ ListMounts \/ ListFails \/ Umount \/ UmountInUse \/ UmountDone
    \/ \E d \in Others : OtherMounts(d) \/ OtherUmounts(d)
    \/ Done

Spec == Init /\ [][Next]_vars

----------------------------------------------------------------------------
Own == SelectSeq(mounts, LAMBDA m : m.name # <<>>)

\* A process of the chroot that follows the name an fstab entry gives gets to
\* the file system that was mounted for it; in particular it is below the
\* chroot's own directory and on no path that leads through a link of the
\* host (resolve_path).  When schroot-mount succeeds, every entry of the fstab
\* was mounted so, once and in order, and every bind mount is private unless
\* its propagation was given; with --dry-run nothing was.
MountedWhereNamed ==
    /\ \A i \in DOMAIN Own :
         /\ Own[i].dir = Base \o realpath(Base, Own[i].name)
         /\ realpath(<<>>, Own[i].dir) = Own[i].dir
    /\ (pc = "exited" /\ status = "0") =>
         IF dry_run THEN Own = <<>>
         ELSE /\ [i \in DOMAIN Own |-> Own[i].name] = [i \in DOMAIN fstab |-> fstab[i].dir]
              /\ \A i \in DOMAIN fstab :
                     Own[i].private = (fstab[i].bind /\ ~fstab[i].propagation)

\* However schroot-mount ended, unmounting removes everything at and below the
\* mount location unless a mount was in use or the mounts could not be listed,
\* and nothing of another session.
UnmountedExactly ==
    /\ (pc = "stopped" /\ faults = 0) => (~busy /\ Own = <<>>)
    /\ (pc = "stopped" /\ ~busy) => \A i \in DOMAIN mounts : ~IsPrefix(Base, mounts[i].dir)
    /\ \A i \in DOMAIN list : IsPrefix(Base, list[i])
=============================================================================
