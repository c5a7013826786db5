# schroot in TLA+

A verification project for schroot: TLA+ modules translated from the C++ code and
the setup scripts, TLC configurations that check them on small instances, and
TLAPS proofs for every size of the instances. `PROJECT.json` lists, for every
definition, the source lines it models ("map"), for every checked property a
mutation of the code that breaks it ("mutants"), and what in this code is hard to
test with the properties that watch over it ("hazards").

To run it: `tlc -config <run>.cfg <module>` for the runs of `PROJECT.json`, and
`tlapm` on the eight modules whose names end in `Proofs` for the proofs.

## 1. The system

schroot is a setuid program that lets permitted users run a command in a chroot.
A chroot that needs preparing (unpacking, snapshotting, mounting) is used through a
*session*: a named instance with a session file in a directory shared by all
processes. A process begins, runs, recovers or ends sessions, or does all of that
for an automatic session; the preparing itself is done by the shell scripts in
`setup.d`, run by a forked `run_parts` with root's rights.

| Component | State | Operations | Interacts with | What makes it hard | What makes it correct |
|---|---|---|---|---|---|
| session (`sbuild-session.cc`) | `chroot_status`, `lock_status`, `child_status`, signal flags and handlers | `run`, `run_impl`, `setup_chroot`, `run_chroot`, `wait_for_child` | PAM, chroot locks, run-parts, the user's command | three nested `try` blocks that each catch one class of exception; signals between a test and a wait; members that survive from one chroot to the next; death at any point | nothing set up without a session file; what is reported is true; setup-stop when it is due and only then; it ends |
| authentication level (`get_auth_status`, `change_auth`) | status so far | one demand per chroot | PAM `authenticate` | several chroots with different lists on one command line | the strictest demand wins, in any order |
| PAM (`sbuild-auth-pam*.cc`, `sbuild-auth-null.cc`) | handle, credentials, session; terminal mode, alarm, blocked signals | `start` ... `stop`, the conversation | session, terminal | any call fails; an alarm against a read; a prompt that is repeated | everything opened is closed, no password is shown, the caller is decided about |
| session file (`sbuild-chroot.cc`, `setup_lock` of each type) | the file: absent, empty, in part, complete | create with `O_EXCL`, lock, write, unlink | session, configuration | buffered write after the unlock, failure after creation, status 0 that means "success" | only a session that is gone loses its file; readers see whole files |
| locks (`sbuild-lock.cc`) | file lock, timer, handler | `set_lock`, `unset_lock` | configuration, session file | SIGALRM against `fcntl` | a writer is alone, the handler is restored, nobody waits for ever |
| setup scripts (`etc/setup.d`) | directories, mounts, snapshots, unpacked tree, archive | the three stages | session through exit status and `STATUS` | `set -e`, subshells that lose variables, any command failing, reboot | setup-stop can be repeated, deletes nothing mounted, leaves nothing |
| schroot-mount, schroot-listmounts, mntstream | the fstab being read, the mounts | mount each entry, list the mounts below a place | `10mount` | links inside the chroot, missing directories, mounts of other sessions | mounts end up inside the chroot; exactly they are unmounted |
| run-parts (`sbuild-run-parts.cc`) | script list, child, two pipes and their buffers | run in order, relay output, wait | scripts | `poll` interrupted, streams closed early, lines in parts | abort at the first failure, true status, every line once |
| configuration (`sbuild-chroot-config.cc`) | chroots by namespace, aliases | `add`, `load_keyfile`, `find_alias`, `validate_chroots` | frontend, session files of other processes | any order of files, clashes between names, aliases and namespaces; files that vanish | a name selects the chroot it names |
| key file (`sbuild-basic-keyfile.*`) | groups and items with comments and line numbers | parse, print, exchange of values with an object | configuration, session file | state carried from line to line | what is read is what is there; what is printed is read back |
| chroot types, facets, cloning (`sbuild-chroot*.cc`, `sbuild-chroot-facet-*.cc`) | members and facets of a chroot | `clone_session`, `clone_source`, `get_keyfile`, `set_keyfile`, `setup_env` | configuration, session, session files | nine types times six facets; key tables kept by hand; sessions rebuilt from a dummy clone; facets that come back on reading | a session file makes the session it was written for; only a source chroot changes the original; clones are not cloned again |
| user data (`sbuild-chroot-facet-userdata.cc`) | keys and values, names of variables taken | `set_data`, `set_user_data`, profile, script-config | options, scripts' environment | two lists of permitted keys, several keys for one variable | nobody sets what he may not |
| frontends and options (`schroot`, `dchroot`, `dchroot-dsa`) | `options_base`, the names selected | parsing, loading, selection, eleven actions | all | options that combine, flags without initial value | an operation meets only chroots it fits; the exit status is true |
| environment, command, shell, personality (`run_child`) | environment, directory, IDs | filter, choice of command, exec | session, PAM | order of calls after fork, each of which may fail | the command runs inside, as the right user, with a clean environment |

## 2. Modules

| Module | Models | Composed with |
|---|---|---|
| `SessionLifecycle` | the abstract life of a session: claim the name, work under a complete file, give the name up when nothing is left | specification for the next two |
| `Session` | `session::run` and all it calls, PAM, the session file, signals, exceptions, exit status | implements `SessionLifecycle` |
| `SessionInv`, `SessionProofs` | inductive invariant of `Session`, refinement mapping, theorems | extend `Session` |
| `SetupScripts`, `SetupProofs` | the commands of `setup.d` and run-parts' order | implements `SessionLifecycle` |
| `FileLock` | `file_lock`: `fcntl`, timer, handler; proofs in `DirProofs` | its steps are part of those of `SessionDir` |
| `SessionDir`, `DirProofs` | several processes on the directory of session files | extends `FileLock` |
| `RunParts`, `RunPartsProofs` | `run_parts::run`, `run_child`, `wait_for_child`, a script as a process | |
| `AuthStatus` | `get_auth_status`, `change_auth`, `authenticate` | |
| `PamConv` | the conversation on the controlling terminal | |
| `Authentication`, `AuthProofs` | `auth_pam::authenticate` and `auth_null` | composes `AuthStatus` and `PamConv`, implements `AuthStatus` |
| `ChrootConfig`, `ConfigProofs` | `chroot_config`: loading, aliases, lookup | |
| `ChrootObject`, `ObjectProofs` | chroot types and facets: creation, cloning, session files, script variables | |
| `Keyfile` | ini files: parsing, printing, values of an object; proofs in `ConfigProofs` | |
| `Mount` | schroot-mount, schroot-listmounts, mntstream, unmounting in `10mount` | |
| `Options` | `check_options`, `check_actions` of the three programs (pure) | |
| `UserCommand` | environment, directory, shell, command, personality, user data (pure) | |
| `Frontend`, `FrontendProofs` | `main_base::run_impl`, the loop over chroots and `run_child` up to exec | composes `Options`, `UserCommand` and an instance of `ChrootConfig` |
| `MC...` | constants for TLC | extend the module named |

`Session` and `SetupScripts` meet in `SessionLifecycle`. `Session` takes the setup
scripts as an environment that moves `res` between "none", "partial" and "up" and
claims that a successful setup-stop leaves "none"; `SetupScripts` has the commands
and shows that they keep this claim (`ScriptsImplementLifecycle`), with `res` read
off directories and mounts.

### Session

`pc` names the call the process is about to make. `exc` is the class of the
exception in flight: "session" and "auth" for the two classes the code catches by
name, "uncaught" for what no clause of `run` catches (`stat::error`, the error of a
refused option, a `session::error` before `run_impl`), which leaves `run` altogether.
Each catch clause is an action (`ImplCatch`, `CatchRun`, `CatchCred`, `CatchAuth`)
enabled for its class only; that is the point of the module, because the class
decides which clean-up is skipped. `wait_for_child` is three steps ("check",
"prewait", "waitpid"), so that a signal can fall between the test of the flags and
the blocking call. `Crash` is the death of the process (SIGKILL, or a signal with no
handler): control state is lost, `meta` and `res` stay, and in the middle of writing
the session file an empty file stays.

Processes follow each other (`NewProcess`); a new one waits for run-parts left over
by a dead one. AUTOMATIC makes a fresh name (a UUID); BEGIN does not load existing
sessions (`options_base::check_actions`), so its name may be taken and only `O_EXCL`
notices; RUN, RECOVER and END find sessions with a complete file. `started` is a
history variable. `Faults` says which calls outside the program may fail.

### SetupScripts

One session name, one process at a time. A stage is the list `todo` of commands that
change something, in the order run-parts gives the scripts (backwards for
setup-stop); each command may fail and then ends its script and the stage, except
where the script says `|| true` or loses the status in a subshell (`do_umount_all`, which
fails only where it cannot list the mounts).
`Crash` drops `todo`; `Reboot` also drops mounts and processes. `fault` is a history
variable: something outside the scripts failed in this stage. External behaviour:
`umount` fails while a process is inside, `rmdir` fails on a mount point,
`realpath` fails when more than the last component is missing. A loopback chroot
behaves as a block device does; custom chroots are left out. What
`20copyfiles` to `70services` write into the chroot is one command ("configure").

### FileLock and SessionDir

`FileLock` has one action per system call of `file_lock::set_lock` that the timer or
another process can come between; the kernel's grant is `Grant`, and `Alarm` may be
delivered before `fcntl` blocks, when it is spent for nothing.

`SessionDir` runs processes that begin, end and list sessions of the same names.
A reader takes the entries of the directory one by one with `stat`, `open`, a shared
lock, parsing and unlocking; a creator opens with `O_EXCL`, locks, writes all but
the stream's last buffer, unlocks, and flushes the rest in the destructor of the
stream. Files are inodes: a name that is removed and created again is another file,
and a process may still hold the old one. Faults: a full disk at the flush, no
locks, signals, SIGKILL, failing scripts. The scripts are one step here.

### RunParts

The script is a process that writes to its streams, closes one, leaves a background
process with them, exits or is killed between any two calls of `run_child`. Text is
a sequence over "t" (text) and "n" (newline). Every failing or interrupted system
call is a branch of its own that throws the error the code throws, with the
descriptors its catch clause closes. `programs` is the sorted set of the constructor:
the names of the directory that are valid, in increasing order.

### AuthStatus, PamConv, Authentication

Which of the lists users, groups, root-users and root-groups of each chroot name the
caller is an arbitrary input. `CheckChroot` is one turn of the loop, `Authenticate`
the switch in `auth_pam::authenticate`; PAM may refuse whatever the status.

`PamConv` is `auth_pam_conv_tty::conversation` and `read_string` with a clock: the
prompt, the terminal mode, `set_alarm`, the blocking read and what follows it are
steps, the alarm and the user's typing fall between any two. A line of input is one
value, "shown" if the terminal echoed it. `Authentication` lets PAM hold any one of the
given conversations, or none, when the status asks for authentication, or applies the
rules of `auth_null`. PAM modules that hold several conversations in one
authentication are left out.

### ChrootConfig

One definition after the other, in any order (a directory is read in its own
order), session files last; `LoadGroup`, `AddAlias` per turn of the alias loop, and
`AliasesDone`, which adds the source chroot. A name is a stem and the number of
"-source" suffixes appended to it, so that compatibility aliases and real names can
clash. A duplicate name ends the loading ("failed"); a duplicate alias is a warning.

### ChrootObject

An object is its type, its facets and the values of its members, named by the keys
they have in a file. `Create` is `chroot::create` with the constructors
(`FileFacets`, `LvmFacets` and so on), `CloneSession` and `CloneSource` are the clone
functions of all types with `clone_session_setup` and `clone_source_setup`;
`GetKeyfile` and `SetKeyfile` are the functions of that name of the base class, the
types and the facets: `FileKeys`, `UnionKeys` and so on are the keys one of them
writes, `FileReads`, `UnionReads` and so on the keys it reads, by priority (a
deprecated or obsolete key with a setter is optional), and `FileRefuses`,
`UnionRefuses` and so on the values its setters throw on; "profile" stands for all
the keys every chroot writes and reads without condition. `SetupEnv` is what the
scripts are told. `LoadKeyfile` is one group of `chroot_config::load_keyfile` with
its dummy clone. The steps load the configuration, begin a session from the chroot or
its source, load the session's file in another process, and end it. Values are
sequences of strings, so that a path can be extended and shortened; an absolute one
begins with "/". The build has all optional features. `Strings` is a constant
because the provers know no member of `STRING`.

### Keyfile

A line is a token: a group header, an item, a comment, an empty or a malformed line.
`GetLine` is one turn of the parser's loop with the comment, group and line number
it carries along; `parse_value`, `check_priority` and `split_string` are modelled by
what they do to a value made of fields. After reading, values are set and read the
way `get_keyfile` and `set_keyfile` of a chroot do it, and the result is printed and
read again. The reference is the file as a whole: `Section` and `CommentOf` say to
which group a line belongs and which comment stands before it, `Defective` which lines
are wrong, `Meaning` what the file says.

### Mount

A path is the sequence of its names. `resolve_path` is the forked child that enters
the chroot and resolves the name there, with `realpath` that follows links and
`resolve_path_chrooted` that goes up until something exists; then the directory is
made and the mount commands run, any of which may fail. `Base` is both `CHROOT_PATH`,
under which they mount, and `CHROOT_MOUNT_LOCATION`, below which is unmounted: the case
of a chroot with a location, where the former lies below the latter, is not in the
model. schroot-listmounts may fail as a whole; it compares
strings, so `NamePrefix` tells which names begin another one. What a mounted file
system hides is left out, names have no "..", and `/proc/mounts` is read in one step.

### Options, UserCommand, Frontend

`Options` and `UserCommand` hold what is a function of its input: the checks of
options by program, and the choice of environment, directory, shell and command.
`Frontend` is the program from the options to `exec`: who calls and who is asked for,
loading, selection, the loop over the chroots with user data and setup scripts, and
the calls after `fork` one by one, each of which may fail. Variables without initial
value (`load_chroots`, `load_sessions`) start with any value. What happens when one
of several chroots fails is in `Session`; here the scripts succeed or end the run.

## 3. What TLC checks

| Run | Instance | Properties |
|---|---|---|
| `session` | a block device and a file chroot, up to two per command line, all faults, fairness | `ResourcesHaveMetadata`, `NoErrorMeansDone`, `SessionErrorReported`, `StopDiscipline`, `CollisionHarmless`, `ImplementsLifecycle`, `Terminates` |
| `setup_safety` | every type with and without union, repacking, a root below the mount location | `StopRetryable`, `DestroyOnlyUnmounted`, `ScriptsImplementLifecycle` |
| `session_dir` | three processes, one name, two files of two buffers, all faults | `LeftoversExplained`, `BegunSessionsKept`, `TornReadExplained`, `EndsCounted`, `AllDone` |
| `run_parts` | two scripts and a file that is none, two writes each, one failing call | `LinesRelayed`, `NotKilledByRelay`, `StatusIsTrue`, `RunEnds` |
| `authentication` | two chroots, three users, lists alone and together, two timeouts, three conversations, with and without a terminal | `AccessJustified`, `NoFreeSwitch`, `TerminalRestored`, `PasswordsHidden`, `Decided` |
| `config_names` | three definitions over three names, up to two aliases each | `FoundByOwnName`, `NamespacesKept`, `AliasesHonoured` |
| `chroot_objects` | 58 definitions of all types, two sessions, two users | `ReloadFaithful`, `OnlySourceWritesOriginal`, `ClonesEnd` |
| `keyfile` | up to four lines, two groups, four keys of four types | `LoadIsExact`, `PrintedIsReadBack`, `ObjectSurvives` |
| `mount` | up to two fstab entries among four names, a link, a dangling link, missing directories, a neighbour with a longer name | `MountedWhereNamed`, `UnmountedExactly` |
| `frontend` | three families of command lines (selection, execution, user data) of three programs | `OperationFits`, `SelectionServed`, `ExecConfined`, `EnvironmentClean`, `UserDataPermitted` |

All of these hold. Two runs show where the code does something else than its
comments say:

| Run | What happens |
|---|---|
| `session_stop_skipped` | a failed `open_session` or `close_session` skips setup-stop of an automatic session (`StopAlwaysRun`) |
| `run_parts_lines` | a line that arrives in two reads after a complete one loses its first part (`IncompleteLinesSaved`) |

Several properties carry an exception that the code makes necessary; each is named
in the property's comment: `TornReadExplained` and `LeftoversExplained` list the ways
in which an incomplete file comes about, `LinesRelayed` excepts reads that end within
a line, `NotKilledByRelay` scripts that close a stream early, `StopRetryable` a root
below the mount location, `ReloadFaithful` what only the creation of a session
needs, `TerminalRestored` the blocked signals of a conversation that timed out,
`UserDataPermitted`, in what it says of the session file, values with a line break.
`DestroyOnlyUnmounted` speaks of the mount location and what is below it: the mount
under a union lies on the underlay, which is not deleted but removed with `rmdir`.

### Bounds

Two sessions and two chroots per command line give every pair of an earlier and a
later chroot in one process, and a stale member variable shows with two. The number
of processes is not bounded: control state starts afresh, so the state space is
finite. `MaxMounts` = 3 lets recovery stack a mount on a stacked one; beyond that
`umount` repeats itself. Three definitions are the chroot, the one that claims its
name before it, and the one after it. Two chroots suffice for the authentication
loop, which keeps one number; of the memberships in four lists those are left out
that `Demand` does not tell apart. Warning and fatal timeout at 2 and 3 with the
clock up to 4 let each fall before, in and after a read, and both in one prompt;
`MaxErrors` = 1 failed read.

In `session_dir` a name can be created, removed and created again (two files), and
three processes are the smallest number with a writer, a reader and one that
disturbs both; a file of two buffers is written before and after the unlock. In
`run_parts` two writes of up to three characters against a buffer of three make
reads that hold less than, exactly and more than a line; `MaxFaults` = 1 failing
call at any place. Four lines hold a group, an item, a comment and one line that is
wrong, in any order. In `mount` a prefix error needs one neighbour, an order error
two entries, and `MaxOther` = 2 lets the neighbour mount and unmount. The 58
definitions have each type with the options that change a facet or a table:
union type, source clone, location, lists of users, the keys of custom chroots, a
relative path and an unknown union type; two sessions show what they share, and two
users who is let in. The inputs of `frontend` vary in each family what its properties
depend on and hold the rest at its default. No run uses symmetry: the session names
have different chroot types, and `session_dir` checks liveness.

`CHECK_DEADLOCK FALSE` stands where the program simply ends (`config_names`,
`chroot_objects`, `keyfile`, `frontend`); elsewhere an ended process stutters or is
followed by another, and a state without successor would be a fault.

### Fairness

`Session`: weak fairness of `Process`, because the scheduler runs a process that can
run, and of `ChildEnds`: setup scripts and commands end at some time; the code has no
time limit of its own, so nothing less would do. `SessionDir`: weak fairness of every
process's own steps; the alarm is not fair, so that `AllDone` does not rest on it.
`RunParts`: the parent runs, scripts exit at some time and so does what they leave in
the background, which keeps the pipes open. `Authentication`: the program runs, time
passes, a due alarm is delivered and the user answers a prompt that stays. Faults,
signals, crashes and the error of `waitpid` are not fair anywhere.

## 4. What is proved

Every theorem is about the specification that TLC runs, for every value of its
constants: any number of processes, sessions, chroots, messages, scripts and files.
The bounds on faults, reads and writes are constants too, so that they bound nothing
here.

### The theorems and their invariants

`SessionProofs`, for any set of sessions, any chroot types and any number of chroots
on a command line, under `NoSnapshotFault`: a device fault only where no chroot is an
LVM snapshot, a failed deletion of a snapshot only where there are none. Without it
the theorems are false: the error path of an LVM snapshot's lock is the first case
(section 5), and `|| true` in `05lvm` and `05btrfs` the second.

- `Invariance`: `Spec => []IndInv`. `ResourcesHaveMetadata` alone is not inductive:
  that unlinking the session file is safe depends on `exit_status` being 0 only after
  scripts that left nothing (`Files`), on the lock being taken for the chroot the
  scripts ran for (`Position`), and on setup-stop after an error being on its way with
  a `session::error` (`Unwinding`); `NoErrorMeansDone` needs what the loop has left
  behind (`Progress`, `Selected`), `CleanExit` what is held at each control point
  (`Held`), `StopDiscipline` how far setup_chroot got under which lock (`Stopping`).
  One lemma per part of the invariant, one step per action.
- `TypeCorrect`, `NothingIsLost`, `SuccessIsReal`, `ErrorsAreReported`,
  `ExitIsClean`, `StopsAreTried`: its consequences.
- `CollisionsAreHarmless`: the action property, a step at a time from the invariant.
- `Refinement`: `Spec => ImplementsLifecycle`, by initial states and step simulation.

`SetupProofs`, for any kinds of chroot, any bound on stacked mounts, any failures,
crashes and reboots: `ScriptsTypeOK`, `StopsCanBeRepeated`, `DestroysOnlyUnmounted` and
`ScriptsImplement`, the refinement of `SessionLifecycle`. `StopRetryable` alone is not
inductive: whether a command can fail depends on those before it. `ScriptsInv` says
how far a stage is: the commands left in `todo` are commands of the stage, in the
order of the ranks the proof gives them (`InOrder`) and fitting the chroot
(`ForThisChroot`), so that a command that is not left is behind. On the way up
(`SettingUp`) and down (`TearingDown`) what is behind has had its effect, unless
something outside the scripts failed; at all times (`Standing`) what exists has a
session file and mounts have their directory.

`DirProofs`, for any number of processes, names, files and stream buffers and with
every fault: `LocksAreSafe` (a writer of a session file is alone with it, and timer and
handler are restored; the two are inductive together with the types, and only `Grant`
can disturb the first), `BegunSessionsAreKept`, `LeftoversAreExplained`,
`TornReadsAreExplained`, `EndsAreCounted` and the types. `DirInv` follows a file from its creation: nobody has a
fresh file, a file has one name and one maker, each process holds the lock its step
needs, a part of a file is there only while its maker is at it or after one of the
faults, and what a process saw in the directory is still there or was ended (`SeenExplained`).
`CountInv` says that the files gone are as many as the processes that report an end,
because each step that removes a file makes one such process (`UnlinkCounts`); no
file is removed by anything else.

`AuthProofs`, for any number of chroots and users: `StatusIsStrictest`,
`AccessIsJustified`, `SwitchIsAsked`, `FailureIsJustified`. The invariant adds that
without an answer from PAM nothing is granted above `STATUS_NONE`.
`AuthenticationImplementsStatus`: the program with the conversation and the null
module implements `AuthStatus`, so the same holds of it
(`ConversationsAreJustified`). `TerminalIsRestored` and `PasswordsAreHidden` rest on
`ConvInv`, for every list of messages, every pair of deadlines, any number of failed
reads: echo is off only between the prompt and its answer, and between the flush of
the input and the answer no typed line was echoed.

`ConfigProofs`, for any names and any number of definitions: `NamesLead`,
`NamespacesAreKept`, `NamesAreStable`, `AliasesAreHonoured`. The invariant: every
chroot has the entry of its own name, every entry leads to a chroot, and the chroot
whose aliases are being added is there already; `AllSettled` adds that of this chroot
the aliases that are no longer to be done lead to it or were warned about.

The same module has the theorems on key files, for any groups, keys, values, comments,
earlier contents and any length:

- `LoadsAreExact` by `KeyInv`: the parser has read the file so far (`HasRead`). Its
  group is the `Section` of the last line, the comment it carries is the one that
  stands before the next line, what it has collected is described by the lines
  (`Describes`), and none of them is defective. `ReadingGoesOn` adds a line of each
  form; `DescribedIsMeant` shows that this determines the keyfile.
- `PrintedAreReadBack`: reading is followed through what is printed, from comments
  (`CommentReadBack`) to items, groups and the whole file (`FileReadBack`). A comment
  can lose empty lines at its end and nothing else.
- `ObjectsSurvive`: what is written for a bool, string, list or set is read as that
  again (`ToValueBack`), a stored object has a value for each key, printed and read it
  has the same ones (`StoredIsRead`), and the object set from them is the same.

`RunPartsProofs`, for any finite directory and any writes: `AccountsHold` (that
`StatusIsTrue`), `RelayKillsNobody`, `RunTypesHold`. The order of execution is a
lemma: the ranks of a finite set of names are exactly 1 to its size, so `programs`
lists every one once. `RunInv` ties the position in that list to what was run with
success and says that both streams are heard as long as run_child reads.

`FrontendProofs`, for any command line, configuration, aliases and user database:

- `OperationsFit` by `SelectInv`: what the checks of the options leave of the command
  line, what is then loaded, and that each name selected and each chroot handled leads
  to a chroot of the kind the action is for.
- `ExecutionIsConfined` by `ChildInv`: the account looked up is the one asked for, and
  at each call after fork what has been given up and where the process is.
- `EnvironmentIsClean` by `CleanInv`: which values of the environment can be the
  caller's at each step, up to the program that is searched in PATH.
- `SelectionIsServed` by `ServedInv`: `SelectInv`, that the configuration in memory is
  that of the definitions (`ConfigNames`), and how far down the list of selected names
  the loop is, with each one before handled (`Progress`). What `Wanted` says of names,
  aliases and namespaces is then shown to be what `SelectedNames` and `Hint` make of
  the options. The default chroot of an automatic session may be an alias, as
  `schroot.1` says.
- `UserDataIsSafe` by `DataInv`: `CleanInv`, and that the data of the current chroot is
  what the file, `profile`, `script-config` and the options give (`DataFits`). The loops
  over the keys are recursive functions; `KeyfileLoop` and `OptionLoop` show that they
  run, and the lemmas on them carry through each key what a `Formed` facet is: every
  key set has recorded its variable and no two keys one variable
  (`LoadedIsPermitted`, `ModifiedIsPermitted`, `ReadBackIsSame`, `FirstOptionCounts`).
  That the session file brings the data back is said of data whose values have no
  line break (`OneLine`).

`ObjectProofs`, for any definitions, session names and users, in three layers:

- `CloneInv`: `ObjectsTyped`, `CloningEnds`. `ClonesEnd` alone is not inductive: a
  session file that named a plain chroot would be made into an object that is no
  session, because a plain chroot has no session-clonable facet to clone the dummy
  session from. It adds that what can have sessions is not plain, and that session
  files therefore name other types.
- `FileInv`: `ReloadsAreFaithful`. Chroots are what a definition that was not refused
  gives (`Sound`), sessions are clones of these, and their files are what get_keyfile
  wrote. The lemmas then show, type by type and facet by facet, that the keys a
  session writes are read back without an error (`TypeReadsBack`, `FacetReadsBack`,
  `SessionFileAccepted`), and that the two objects give the scripts the same variables
  (`ChrootEnvAgrees`, `TypeEnvAgrees`, `FacetEnvAgrees`, `SetupEnvAgrees`), whatever
  the dummy clone left in the members that the file does not name.
- `OriginInv`: `OriginalsAreProtected`. Which namespace a session was begun from shows
  in what it mounts (`Traced`), and the reloaded session mounts the same.

### Assumptions

Those on the constants, evaluated by TLC in every run, and the hypothesis
`NoSnapshotFault` in the statements. Most give types. These say more:

- `RunPartsAssumption`: a directory has finitely many entries.
- `PasswdAssumption`: no two accounts have one name; two may have one user ID.
- `PlaceAssumption`: "host" and "location", the places outside the chroot, are no
  directories inside it. `OriginAssumption`: a value of the caller's environment is
  told apart from values of another origin. Both are about the names the model gives
  to places and values, not about the program.
- `InputAssumption`, `DefinitionAssumption`: a command line has the options of its
  program, and definitions are groups of their namespace.
- `NamesAssumption`: the order in which names are listed has all names that occur, and
  each chroot has the entry of its own name, which `NamesLead` proves of every
  configuration that `chroot_config` loads. `Frontend` takes the loaded table as given.
- `KeyAssumption`: the order of keys has every key, and the four keys of a profile are
  valid and have four different variables, which can be read off `validate_keyname`
  and `envname`.
- `KeyfileAssumption`: maps are iterated in an order without repetition, as `std::map`
  is; no group has the empty name, which `parse_line` refuses; the fields that
  values are written with are fields.
- `StringAssumption`: the strings that the code puts into values are strings.
- `OriginalAssumption`: no session has the name of the device or the subvolume that it
  is a snapshot of, and zfs-dataset is not empty. The code checks neither; lvcreate
  and btrfs refuse the former. Without it a snapshot would be the original, and
  `OnlySourceWritesOriginal` false.

### How far the provers go

The induction theorems of the library cannot be instantiated with a property. The
project argues with a set instead: the indices at which a property fails have a
smallest member (`SmallestExists`, from the well-foundedness of the natural numbers),
and a set that has 0 and is closed under successors has all indices (`UpTo`). That
covers the loops over accounts, shells, keys and lines: each is a recursive function,
shown to have a result (`LoopRuns`) before anything is said of it. Only model-checked are

- all liveness (`Terminates`, `AllDone`, `RunEnds`, `Decided`): outside TLAPS;
- `Mount`, which is about what a recursive resolution of paths computes for each input;
- `LinesRelayed`, which compares the lines of a text with those of the pieces it was
  read in, an induction over the text through three operators on sequences.

## 5. Observations without a run

Session and PAM:

- An exception other than `session::error` that leaves `run` for a later chroot ends
  in exit status 0, because `child_status` is reset to success before each chroot
  (`sbuild-session.cc:712`, against the comment at `:708`).
- A failed lock at setup-stop of an LVM snapshot session unlinks the file of a session
  that is still set up (`sbuild-chroot-lvm-snapshot.cc:168`).
- A signal between the test of the flags and `waitpid` is not passed on to the child
  (`sbuild-session.cc:1444`).
- `cred_delete` and PAM's `stop` are skipped on a `session::error`, although the comment
  at `sbuild-session.cc:576` says that clean-up is done whether or not errors were
  raised: `CleanExit` claims them for error-free runs only.
- setup-stop is given status "ok" after scripts that died by a signal
  (`sbuild-session.cc:1470`).
- A session file that was created but could not be locked stays as an empty file;
  the comment at `sbuild-session.cc:1105` says that it is removed.
- Conversation (`sbuild-auth-pam-conv-tty.cc`): a read that fails repeats the prompt
  with the old delay, so that the fatal timeout moves; SIGALRM before the read makes
  the wait unlimited; SIGINT and SIGTSTP stay blocked after a timeout; input that
  arrives together with the alarm is discarded.

Scripts and run-parts:

- Recovery mounts over what it could not unmount: `anyfailed` in `10mount` is set in
  the subshell of a pipeline and lost.
- Ending a session whose unpacking failed in an earlier process repacks the partial
  tree over the archive: `STATUS` is "ok" (`05file:139`).
- After a failed `zfs clone` the snapshot stays (`05zfs:49`).
- With a root below the mount location, setup-stop cannot be repeated once the chroot
  is unmounted (`15killprocs:42`); `StopRetryable` excepts this case.
- The constructor of `run_parts` ignores `lsb_mode`; an interrupted `poll` throws and
  leaves the script running; a failed `pipe` closes descriptors that were never
  opened; without `abort_on_error` the status of a failed script is overwritten by
  that of the next.

Chroots and configuration:

- The copy constructor of `chroot_custom` does not copy `purgeable`, so no session of
  a custom chroot is ever purged (`sbuild-chroot-custom.cc:45`).
- `custom-session-cloneable=true`, the documented default, is refused with "facet
  already present" (`sbuild-chroot-custom.cc:94`).
- That a session was begun from a source chroot is not in its file: the flag
  `SESSION_SOURCE` is gone in other processes, and for a zfs source session `10mount`
  is given the name of a clone that was never made, so that recovery fails.
- `--config` prints the dataset of a zfs-snapshot chroot under a key that is not read
  (`sbuild-chroot-zfs-snapshot.cc:260`).
- A session named like a plain chroot makes every session operation fail to load
  (`sbuild-chroot-config.cc:200`).
- An alias equal to the chroot's own name is warned about, against the comment at
  `sbuild-chroot-config.cc:234`: the lookup leaves out the namespace.
- "-source" compatibility names are made for aliases only, not for the chroot's name,
  which `schroot.1` (source chroots) has as its example.
- `remove_data` leaves the name of the variable taken: a chroot with `script-config`
  can neither set `setup.fstab` itself nor take it with `--option`.
- Values are written into a session file as they are and read by the line
  (`sbuild-basic-keyfile.h:975`, `:900`), and `set_data` looks at keys only
  (`sbuild-chroot-facet-userdata.cc:241`): a value of `--option` with a line break
  comes back as several lines, so that the file may not load or hold other data than
  the session. The models have no lines inside values.
- Key files: parse errors name the line before; a value that does not parse is
  reported as missing if required and not rejected if disallowed; every save loses
  an empty line at the end of a comment.

Frontend:

- `--list`, `--info`, `--location` and `--config` may load sessions or not, as
  `load_sessions` has no initial value; `--list --all-sessions` lists plain chroots.
- With `--all` an automatic session leaves sessions out, and `--all-sessions` with a
  command runs it in "default"; `--end-session --all` fails at the first chroot.
- `$SHELL` counts only with `--preserve-environment`, not with the chroot's key;
  `--option key` without "=" sets the value to the key; the exit status of several
  chroots is that of the last.

## 6. Not modelled

csbuild and schroot-sbuild are not built. Output, logging, message formatting and
the wording of errors have no state the properties speak of. `sigaction` and, where
`poll` has found data in a pipe, `read` have no reason to fail with the arguments and in
the places they are called (`set_signal_handler`, an interrupted `read` of run-parts). `boost` splits the
command line and matches regular expressions; options, words and patterns are
inputs. Device locks are asked of a library and succeed or fail. What the scripts
`20copyfiles`, `20nssdatabases`, `50chrootname` and `70services` write into a chroot
is one step, since nothing depends on it. Custom chroots are prepared by scripts of
the administrator. Two processes whose scripts work on one session at the same time
are excluded by nothing in the code, and nothing says what should come of it:
`SessionDir` has such processes with their scripts as one step, `SetupScripts` one
at a time.
