------------------------------ MODULE RunParts ------------------------------
(***************************************************************************)
(* run_parts: the scripts of a directory run one after the other, each     *)
(* with its standard output and standard error on a pipe that run_child    *)
(* relays to the log line by line until "pipes closed", and then waited    *)
(* for.  The script is a process of its own: it writes, closes a stream,   *)
(* leaves a background process behind that keeps the streams, fails or is  *)
(* killed between any two system calls of run_child.                       *)
(*                                                                         *)
(* The descriptors and buffers are run_child's; what it wrote and          *)
(* what was relayed of it are kept for the script at work.                 *)
(***************************************************************************)
EXTENDS Integers, Sequences, FiniteSets, SequencesExt

CONSTANTS
    Entries,    \* what the directory holds: [Nat -> Name], numbered by name
    Chunks,     \* what one write may be: sequences over {"t", "n"}, text and newline
    BUFSIZ,     \* the size of run_child's read buffer
    MaxWrites,  \* bound: writes of one script
    MaxFaults   \* bound: failing or interrupted system calls

\* A file name, as far as is_valid_filename looks at it: the patterns it matches.
Patterns == {"lanana", "lsb", "cron", "cruft", "traditional"}

ASSUME RunPartsAssumption ==
    /\ DOMAIN Entries \subseteq Nat /\ IsFiniteSet(DOMAIN Entries)
    /\ \A n \in DOMAIN Entries : Entries[n] \subseteq Patterns
    /\ Chunks \subseteq Seq({"t", "n"}) \ {<<>>}
    /\ BUFSIZ \in Nat \ {0} /\ MaxWrites \in Nat /\ MaxFaults \in Nat

is_valid_filename(name, lsb_mode) ==
    IF lsb_mode
    THEN name \cap {"lanana", "lsb", "cron"} # {} /\ "cruft" \notin name
    ELSE "traditional" \in name

\* The constructor: lsb_mode is always true, whatever the caller asked for.
Runnable == {n \in DOMAIN Entries : is_valid_filename(Entries[n], TRUE)}

\* A sorted set: the names in increasing order.
programs ==
    LET D == 1..Cardinality(Runnable)
    IN  CHOOSE p \in [D -> Runnable] : \A i, j \in D : i < j => p[i] < p[j]

Streams == {"out", "err"}
Errors == {"PIPE", "CHILD_FORK", "POLL", "READ", "CHILD_WAIT"}
\* What became of a script, besides exiting with a status.
NotRun  == -1
Running == -2
Signal  == -3
Zero == [s \in Streams |-> 0]
Empty == [s \in Streams |-> <<>>]

VARIABLES
    abort_on_error, reverse,
    pc,           \* run: "next", "returned", "thrown"; run_child: "poll", "err", "out", "wait"
    pos,          \* the script at work, as a position in the order of execution
    exit_status,
    thrown,       \* the error run threw
    faults,
    fds,          \* the pipe descriptors of run_parts that are open
    stray,        \* a descriptor that run_child never opened may have been closed
    revents, data, buf,   \* run_child's pollfds, errdata and outdata, and buffers
    pipe,         \* [Streams -> what is in the pipe]
    child,        \* the script's process: "none", "running", "exited", "killed", "reaped"
    childStatus,  \* its exit status
    writers,      \* [Streams -> the processes that hold the write end]
    writes,       \* how often the script at work has written
    written,      \* history: [Streams -> what it wrote]
    relayed,      \* history: [Streams -> the lines logged for it]
    ended,        \* history: [script -> its wait status, NotRun, Running or Signal]
    torn,         \* history: a read ended within a line and held a newline
    early         \* history: the script closed a stream while it ran

own     == <<abort_on_error, reverse, pos>>
parent  == <<pc, exit_status, thrown, fds, stray, revents, data, buf>>
process == <<child, childStatus, writers>>
history == <<writes, written, relayed, ended, torn, early>>
vars    == <<own, faults, parent, pipe, process, history>>

Order == IF reverse THEN Reverse(programs) ELSE programs
Current == Order[pos]
Scripts == ToSet(programs)

TypeOK ==
    /\ abort_on_error \in BOOLEAN /\ reverse \in BOOLEAN
    /\ pc \in {"next", "poll", "err", "out", "wait", "returned", "thrown"}
    /\ pos \in 0..Len(programs)
    /\ exit_status \in 0..2 /\ thrown \in Errors \cup {"none"}
    /\ faults \in 0..MaxFaults
    /\ fds \subseteq (Streams \X {"read", "write"}) /\ stray \in BOOLEAN
    /\ revents \in [Streams -> SUBSET {"POLLIN", "POLLHUP"}]
    /\ data \in [Streams -> 0..BUFSIZ]
    /\ pipe \in [Streams -> Seq({"t", "n"})]
    /\ child \in {"none", "running", "exited", "killed", "reaped"}
    /\ childStatus \in 0..2
    /\ writers \in [Streams -> SUBSET {"parent", "script", "background"}]
    /\ ended \in [Scripts -> -3..2] /\ early \in BOOLEAN

Init ==
    /\ abort_on_error \in BOOLEAN /\ reverse \in BOOLEAN
    /\ pc = "next" /\ pos = 0 /\ exit_status = 0 /\ thrown = "none" /\ faults = 0
    /\ fds = {} /\ stray = FALSE
    /\ revents = [s \in Streams |-> {}] /\ data = Zero /\ buf = Empty
    /\ pipe = Empty
    /\ child = "none" /\ childStatus = 0 /\ writers = [s \in Streams |-> {}]
    /\ written = Empty /\ relayed = Empty /\ writes = 0
    /\ ended = [n \in Scripts |-> NotRun] /\ torn = FALSE /\ early = FALSE

(***************************************************************************)
(* run.                                                                    *)
(***************************************************************************)
\* The loop stops at a failure, or after the last script.
Finished == pos = Len(programs) \/ (exit_status # 0 /\ abort_on_error)

Return ==
    /\ pc = "next" /\ Finished
    /\ pc' = "returned"
    /\ UNCHANGED <<own, faults, exit_status, thrown, fds, stray, revents, data, buf, pipe,
                   process, history>>

\* The catch block of run_child: all four descriptors are closed, opened or not.
Throw(e, uninitialised) ==
    /\ pc' = "thrown" /\ thrown' = e
    /\ fds' = {}
    /\ writers' = [s \in Streams |-> writers[s] \ {"parent"}]
    /\ stray' \in IF uninitialised THEN BOOLEAN ELSE {stray}
    /\ UNCHANGED <<exit_status, revents, data, buf>>

\* pipe fails: one or both pairs of descriptors are closed without ever having
\* been set.  fork fails.
PipeFails ==
    /\ pc = "next" /\ ~Finished /\ faults < MaxFaults
    /\ faults' = faults + 1
    /\ Throw("PIPE", TRUE)
    /\ UNCHANGED <<own, pipe, child, childStatus, history>>

ForkFails ==
    /\ pc = "next" /\ ~Finished /\ faults < MaxFaults
    /\ faults' = faults + 1
    /\ Throw("CHILD_FORK", FALSE)
    /\ UNCHANGED <<own, pipe, child, childStatus, history>>

\* Mutant of Start: the parent keeps the write ends.
StartKeepingEnds ==
    /\ pc = "next" /\ ~Finished
    /\ pos' = pos + 1 /\ pc' = "poll"
    /\ fds' = Streams \X {"read", "write"}
    /\ revents' = [s \in Streams |-> {}] /\ data' = Zero /\ buf' = Empty /\ pipe' = Empty
    /\ child' = "running" /\ writers' = [s \in Streams |-> {"parent", "script"}]
    /\ ended' = [ended EXCEPT ![Order[pos + 1]] = Running]
    /\ written' = Empty /\ relayed' = Empty /\ writes' = 0 /\ torn' = FALSE /\ early' = FALSE
    /\ UNCHANGED <<abort_on_error, reverse, faults, exit_status, thrown, stray, childStatus>>

\* The loop of run takes the next script; run_child makes the pipes, forks and
\* closes the write ends of its own.
Start ==
    /\ pc = "next" /\ ~Finished
    /\ pos' = pos + 1 /\ pc' = "poll"
    /\ fds' = Streams \X {"read"}
    /\ revents' = [s \in Streams |-> {}] /\ data' = Zero /\ buf' = Empty /\ pipe' = Empty
    /\ child' = "running" /\ writers' = [s \in Streams |-> {"script"}]
    /\ ended' = [ended EXCEPT ![Order[pos + 1]] = Running]
    /\ written' = Empty /\ relayed' = Empty /\ writes' = 0 /\ torn' = FALSE /\ early' = FALSE
    /\ UNCHANGED <<abort_on_error, reverse, faults, exit_status, thrown, stray, childStatus>>

(***************************************************************************)
(* The script, between fork and exit.                                      *)
(***************************************************************************)
Hears(s) == <<s, "read">> \in fds

\* A write of the script or of its background process; writing where nobody
\* reads kills the writer.
Write(p, s, c) ==
    /\ p = "script" => child = "running"
    /\ p \in writers[s]
    /\ writes < MaxWrites /\ writes' = writes + 1
    /\ IF Hears(s)
       THEN /\ pipe' = [pipe EXCEPT ![s] = @ \o c]
            /\ written' = [written EXCEPT ![s] = @ \o c]
            /\ UNCHANGED <<child, writers, ended>>
       ELSE /\ child' = IF p = "script" THEN "killed" ELSE child
            /\ ended' = IF p = "script" THEN [ended EXCEPT ![Current] = Signal] ELSE ended
            /\ writers' = [t \in Streams |-> writers[t] \ {p}]
            /\ UNCHANGED <<pipe, written>>
    /\ UNCHANGED <<own, faults, parent, childStatus, relayed, torn, early>>

\* The script redirects a stream elsewhere.
CloseStream(s) ==
    /\ child = "running" /\ "script" \in writers[s]
    /\ writers' = [writers EXCEPT ![s] = @ \ {"script"}]
    /\ early' = TRUE
    /\ UNCHANGED <<own, faults, parent, pipe, child, childStatus, writes, written, relayed,
                   ended, torn>>

\* The script starts a process that keeps its streams.
Background ==
    /\ child = "running"
    /\ \A s \in Streams : writers[s] = {"script"}
    /\ writers' = [s \in Streams |-> writers[s] \cup {"background"}]
    /\ UNCHANGED <<own, faults, parent, pipe, child, childStatus, history>>

BackgroundEnds ==
    /\ \E s \in Streams : "background" \in writers[s]
    /\ writers' = [s \in Streams |-> writers[s] \ {"background"}]
    /\ UNCHANGED <<own, faults, parent, pipe, child, childStatus, history>>

\* The script exits, or its exec failed and the child exits with EXIT_FAILURE
\* after it logged that to the pipe.
Exit(status) ==
    /\ child = "running"
    /\ child' = "exited" /\ childStatus' = status
    /\ writers' = [s \in Streams |-> writers[s] \ {"script"}]
    /\ ended' = [ended EXCEPT ![Current] = status]
    /\ UNCHANGED <<own, faults, parent, pipe, writes, written, relayed, torn, early>>

ExecFails ==
    /\ child = "running"
    /\ \A s \in Streams : written[s] = <<>> /\ writers[s] = {"script"}
    /\ LET message == <<"t", "n">>
       IN  IF Hears("err")
           THEN /\ pipe' = [pipe EXCEPT !["err"] = @ \o message]
                /\ written' = [written EXCEPT !["err"] = @ \o message]
           ELSE UNCHANGED <<pipe, written>>
    /\ child' = "exited" /\ childStatus' = 1
    /\ writers' = [s \in Streams |-> {}]
    /\ ended' = [ended EXCEPT ![Current] = 1]
    /\ UNCHANGED <<own, faults, parent, writes, relayed, torn, early>>

\* Some signal kills the script.
Killed ==
    /\ child = "running" /\ faults < MaxFaults
    /\ faults' = faults + 1
    /\ child' = "killed"
    /\ writers' = [s \in Streams |-> writers[s] \ {"script"}]
    /\ ended' = [ended EXCEPT ![Current] = Signal]
    /\ UNCHANGED <<own, parent, pipe, childStatus, writes, written, relayed, torn, early>>

(***************************************************************************)
(* run_child's loop.                                                       *)
(***************************************************************************)
Ready(s) ==
    (IF pipe[s] # <<>> THEN {"POLLIN"} ELSE {})
    \cup (IF writers[s] = {} THEN {"POLLHUP"} ELSE {})

poll ==
    /\ pc = "poll"
    /\ \E s \in Streams : Ready(s) # {}
    /\ revents' = [s \in Streams |-> Ready(s)]
    /\ data' = Zero
    /\ pc' = "err"
    /\ UNCHANGED <<own, faults, exit_status, thrown, fds, stray, buf, pipe, process, history>>

\* A signal: the error is thrown with the script still at work, and nobody
\* waits for it.
PollInterrupted ==
    /\ pc = "poll" /\ faults < MaxFaults
    /\ faults' = faults + 1
    /\ Throw("POLL", FALSE)
    /\ UNCHANGED <<own, pipe, child, childStatus, history>>

\* What a read takes from a pipe with data in it.
Taken(s) == SubSeq(pipe[s], 1, IF Len(pipe[s]) < BUFSIZ THEN Len(pipe[s]) ELSE BUFSIZ)

\* split_string_strict with "\n": the texts that a newline ends.  What comes
\* after the last newline is in none of them.
Newlines(b) == SetToSortSeq({i \in DOMAIN b : b[i] = "n"}, LAMBDA x, y : x < y)

split_string_strict(b) ==
    LET nl == Newlines(b)
    IN  [k \in DOMAIN nl |-> SubSeq(b, IF k = 1 THEN 1 ELSE nl[k - 1] + 1, nl[k] - 1)]

\* The lines that are logged, and what is kept of the buffer: with an
\* incomplete line at its end, the last complete one is kept in its place.
Lines(b) ==
    LET lines == split_string_strict(b)
    IN  IF b = <<>> \/ lines = <<>> THEN <<>>
        ELSE IF Last(b) = "n" THEN lines ELSE Front(lines)

\* Mutant of Kept: the buffer is not cleared when it ends in a newline.
KeptUncleared(b) ==
    LET lines == split_string_strict(b)
    IN  IF b = <<>> \/ lines = <<>> \/ Last(b) = "n" THEN b ELSE Last(lines)

Kept(b) ==
    LET lines == split_string_strict(b)
    IN  IF b = <<>> \/ lines = <<>> THEN b
        ELSE IF Last(b) = "n" THEN <<>> ELSE Last(lines)

\* The read of standard error comes first; what was read is relayed only after
\* the read of standard output.
ReadErr ==
    /\ pc = "err" /\ pc' = "out"
    /\ IF "POLLIN" \in revents["err"]
       THEN /\ data' = [data EXCEPT !["err"] = Len(Taken("err"))]
            /\ buf' = [buf EXCEPT !["err"] = @ \o Taken("err")]
            /\ pipe' = [pipe EXCEPT !["err"] = SubSeq(@, Len(Taken("err")) + 1, Len(@))]
       ELSE UNCHANGED <<data, buf, pipe>>
    /\ UNCHANGED <<own, faults, exit_status, thrown, fds, stray, revents, process, history>>

\* Mutant of Closed: the end of one stream is taken for the end of both.
ClosedOne(d) == \E s \in Streams : d[s] = 0

\* "pipes closed".
Closed(d) == \A s \in Streams : d[s] = 0

\* The read of standard output, the lines of both, and the end of the loop:
\* what is left in the buffers is a line too.
ReadOut ==
    /\ pc = "out"
    /\ LET in   == "POLLIN" \in revents["out"]
           got  == IF in THEN Taken("out") ELSE <<>>
           full == [buf EXCEPT !["out"] = @ \o got]
           kept == [s \in Streams |-> Kept(full[s])]
           now  == [data EXCEPT !["out"] = Len(got)]
           over == Closed(now)
           rest == [s \in Streams |-> IF over /\ kept[s] # <<>> THEN <<kept[s]>> ELSE <<>>]
       IN  /\ data' = IF over THEN Zero ELSE now
           /\ revents' = IF over THEN [s \in Streams |-> {}] ELSE revents
           /\ pipe' = [pipe EXCEPT !["out"] = SubSeq(@, Len(got) + 1, Len(@))]
           /\ buf' = IF over THEN Empty ELSE kept
           /\ relayed' = [s \in Streams |-> relayed[s] \o Lines(full[s]) \o rest[s]]
           /\ torn' = (torn \/ \E s \in Streams : full[s] # <<>> /\ Last(full[s]) = "t"
                                                    /\ "n" \in ToSet(full[s]))
           /\ pc' = IF over THEN "wait" ELSE "poll"
           /\ fds' = IF over THEN {} ELSE fds
    /\ UNCHANGED <<own, faults, exit_status, thrown, stray, process, writes, written, ended, early>>

\* A read that is interrupted while data is there is left out (std::string would
\* throw length_error for its -1): poll has found the pipe readable.
ReadFails ==
    /\ pc \in {"err", "out"} /\ faults < MaxFaults
    /\ "POLLIN" \in revents[pc]
    /\ faults' = faults + 1
    /\ Throw("READ", FALSE)
    /\ UNCHANGED <<own, pipe, child, childStatus, history>>

\* wait_for_child: EXIT_FAILURE unless the script exited.
WaitStatus == IF child = "exited" THEN childStatus ELSE 1

\* Mutant of wait_for_child: it does not wait.
wait_for_child_nohang ==
    /\ pc = "wait"
    /\ exit_status' = WaitStatus /\ child' = IF child = "running" THEN child ELSE "reaped"
    /\ pc' = "next"
    /\ UNCHANGED <<own, faults, thrown, fds, stray, revents, data, buf, pipe, childStatus,
                   writers, history>>

\* waitpid is called again when interrupted; run takes the status.
wait_for_child ==
    /\ pc = "wait" /\ child \in {"exited", "killed"}
    /\ exit_status' = WaitStatus /\ child' = "reaped"
    /\ pc' = "next"
    /\ UNCHANGED <<own, faults, thrown, fds, stray, revents, data, buf, pipe, childStatus,
                   writers, history>>

WaitFails ==
    /\ pc = "wait" /\ faults < MaxFaults
    /\ faults' = faults + 1
    /\ Throw("CHILD_WAIT", FALSE)
    /\ UNCHANGED <<own, pipe, child, childStatus, history>>

Terminated == pc \in {"returned", "thrown"} /\ child # "running" /\ UNCHANGED vars

Parent == Return \/ Start \/ poll \/ ReadErr \/ ReadOut \/ wait_for_child

Faults == PipeFails \/ ForkFails \/ PollInterrupted \/ ReadFails \/ WaitFails \/ Killed

Ends == BackgroundEnds \/ \E status \in 0..2 : Exit(status)

Next ==
    \/ Parent
    \/ Faults
    \/ Ends
    \/ \E p \in {"script", "background"}, s \in Streams, c \in Chunks : Write(p, s, c)
    \/ \E s \in Streams : CloseStream(s)
    \/ Background \/ ExecFails
    \/ Terminated

\* run_parts does not stop by itself; a script ends, and so does what it
\* leaves in the background.
Spec == Init /\ [][Next]_vars /\ WF_vars(Parent)
        /\ WF_vars(BackgroundEnds) /\ WF_vars(\E status \in 0..2 : Exit(status))

----------------------------------------------------------------------------
\* The reference: the lines of a text, the last of them perhaps not ended by
\* a newline.
LinesOf(t) ==
    LET nl == Newlines(t)
        last == IF nl = <<>> THEN 0 ELSE Last(nl)
    IN  split_string_strict(t)
        \o (IF last < Len(t) THEN <<SubSeq(t, last + 1, Len(t))>> ELSE <<>>)

\* run_child's relaying of the current script's output is over, and no error
\* was thrown.
Relayed == pc = "wait" \/ (pc = "next" /\ pos > 0) \/ pc = "returned"

\* Once run_child has stopped reading, every line that the script wrote was
\* logged, in the order of its stream, provided that no read ended within a
\* line that followed a complete one and that the script closed no stream early.
LinesRelayed ==
    (Relayed /\ pos > 0 /\ ~torn /\ ~early) =>
        \A s \in Streams : relayed[s] = LinesOf(written[s])

\* "Save possibly incompete line" (run_child): lines that arrive in parts are
\* put together again, so that every line is logged whatever the reads were.
IncompleteLinesSaved ==
    (Relayed /\ pos > 0 /\ ~early) =>
        \A s \in Streams : relayed[s] = LinesOf(written[s])

\* run_parts fails no script by itself: a script that ends as it pleases, that
\* no signal hit and whose streams stay open to the end is never killed by
\* its own output.
NotKilledByRelay ==
    (pos > 0 /\ ended[Current] = Signal) => (early \/ faults > 0)

\* The scripts run one at a time and run's account of them is true: while one
\* is at work every earlier one has been waited for, and was successful if
\* failures abort; 0 then means that every script of the directory ran and
\* succeeded; and only an error after fork leaves a script running that nobody
\* waits for.
StatusIsTrue ==
    /\ \A i \in 1..(pos - 1) :
         /\ ended[Order[i]] \notin {NotRun, Running}
         /\ abort_on_error => ended[Order[i]] = 0
    /\ (pc = "returned" /\ pos > 0) =>
         /\ exit_status = IF ended[Current] = Signal THEN 1 ELSE ended[Current]
         /\ (abort_on_error /\ exit_status = 0) => \A n \in Scripts : ended[n] = 0
    /\ (pc \in {"returned", "thrown"} /\ child \notin {"none", "reaped"}) =>
         thrown \in {"POLL", "READ", "CHILD_WAIT"}

\* run comes to an end when scripts and what they leave running do.
RunEnds == <>(pc \in {"returned", "thrown"})
=============================================================================
