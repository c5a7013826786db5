------------------------------ MODULE PamConv ------------------------------
(***************************************************************************)
(* The conversation of PAM with the user on the controlling terminal:      *)
(* auth_pam_conv_tty with its two deadlines, kept by alarm(2), and         *)
(* auth_pam_conv_hook, which PAM calls.  A line of input is one value; the *)
(* properties tell apart whether the terminal echoed it.                   *)
(***************************************************************************)
EXTENDS Naturals, Sequences

CONSTANTS
    Warn, Fatal,     \* warning_timeout and fatal_timeout; 0 is not set
    MaxTime,         \* bound on the clock
    Conversations,   \* the message lists PAM may send: sequences of MessageTypes
    MaxErrors        \* bound on failed reads

MessageTypes == {"noecho", "echo", "error", "info", "unknown"}

\* The controlling terminal: there is none, it is a terminal, it is not.
Terminals == {"none", "tty", "other"}

ASSUME ConvAssumption ==
    /\ Warn \in Nat /\ Fatal \in Nat /\ MaxTime \in Nat \ {0} /\ MaxErrors \in Nat
    /\ Conversations \subseteq Seq(MessageTypes)

VARIABLES
    at,         \* the program counter
    messages,   \* the message list
    terminal,   \* the controlling terminal the conversation finds
    echo,       \* the terminal echoes
    blocked,    \* SIGINT and SIGTSTP are blocked
    typed,      \* the input queue of the terminal, at most one line
    line,       \* what read returned
    replies,    \* the responses, in order
    now,        \* the clock
    delay,
    due,        \* when SIGALRM is due; 0 is never
    caught,     \* the handler is installed
    expired,    \* timer_expired
    errors      \* failed reads so far

convVars == <<at, messages, terminal, echo, blocked, typed, line, replies, now, delay,
              due, caught, expired, errors>>

\* An input line, by what the terminal did while it was typed; end of file; an
\* error of read.
Lines == {"nothing", "shown", "hidden", "eof", "error"}

ConvTypeOK ==
    /\ at \in {"idle", "message", "begin", "prompt", "arm", "call", "read", "check",
               "ok", "error"}
    /\ messages \in Seq(MessageTypes)
    /\ terminal \in Terminals
    /\ echo \in BOOLEAN /\ blocked \in BOOLEAN /\ caught \in BOOLEAN /\ expired \in BOOLEAN
    /\ typed \in {"nothing", "shown", "hidden", "eof"}
    /\ line \in Lines
    /\ replies \in Seq({"none", "shown", "hidden", "eof"})
    /\ now \in 1..MaxTime
    /\ delay \in Nat /\ due \in Nat /\ errors \in 0..MaxErrors

ConvInit ==
    /\ at = "idle" /\ messages = <<>> /\ replies = <<>>
    /\ terminal = "none"
    /\ echo = TRUE /\ blocked = FALSE /\ caught = FALSE /\ expired = FALSE
    /\ typed = "nothing" /\ line = "nothing"
    /\ now = 1 /\ delay = 0 /\ due = 0 /\ errors = 0

\* PAM calls auth_pam_conv_hook with a list of messages.
Hook ==
    /\ at = "idle"
    /\ messages' \in Conversations
    /\ terminal' \in Terminals
    /\ at' = "message"
    /\ UNCHANGED <<echo, blocked, typed, line, replies, now, delay, due, caught,
                   expired, errors>>

\* The message whose turn it is.
Answered == Len(replies) = Len(messages)
Current == messages[Len(replies) + 1]

\* One turn of the loop of conversation(); an exception becomes PAM_CONV_ERR.
Message ==
    /\ at = "message"
    /\ \/ Answered /\ at' = "ok" /\ UNCHANGED replies
       \/ /\ ~Answered /\ Current \in {"error", "info"}
          /\ replies' = Append(replies, "none") /\ UNCHANGED at
       \/ ~Answered /\ Current = "unknown" /\ at' = "error" /\ UNCHANGED replies
       \/ /\ ~Answered /\ Current \in {"echo", "noecho"}
          /\ at' = "begin" /\ UNCHANGED replies
    /\ UNCHANGED <<messages, terminal, echo, blocked, typed, line, now, delay, due, caught,
                   expired, errors>>

\* get_delay: the time to wait, or TIMEOUT thrown out of the conversation.
Due == Fatal # 0 /\ now >= Fatal

get_delay ==
    IF Warn # 0 /\ now >= Warn THEN (IF Fatal # 0 THEN Fatal - now ELSE 0)
    ELSE IF Warn # 0 THEN Warn - now
    ELSE IF Fatal # 0 THEN Fatal - now
    ELSE 0

GetDelay ==
    /\ expired' = FALSE
    /\ IF Due THEN at' = "error" /\ UNCHANGED delay
       ELSE at' = "prompt" /\ delay' = get_delay

\* read_string up to its loop: the signals are blocked before the deadline is
\* looked at, and an exception leaves them so.
Begin ==
    /\ at = "begin"
    /\ \/ terminal = "none" /\ at' = "error" /\ UNCHANGED <<blocked, delay, expired>>
       \/ terminal # "none" /\ blocked' = (terminal = "tty") /\ GetDelay
    /\ UNCHANGED <<messages, terminal, echo, typed, line, replies, now, due, caught, errors>>

\* Mutant of Prompt: the terminal changes without discarding what was typed.
PromptDraining ==
    /\ at = "prompt"
    /\ at' = "arm"
    /\ echo' = IF terminal = "tty" THEN Current = "echo" ELSE echo
    /\ UNCHANGED <<messages, terminal, blocked, typed, line, replies, now, delay, due, caught,
                   expired, errors>>

\* The prompt is written and the terminal set, with TCSAFLUSH: input that was
\* typed before is discarded.
Prompt ==
    /\ at = "prompt"
    /\ at' = "arm"
    /\ IF terminal = "tty"
       THEN echo' = (Current = "echo") /\ typed' = "nothing"
       ELSE UNCHANGED <<echo, typed>>
    /\ UNCHANGED <<messages, terminal, blocked, line, replies, now, delay, due, caught,
                   expired, errors>>

\* set_alarm.  alarm() reports another pending alarm as a failure; there is none.
Arm ==
    /\ at = "arm"
    /\ at' = "call"
    /\ IF delay > 0 THEN due' = now + delay /\ caught' = TRUE
       ELSE UNCHANGED <<due, caught>>
    /\ UNCHANGED <<messages, terminal, echo, blocked, typed, line, replies, now, delay,
                   expired, errors>>

\* read is called: it fails at once, or waits for input.
Call ==
    /\ at = "call"
    /\ \/ at' = "read" /\ UNCHANGED <<line, errors>>
       \/ /\ errors < MaxErrors /\ errors' = errors + 1
          /\ line' = "error" /\ at' = "check"
    /\ UNCHANGED <<messages, terminal, echo, blocked, typed, replies, now, delay, due, caught,
                   expired>>

Read ==
    /\ at = "read" /\ typed # "nothing"
    /\ line' = typed
    /\ typed' = IF typed = "eof" THEN "eof" ELSE "nothing"
    /\ at' = "check"
    /\ UNCHANGED <<messages, terminal, echo, blocked, replies, now, delay, due, caught,
                   expired, errors>>

\* SIGALRM: only a read that is waiting is interrupted.
SigAlrm ==
    /\ due # 0 /\ now >= due
    /\ due' = 0 /\ expired' = TRUE
    /\ IF at = "read" THEN at' = "check" /\ line' = "error" ELSE UNCHANGED <<at, line>>
    /\ UNCHANGED <<messages, terminal, echo, blocked, typed, replies, now, delay, caught, errors>>

\* Mutants of Check: the terminal is restored only when a line was read; the
\* end of the input is taken for an error.
CheckEchoLate ==
    /\ at = "check"
    /\ due' = 0 /\ caught' = FALSE /\ line' = "nothing"
    /\ IF expired THEN GetDelay /\ UNCHANGED <<replies, blocked, echo>>
       ELSE IF line = "error"
       THEN at' = "prompt" /\ UNCHANGED <<replies, blocked, expired, delay, echo>>
       ELSE /\ at' = "message" /\ replies' = Append(replies, line) /\ blocked' = FALSE /\ echo' = TRUE
            /\ UNCHANGED <<expired, delay>>
    /\ UNCHANGED <<messages, terminal, typed, now, errors>>

CheckEofRetried ==
    /\ at = "check"
    /\ echo' = TRUE /\ line' = "nothing" /\ due' = 0 /\ caught' = FALSE
    /\ IF expired THEN GetDelay /\ UNCHANGED <<replies, blocked>>
       ELSE IF line \in {"error", "eof"}
       THEN at' = "prompt" /\ UNCHANGED <<replies, blocked, expired, delay>>
       ELSE /\ at' = "message" /\ replies' = Append(replies, line) /\ blocked' = FALSE
            /\ UNCHANGED <<expired, delay>>
    /\ UNCHANGED <<messages, terminal, typed, now, errors>>

\* read has returned: the terminal and the alarm are put back first, then the
\* alarm decides before the input does.  After an error the loop goes round
\* with the delay it had, and the deadline is not looked at.
Check ==
    /\ at = "check"
    /\ echo' = TRUE /\ line' = "nothing" /\ due' = 0 /\ caught' = FALSE
    /\ IF expired THEN GetDelay /\ UNCHANGED <<replies, blocked>>
       ELSE IF line = "error"
       THEN at' = "prompt" /\ UNCHANGED <<replies, blocked, expired, delay>>
       ELSE /\ at' = "message" /\ replies' = Append(replies, line) /\ blocked' = FALSE
            /\ UNCHANGED <<expired, delay>>
    /\ UNCHANGED <<messages, terminal, typed, now, errors>>

\* The user types a line, or ends the input, whenever it pleases.
Type ==
    /\ at \notin {"ok", "error"} /\ typed = "nothing"
    /\ typed' \in {"eof", IF echo THEN "shown" ELSE "hidden"}
    /\ UNCHANGED <<at, messages, terminal, echo, blocked, line, replies, now, delay, due,
                   caught, expired, errors>>

\* Time passes; a signal that is due is delivered first.
Tick ==
    /\ at \notin {"ok", "error"} /\ now < MaxTime /\ ~(due # 0 /\ now >= due)
    /\ now' = now + 1
    /\ UNCHANGED <<at, messages, terminal, echo, blocked, typed, line, replies, delay, due,
                   caught, expired, errors>>

ConvStep == Message \/ Begin \/ Prompt \/ Arm \/ Call \/ Read \/ Check

(***************************************************************************)
(* Properties.                                                             *)
(***************************************************************************)
\* However a conversation ends or stands between two prompts, the terminal
\* echoes again, no alarm is pending and the handler is gone; the signals are
\* delivered again unless the conversation timed out.
TerminalRestored ==
    at \in {"idle", "message", "begin", "ok", "error"} =>
      /\ echo /\ due = 0 /\ ~caught
      /\ blocked => at = "error" /\ Due

\* A password is never one the terminal has shown: whatever was typed before
\* the prompt, while it was shown again or while the alarm was handled, the
\* answer to a prompt without echo was typed with the echo off.
PasswordsHidden ==
    terminal = "tty" =>
      \A i \in 1..Len(replies) : messages[i] = "noecho" => replies[i] # "shown"
=============================================================================
