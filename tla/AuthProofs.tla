----------------------------- MODULE AuthProofs -----------------------------
(***************************************************************************)
(* Authorisation is right for every number of chroots and every set of     *)
(* user ids.  StrictestDemand is what makes the other invariants           *)
(* inductive: it carries the demands of the chroots already looked at to   *)
(* the moment authenticate acts on them.  The conversation implements that *)
(* decision, and leaves the terminal and the passwords as it should for    *)
(* every list of messages, every pair of deadlines and any number of       *)
(* failed reads.                                                           *)
(***************************************************************************)
EXTENDS Authentication, TLAPS

\* What was granted was granted on the final status.
Decision ==
    /\ verdict # "none" => cur = N + 1
    /\ asked => verdict = "granted"
    /\ verdict = "granted" => status # STATUS_FAIL /\ (~asked => status = STATUS_NONE)

IInv == TypeOK /\ StrictestDemand /\ Decision

\* A demand is a status.
LEMMA DemandType == \A m : Demand(m) \in Statuses
  BY DEF Demand, Statuses

\* Every step keeps the invariant.
LEMMA Inductive == IInv /\ [Next]_vars => IInv'
<1> SUFFICES ASSUME IInv, [Next]_vars PROVE IInv'
  OBVIOUS
<1> USE AuthAssumption DEF IInv
<1>1. CASE CheckChroot
  <2>1. cur \in 1..N /\ cur' = cur + 1 /\ UNCHANGED <<ruid, uid, member, asked, verdict>>
    BY <1>1 DEF CheckChroot, TypeOK
  <2>2. /\ status \in Statuses /\ Demand(member[cur]) \in Statuses
    BY DemandType DEF TypeOK
  <2>3. /\ status' \in Statuses
        /\ status' >= status /\ status' >= Demand(member[cur])
        /\ status' = status \/ status' = Demand(member[cur])
    BY <1>1, <2>2 DEF CheckChroot, change_auth, get_chroot_auth_status, Statuses,
       STATUS_NONE, STATUS_USER, STATUS_FAIL
  <2>4. TypeOK'
    BY <2>1, <2>3 DEF TypeOK
  <2>5. StrictestDemand'
    <3>1. \A i \in 1..N : (Demand(member[i]))' = Demand(member[i])
      BY <2>1 DEF Demand
    <3>2. \A i \in 1..(cur' - 1) : i \in 1..N /\ (i \in 1..(cur - 1) \/ i = cur)
      BY <2>1
    <3>3. \A i \in 1..N : Demand(member[i]) \in {0, 1, 2}
      BY DemandType DEF Statuses, STATUS_NONE, STATUS_USER, STATUS_FAIL
    <3>4. \A i \in 1..(cur' - 1) : Demand(member[i]) <= status'
      BY <2>2, <2>3, <3>2, <3>3 DEF StrictestDemand, Statuses, STATUS_NONE, STATUS_USER,
         STATUS_FAIL
    <3>5. status' = STATUS_NONE \/ \E i \in 1..(cur' - 1) : Demand(member[i]) = status'
      BY <2>1, <2>3 DEF StrictestDemand
    <3> QED
      BY <2>1, <3>1, <3>2, <3>4, <3>5 DEF StrictestDemand
  <2>6. Decision'
    BY <2>1 DEF Decision, TypeOK
  <2> QED
    BY <2>4, <2>5, <2>6
<1>2. CASE Authenticate
  <2>1. TypeOK'
    BY <1>2 DEF Authenticate, TypeOK
  <2>2. StrictestDemand'
    BY <1>2 DEF Authenticate, StrictestDemand, Demand
  <2>3. Decision'
    BY <1>2 DEF Authenticate, Decision, TypeOK, STATUS_NONE, STATUS_USER, STATUS_FAIL
  <2> QED
    BY <2>1, <2>2, <2>3
<1>3. CASE UNCHANGED vars
  BY <1>3 DEF vars, TypeOK, StrictestDemand, Decision, Demand
<1> QED
  BY <1>1, <1>2, <1>3 DEF Next

\* The loop starts with no demand looked at.
LEMMA Initially == Init => IInv
<1> SUFFICES ASSUME Init PROVE IInv
  OBVIOUS
<1>1. TypeOK
  <2>1. cur \in 1..(N + 1)
    BY AuthAssumption DEF Init
  <2>2. asked \in BOOLEAN
    BY Zenon DEF Init
  <2>3. member \in [1..N -> SUBSET (RootLists \cup UserLists)]
    BY AuthAssumption DEF Init
  <2> QED
    BY <2>1, <2>2, <2>3 DEF Init, TypeOK, Statuses
<1>2. StrictestDemand
  BY DEF Init, StrictestDemand
<1>3. Decision
  BY DEF Init, Decision
<1> QED
  BY <1>1, <1>2, <1>3 DEF IInv

\* The invariant gives the properties.
LEMMA Consequences == IInv => AccessJustified /\ NoFreeSwitch /\ FailJustified
<1> SUFFICES ASSUME IInv PROVE AccessJustified /\ NoFreeSwitch /\ FailJustified
  OBVIOUS
<1> USE AuthAssumption DEF IInv, STATUS_NONE, STATUS_USER, STATUS_FAIL
<1>1. \A i \in 1..N : Demand(member[i]) \in {0, 1, 2}
  BY DemandType DEF Statuses
<1>2. AccessJustified
  <2> SUFFICES ASSUME verdict = "granted", NEW i \in 1..N
               PROVE  (member[i] # {} \/ ruid = 0) /\ (~asked => Demand(member[i]) = 0)
    BY DEF AccessJustified
  <2>1. Demand(member[i]) <= status /\ status \in {0, 1}
    BY DEF StrictestDemand, Decision, TypeOK, Statuses
  <2>2. Demand(member[i]) # 2
    BY <1>1, <2>1
  <2>3. member[i] # {} \/ ruid = 0
    BY <2>2 DEF Demand
  <2>4. ~asked => Demand(member[i]) = 0
    BY <1>1, <2>1 DEF Decision
  <2> QED
    BY <2>3, <2>4
<1>3. NoFreeSwitch
  <2> SUFFICES ASSUME verdict = "granted", ruid # uid, ~asked, NEW i \in 1..N,
                      member[i] \cap RootLists = {}
               PROVE  FALSE
    BY DEF NoFreeSwitch, TypeOK
  <2>1. Demand(member[i]) = 0
    BY <1>2 DEF AccessJustified
  <2> QED
    BY <2>1 DEF Demand
<1>4. FailJustified
  <2> SUFFICES ASSUME status = 2
               PROVE  /\ ruid # 0
                      /\ \E i \in 1..(cur - 1) :
                           \/ member[i] = {}
                           \/ member[i] \cap UserLists = {} /\ ruid # uid /\ uid # 0
    BY DEF FailJustified
  <2>1. PICK i \in 1..(cur - 1) : Demand(member[i]) = 2
    BY DEF StrictestDemand
  <2>2. member[i] \subseteq RootLists \cup UserLists
    BY DEF TypeOK
  <2>3. /\ ruid # 0
        /\ member[i] \cap UserLists = {}
        /\ member[i] # {} => ruid # uid
        /\ member[i] \cap RootLists # {} => uid # 0
    BY <2>1 DEF Demand
  <2> QED
    BY <2>2, <2>3
<1> QED
  BY <1>2, <1>3, <1>4

-----------------------------------------------------------------------------
\* The status always is the strictest demand of the chroots looked at, whatever
\* their order.
THEOREM StatusIsStrictest == Spec => []StrictestDemand
<1>1. IInv => StrictestDemand
  BY DEF IInv
<1> QED
  BY <1>1, Initially, Inductive, PTL DEF Spec

\* The loop and the decision keep to their types.
THEOREM AuthTypesHold == Spec => []TypeOK
<1>1. IInv => TypeOK
  BY DEF IInv
<1> QED
  BY <1>1, Initially, Inductive, PTL DEF Spec

\* Nobody gets into a set of chroots that does not let him into each of them,
\* nor past a password any one of them asks for.
THEOREM AccessIsJustified == Spec => []AccessJustified
  BY Initially, Inductive, Consequences, PTL DEF Spec

\* Becoming another user takes authentication wherever one chroot names the
\* caller in no root list.
THEOREM SwitchIsAsked == Spec => []NoFreeSwitch
  BY Initially, Inductive, Consequences, PTL DEF Spec

\* Access is forbidden only to a caller some chroot really keeps out.
THEOREM FailureIsJustified == Spec => []FailJustified
  BY Initially, Inductive, Consequences, PTL DEF Spec

-----------------------------------------------------------------------------
\* The program counters between the prompt's message and its answer.
Waiting == {"arm", "call", "read", "check"}
Asking == {"begin", "prompt"} \cup Waiting

\* What is known at each point of a conversation: which message it is at, ...
TurnInv ==
    /\ at = "idle" => replies = <<>>
    /\ Len(replies) <= Len(messages)
    /\ at \in Asking => Len(replies) < Len(messages) /\ Current \in {"echo", "noecho"}

\* ... how the terminal and the alarm are set, ...
SettingsInv ==
    /\ ~echo => at \in Waiting
    /\ at \in Waiting /\ terminal = "tty" => echo = (Current = "echo")
    /\ due # 0 \/ caught => at \in {"call", "read", "check"}
    /\ blocked => at \in (Asking \ {"begin"}) \/ (at = "error" /\ Due)

\* ... and what the input can be, from the flush on.
InputInv ==
    /\ at = "check" => line # "nothing"
    /\ at \in Waiting /\ terminal = "tty" /\ Current = "noecho" =>
         /\ at # "check" => typed # "shown"
         /\ line # "shown" \/ at # "check"

ConvInv == ConvTypeOK /\ TurnInv /\ SettingsInv /\ InputInv /\ PasswordsHidden

\* A conversation is held only for a demand for authentication.
AuthInv == IInv /\ ConvInv /\ (at # "idle" => status = STATUS_USER /\ cur = N + 1)

\* A turn of the conversation's loop keeps what is known of it.
LEMMA MessageKeeps == ConvInv /\ Message => ConvInv'
<1> SUFFICES ASSUME ConvInv, Message PROVE ConvInv'
  OBVIOUS
<1> USE DEF ConvInv
<1>1. /\ at = "message"
      /\ UNCHANGED <<messages, terminal, echo, blocked, typed, line, now, delay, due, caught,
                     expired, errors>>
      /\ at' \in {"message", "ok", "error", "begin"}
  BY DEF Message
<1>2. /\ messages \in Seq(MessageTypes) /\ Len(messages) \in Nat /\ Len(replies) \in Nat
      /\ replies \in Seq({"none", "shown", "hidden", "eof"})
      /\ Len(replies) <= Len(messages)
  BY DEF ConvTypeOK, TurnInv
<1>3. \/ UNCHANGED replies
      \/ /\ Len(replies) < Len(messages) /\ Current \in {"error", "info"}
         /\ replies' = Append(replies, "none") /\ at' = "message"
  BY <1>1, <1>2 DEF Message, Answered
<1>4. at' = "begin" => /\ Len(replies) < Len(messages) /\ Current \in {"echo", "noecho"}
                       /\ UNCHANGED <<replies, messages>>
  BY <1>1, <1>2 DEF Message, Answered
<1>5. replies' \in Seq({"none", "shown", "hidden", "eof"})
  BY <1>2, <1>3
<1>6. ConvTypeOK'
  BY <1>1, <1>5 DEF ConvTypeOK
<1>7. TurnInv'
  <2>1. Len(replies') <= Len(messages')
    BY <1>1, <1>2, <1>3
  <2>2. at' \in Asking => at' = "begin"
    BY <1>1 DEF Asking, Waiting
  <2> QED
    BY <1>1, <1>4, <2>1, <2>2 DEF TurnInv, Current
<1>8. SettingsInv'
  BY <1>1 DEF SettingsInv, Waiting, Asking, Due, Current
<1>9. InputInv'
  BY <1>1 DEF InputInv, Waiting, Current
<1>10. PasswordsHidden'
  <2>1. CASE UNCHANGED replies
    BY <1>1, <2>1 DEF PasswordsHidden
  <2>2. CASE replies' = Append(replies, "none")
    <3>1. \A i \in 1..Len(replies') : \/ i \in 1..Len(replies) /\ replies'[i] = replies[i]
                                      \/ replies'[i] = "none"
      BY <1>2, <2>2
    <3> QED
      BY <1>1, <3>1 DEF PasswordsHidden
  <2> QED
    BY <1>3, <2>1, <2>2
<1> QED
  BY <1>6, <1>7, <1>8, <1>9, <1>10

\* The deadline ahead is a natural number of seconds away.
LEMMA DelayIsNatural == ConvTypeOK /\ ~Due => get_delay \in Nat
<1> SUFFICES ASSUME ConvTypeOK, ~Due PROVE get_delay \in Nat
  OBVIOUS
<1>1. now \in Nat /\ Warn \in Nat /\ Fatal \in Nat
  BY ConvAssumption DEF ConvTypeOK
<1> QED
  BY <1>1 DEF get_delay, Due

\* A step that leaves the messages and the replies alone keeps the turn and
\* the passwords.
LEMMA SameTurn ==
    ASSUME ConvInv, UNCHANGED <<messages, replies, terminal>>, at # "idle", at' # "idle",
           at \in Asking \/ at' \notin Asking
    PROVE  TurnInv' /\ PasswordsHidden'
  BY DEF ConvInv, TurnInv, PasswordsHidden, Current

\* read_string's entry keeps it.
LEMMA BeginKeeps == ConvInv /\ Begin => ConvInv'
<1> SUFFICES ASSUME ConvInv, Begin PROVE ConvInv'
  OBVIOUS
<1>1. /\ at = "begin" /\ at' \in {"prompt", "error"}
      /\ UNCHANGED <<messages, terminal, echo, typed, line, replies, now, due, caught, errors>>
  BY DEF Begin, GetDelay
<1>2. ConvTypeOK'
  <2>1. delay' \in Nat
    BY DelayIsNatural DEF Begin, GetDelay, ConvInv, ConvTypeOK
  <2>2. blocked' \in BOOLEAN
    BY DEF Begin, ConvInv, ConvTypeOK
  <2>3. expired' \in BOOLEAN
    BY DEF Begin, GetDelay, ConvInv, ConvTypeOK
  <2> QED
    BY <1>1, <2>1, <2>2, <2>3 DEF ConvInv, ConvTypeOK
<1>3. TurnInv' /\ PasswordsHidden'
  BY <1>1, SameTurn DEF Asking
<1>4. SettingsInv'
  <2>1. blocked' => at' = "prompt" \/ (at' = "error" /\ Due)
    BY <1>1 DEF Begin, GetDelay, ConvInv, SettingsInv, Asking, Waiting
  <2>2. Due' = Due
    BY <1>1 DEF Due
  <2> QED
    BY <1>1, <2>1, <2>2 DEF ConvInv, SettingsInv, Asking, Waiting
<1>5. InputInv'
  BY <1>1 DEF InputInv, Waiting
<1> QED
  BY <1>2, <1>3, <1>4, <1>5 DEF ConvInv

\* Setting the terminal keeps it: what was typed under the echo is gone.
LEMMA PromptKeeps == ConvInv /\ Prompt => ConvInv'
<1> SUFFICES ASSUME ConvInv, Prompt PROVE ConvInv'
  OBVIOUS
<1>1. /\ at = "prompt" /\ at' = "arm"
      /\ UNCHANGED <<messages, terminal, blocked, line, replies, now, delay, due, caught,
                     expired, errors>>
      /\ terminal = "tty" => echo' = (Current = "echo") /\ typed' = "nothing"
      /\ terminal # "tty" => UNCHANGED <<echo, typed>>
  BY DEF Prompt
<1>2. Current' = Current
  BY <1>1 DEF Current
<1>3. echo' \in BOOLEAN /\ typed' \in {"nothing", "shown", "hidden", "eof"}
  BY <1>1 DEF ConvInv, ConvTypeOK
<1>4. ConvTypeOK'
  BY <1>1, <1>3 DEF ConvInv, ConvTypeOK
<1>5. TurnInv' /\ PasswordsHidden'
  BY <1>1, SameTurn DEF Asking, Waiting
<1>6. SettingsInv'
  BY <1>1, <1>2 DEF ConvInv, SettingsInv, Asking, Waiting
<1>7. InputInv'
  BY <1>1, <1>2 DEF InputInv
<1> QED
  BY <1>4, <1>5, <1>6, <1>7 DEF ConvInv

\* The alarm, a failed or a finished read keep it.
LEMMA ReadingKeeps == ConvInv /\ (Arm \/ Call \/ Read) => ConvInv'
<1> SUFFICES ASSUME ConvInv, Arm \/ Call \/ Read PROVE ConvInv'
  OBVIOUS
<1>1. /\ at \in {"arm", "call", "read"} /\ at' \in {"call", "read", "check"}
      /\ UNCHANGED <<messages, terminal, echo, blocked, replies, now, delay, expired>>
  BY DEF Arm, Call, Read
<1>2. Current' = Current /\ Due' = Due
  BY <1>1 DEF Current, Due
<1>3. ConvTypeOK'
  <2>1. due' \in Nat
    <3>1. now + delay \in Nat
      BY DEF ConvInv, ConvTypeOK
    <3> QED
      BY <3>1 DEF Arm, Call, Read, ConvInv, ConvTypeOK
  <2>4. caught' \in BOOLEAN
    BY DEF Arm, Call, Read, ConvInv, ConvTypeOK
  <2>2. typed' \in {"nothing", "shown", "hidden", "eof"} /\ line' \in Lines
    BY DEF Arm, Call, Read, ConvInv, ConvTypeOK, Lines
  <2>3. errors' \in 0..MaxErrors
    BY ConvAssumption DEF Arm, Call, Read, ConvInv, ConvTypeOK
  <2> QED
    BY <1>1, <2>1, <2>2, <2>3, <2>4 DEF ConvInv, ConvTypeOK
<1>4. TurnInv' /\ PasswordsHidden'
  BY <1>1, SameTurn DEF Asking, Waiting
<1>5. SettingsInv'
  BY <1>1, <1>2 DEF ConvInv, SettingsInv, Asking, Waiting
<1>6. InputInv'
  BY <1>1, <1>2 DEF ConvInv, InputInv, Waiting, Arm, Call, Read
<1> QED
  BY <1>3, <1>4, <1>5, <1>6 DEF ConvInv

\* What follows read keeps it: the answer that is stored was typed with the
\* echo the prompt asked for.
LEMMA CheckKeeps == ConvInv /\ Check => ConvInv'
<1> SUFFICES ASSUME ConvInv, Check PROVE ConvInv'
  OBVIOUS
<1>1. /\ at = "check" /\ at' \in {"prompt", "error", "message"}
      /\ echo' = TRUE /\ line' = "nothing" /\ due' = 0 /\ caught' = FALSE
      /\ UNCHANGED <<messages, terminal, typed, now, errors>>
      /\ at' = "error" => Due
      /\ UNCHANGED blocked \/ blocked' = FALSE
      /\ at' = "message" => blocked' = FALSE
  BY DEF Check, GetDelay
<1>2. \/ UNCHANGED replies /\ at' # "message"
      \/ line # "error" /\ at' = "message" /\ replies' = Append(replies, line)
  BY DEF Check, GetDelay
<1>3. Due' = Due
  BY <1>1 DEF Due
<1>4. /\ replies \in Seq({"none", "shown", "hidden", "eof"})
      /\ messages \in Seq(MessageTypes) /\ Len(messages) \in Nat /\ Len(replies) \in Nat
      /\ Len(replies) < Len(messages)
  BY <1>1 DEF ConvInv, ConvTypeOK, TurnInv, Asking, Waiting
<1>5. line \in {"shown", "hidden", "eof", "error"}
  BY <1>1 DEF ConvInv, ConvTypeOK, InputInv, Lines
<1>6. ConvTypeOK'
  <2>1. delay' \in Nat
    BY DelayIsNatural DEF Check, GetDelay, ConvInv, ConvTypeOK
  <2>2. replies' \in Seq({"none", "shown", "hidden", "eof"})
    BY <1>2, <1>4, <1>5
  <2>3. blocked' \in BOOLEAN /\ expired' \in BOOLEAN
    BY DEF Check, GetDelay, ConvInv, ConvTypeOK
  <2>4. caught' \in BOOLEAN /\ echo' \in BOOLEAN
    BY <1>1, Zenon
  <2> QED
    BY <1>1, <2>1, <2>2, <2>3, <2>4 DEF ConvInv, ConvTypeOK, Lines
<1>7. TurnInv'
  <2>1. CASE UNCHANGED replies
    BY <1>1, <2>1 DEF ConvInv, TurnInv, Asking, Waiting, Current
  <2>2. CASE at' = "message" /\ replies' = Append(replies, line)
    BY <1>1, <1>4, <2>2 DEF TurnInv, Asking, Waiting
  <2> QED
    BY <1>2, <2>1, <2>2
<1>8. SettingsInv'
  BY <1>1, <1>3 DEF ConvInv, SettingsInv, Asking, Waiting
<1>9. InputInv'
  BY <1>1 DEF InputInv, Waiting
<1>10. PasswordsHidden'
  <2>1. CASE UNCHANGED replies
    BY <1>1, <2>1 DEF ConvInv, PasswordsHidden
  <2>2. CASE replies' = Append(replies, line)
    <3>1. \A i \in 1..Len(replies') : \/ i \in 1..Len(replies) /\ replies'[i] = replies[i]
                                      \/ i = Len(replies) + 1 /\ replies'[i] = line
      BY <1>4, <2>2
    <3>2. terminal = "tty" /\ messages[Len(replies) + 1] = "noecho" => line # "shown"
      BY <1>1 DEF ConvInv, InputInv, Waiting, Current
    <3> QED
      BY <1>1, <3>1, <3>2 DEF ConvInv, PasswordsHidden
  <2> QED
    BY <1>2, <2>1, <2>2
<1> QED
  BY <1>6, <1>7, <1>8, <1>9, <1>10 DEF ConvInv

\* The signal, the user and the clock keep it, whenever they come.
LEMMA OutsideKeeps == ConvInv /\ at # "idle" /\ (SigAlrm \/ Type \/ Tick) => ConvInv'
<1> SUFFICES ASSUME ConvInv, at # "idle", SigAlrm \/ Type \/ Tick PROVE ConvInv'
  OBVIOUS
<1>1. UNCHANGED <<messages, terminal, echo, blocked, replies, delay, caught, errors>>
  BY DEF SigAlrm, Type, Tick
<1>2. Current' = Current
  BY <1>1 DEF Current
<1>3. \/ UNCHANGED at
      \/ at = "read" /\ at' = "check" /\ line' = "error"
  BY DEF SigAlrm, Type, Tick
<1>4. at = "error" => Due' = Due
  BY DEF SigAlrm, Type, Tick, Due
<1>5. ConvTypeOK'
  <2>1. now' \in 1..MaxTime
    BY ConvAssumption DEF SigAlrm, Type, Tick, ConvInv, ConvTypeOK
  <2>2. expired' \in BOOLEAN
    BY DEF SigAlrm, Type, Tick, ConvInv, ConvTypeOK
  <2>3. due' \in Nat
    BY DEF SigAlrm, Type, Tick, ConvInv, ConvTypeOK
  <2>4. typed' \in {"nothing", "shown", "hidden", "eof"} /\ line' \in Lines
    BY DEF SigAlrm, Type, Tick, ConvInv, ConvTypeOK, Lines
  <2> QED
    BY <1>1, <1>3, <2>1, <2>2, <2>3, <2>4 DEF ConvInv, ConvTypeOK
<1>6. TurnInv' /\ PasswordsHidden'
  BY <1>1, <1>3, SameTurn DEF Asking, Waiting
<1>7. SettingsInv'
  <2>1. due' # 0 => due # 0
    BY DEF SigAlrm, Type, Tick
  <2> QED
    BY <1>1, <1>2, <1>3, <1>4, <2>1 DEF ConvInv, SettingsInv, Asking, Waiting
<1>8. InputInv'
  <2>1. UNCHANGED line \/ line' = "error"
    BY DEF SigAlrm, Type, Tick
  <2>2. at \in Waiting /\ terminal = "tty" /\ Current = "noecho" => ~echo
    BY DEF ConvInv, SettingsInv
  <2>3. ~echo => typed' = typed \/ typed' # "shown"
    BY DEF SigAlrm, Type, Tick
  <2> QED
    BY <1>1, <1>2, <1>3, <2>1, <2>2, <2>3 DEF ConvInv, InputInv, Waiting
<1> QED
  BY <1>5, <1>6, <1>7, <1>8 DEF ConvInv

\* PAM's call starts the conversation with no reply.
LEMMA HookKeeps == ConvInv /\ Hook => ConvInv'
<1> SUFFICES ASSUME ConvInv, Hook PROVE ConvInv'
  OBVIOUS
<1>1. /\ at = "idle" /\ at' = "message" /\ replies = <<>> /\ messages' \in Seq(MessageTypes)
      /\ UNCHANGED <<echo, blocked, typed, line, replies, now, delay, due, caught,
                     expired, errors>>
      /\ terminal' \in Terminals
  BY ConvAssumption DEF Hook, ConvInv, TurnInv
<1>2. Len(replies') = 0 /\ Len(messages') \in Nat
  BY <1>1
<1>3. ConvTypeOK'
  BY <1>1 DEF ConvInv, ConvTypeOK
<1>4. TurnInv' /\ PasswordsHidden'
  BY <1>1, <1>2 DEF TurnInv, PasswordsHidden, Asking, Waiting
<1>5. SettingsInv' /\ InputInv'
  BY <1>1 DEF ConvInv, SettingsInv, InputInv, Asking, Waiting
<1> QED
  BY <1>3, <1>4, <1>5 DEF ConvInv

\* No conversation, nothing set.
LEMMA ConvInitially == ConvInit => ConvInv
<1> SUFFICES ASSUME ConvInit PROVE ConvInv
  OBVIOUS
<1>1. ConvTypeOK
  <2>1. echo \in BOOLEAN /\ blocked \in BOOLEAN /\ caught \in BOOLEAN /\ expired \in BOOLEAN
    BY Zenon DEF ConvInit
  <2>2. now \in 1..MaxTime /\ errors \in 0..MaxErrors
    BY ConvAssumption DEF ConvInit
  <2> QED
    BY <2>1, <2>2 DEF ConvInit, ConvTypeOK, Terminals, Lines
<1>2. TurnInv /\ PasswordsHidden
  BY DEF ConvInit, TurnInv, PasswordsHidden, Asking, Waiting
<1>3. SettingsInv /\ InputInv
  BY DEF ConvInit, SettingsInv, InputInv, Asking, Waiting
<1> QED
  BY <1>1, <1>2, <1>3 DEF ConvInv

\* Every step of the authentication is a step of the decision or leaves it
\* alone, and keeps the invariant.
LEMMA AuthInductive == AuthInv /\ [AuthNext]_authVars => AuthInv' /\ [Next]_vars
<1> SUFFICES ASSUME AuthInv, [AuthNext]_authVars PROVE AuthInv' /\ [Next]_vars
  OBVIOUS
<1>1. [Next]_vars => IInv'
  BY Inductive DEF AuthInv
<1>2. UNCHANGED convVars => ConvInv'
  BY DEF AuthInv, ConvInv, ConvTypeOK, TurnInv, SettingsInv, InputInv, PasswordsHidden, Current,
     Due, convVars
<1>3. CASE CheckStep
  <2>1. CheckChroot /\ UNCHANGED convVars
    BY <1>3 DEF CheckStep
  <2>2. at' = "idle"
    BY <2>1, AuthAssumption DEF CheckChroot, convVars, AuthInv, IInv, TypeOK
  <2> QED
    BY <1>1, <1>2, <2>1, <2>2 DEF AuthInv, Next
<1>4. CASE AuthenticateNull \/ AuthenticatePam \/ FinishConversation
  <2>1. UNCHANGED <<status, cur, at, convVars>>
    BY <1>4 DEF AuthenticateNull, AuthenticatePam, FinishConversation, Accept, Refuse, convVars
  <2>2. asked = FALSE
    BY <1>4 DEF AuthenticateNull, AuthenticatePam, FinishConversation, Ready, AuthInv, IInv,
       Decision, TypeOK
  <2>3. Authenticate
    BY <1>4, <2>2 DEF AuthenticateNull, AuthenticatePam, FinishConversation, Accept, Refuse,
       Authenticate, Ready, AuthInv
  <2> QED
    BY <1>1, <1>2, <2>1, <2>3 DEF AuthInv, Next
<1>5. CASE StartConversation
  <2>1. Hook /\ UNCHANGED vars /\ status = STATUS_USER /\ cur = N + 1
    BY <1>5 DEF StartConversation, Ready
  <2> QED
    BY <1>1, <2>1, HookKeeps DEF AuthInv, vars
<1>6. CASE Converse
  <2>1. UNCHANGED vars /\ at # "idle"
    BY <1>6 DEF Converse
  <2>2. ConvInv'
    BY <1>6, MessageKeeps, BeginKeeps, PromptKeeps, ReadingKeeps, CheckKeeps, OutsideKeeps
       DEF Converse, ConvStep, AuthInv
  <2> QED
    BY <1>1, <2>1, <2>2 DEF AuthInv, vars
<1>7. CASE UNCHANGED authVars
  BY <1>1, <1>2, <1>7 DEF authVars, AuthInv, vars, convVars
<1> QED
  BY <1>3, <1>4, <1>5, <1>6, <1>7 DEF AuthNext, Over

\* It holds before the first chroot is looked at.
LEMMA AuthInitially == AuthInit => AuthInv
  BY Initially, ConvInitially DEF AuthInit, AuthInv, ConvInit

-----------------------------------------------------------------------------
\* auth_pam with its conversation, and auth_null, decide exactly as
\* auth::authenticate promises: a conversation that fails, times out or is
\* broken off never grants what the status forbids, and one that is granted was
\* held for a demand for a password.
THEOREM AuthenticationImplementsStatus == AuthSpec => Spec
<1>1. AuthInit => Init
  BY DEF AuthInit
<1> QED
  BY <1>1, AuthInitially, AuthInductive, PTL DEF AuthSpec, Spec

\* So nobody is let in, with a conversation or without, who should not be.
THEOREM ConversationsAreJustified == AuthSpec => [](AccessJustified /\ NoFreeSwitch)
  BY AuthenticationImplementsStatus, AccessIsJustified, SwitchIsAsked, PTL

\* However a conversation ends, and between any two prompts of it, the terminal
\* echoes, no alarm is pending, and SIGINT and SIGTSTP are delivered unless the
\* deadline ended it.
THEOREM TerminalIsRestored == AuthSpec => []TerminalRestored
<1>1. AuthInv => TerminalRestored
  BY DEF AuthInv, ConvInv, ConvTypeOK, SettingsInv, TerminalRestored, Asking, Waiting
<1> QED
  BY <1>1, AuthInitially, AuthInductive, PTL DEF AuthSpec

\* No answer to a prompt without echo is a line the terminal showed.
THEOREM PasswordsAreHidden == AuthSpec => []PasswordsHidden
<1>1. AuthInv => PasswordsHidden
  BY DEF AuthInv, ConvInv
<1> QED
  BY <1>1, AuthInitially, AuthInductive, PTL DEF AuthSpec
=============================================================================
