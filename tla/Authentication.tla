--------------------------- MODULE Authentication ---------------------------
(***************************************************************************)
(* The authentication of one invocation: the demand that AuthStatus works  *)
(* out, met through a conversation on the terminal (auth_pam) or, in a     *)
(* build without PAM, by the rules of auth_null.                           *)
(***************************************************************************)
EXTENDS AuthStatus, PamConv

VARIABLE backend    \* "pam" or "null"

authVars == <<vars, convVars, backend>>

AuthInit == Init /\ ConvInit /\ backend \in {"pam", "null"}

CheckStep == CheckChroot /\ UNCHANGED <<convVars, backend>>

Refuse ==
    /\ verdict' = "refused"
    /\ UNCHANGED <<ruid, uid, member, cur, status, asked, convVars, backend>>

Accept(a) ==
    /\ verdict' = "granted" /\ asked' = a
    /\ UNCHANGED <<ruid, uid, member, cur, status, convVars, backend>>

Ready == cur = N + 1 /\ verdict = "none"

\* auth_null::authenticate: only root passes a demand for authentication.
AuthenticateNull ==
    /\ backend = "null" /\ Ready
    /\ \/ status = STATUS_NONE /\ Accept(FALSE)
       \/ status = STATUS_USER /\ ruid = 0 /\ Accept(TRUE)
       \/ status = STATUS_USER /\ ruid # 0 /\ Refuse
       \/ status = STATUS_FAIL /\ Refuse

\* auth_pam::authenticate without a conversation: any pam_set_item may fail, and
\* the modules of pam_authenticate may be content without asking anything.
AuthenticatePam ==
    /\ backend = "pam" /\ Ready /\ at = "idle"
    /\ \/ status = STATUS_NONE /\ Accept(FALSE)
       \/ status = STATUS_USER /\ Accept(TRUE)
       \/ Refuse

\* pam_authenticate calls back for a conversation (one at most here), ...
StartConversation ==
    /\ backend = "pam" /\ Ready /\ status = STATUS_USER
    /\ Hook /\ UNCHANGED <<vars, backend>>

\* Mutant of FinishConversation: PAM_CONV_ERR is not looked at.
FinishConversationAnyway ==
    /\ backend = "pam" /\ Ready /\ at \in {"ok", "error"}
    /\ \/ Accept(at = "ok")
       \/ Refuse

\* ... and judges the answers; it fails without them.
FinishConversation ==
    /\ backend = "pam" /\ Ready /\ at \in {"ok", "error"}
    /\ \/ at = "ok" /\ Accept(TRUE)
       \/ Refuse

Converse ==
    /\ at # "idle"
    /\ ConvStep \/ SigAlrm \/ Type \/ Tick
    /\ UNCHANGED <<vars, backend>>

Over == verdict # "none" /\ UNCHANGED authVars

AuthNext ==
    \/ CheckStep \/ AuthenticateNull \/ AuthenticatePam
    \/ StartConversation \/ Converse \/ FinishConversation \/ Over

AuthSpec == AuthInit /\ [][AuthNext]_authVars

ProgramStep == CheckStep \/ AuthenticateNull \/ AuthenticatePam \/ StartConversation
               \/ (ConvStep /\ UNCHANGED <<vars, backend>>) \/ FinishConversation

\* The program runs, time passes and a signal that is due arrives; the user
\* answers every prompt sooner or later, or hangs up.
AuthFair ==
    /\ WF_authVars(ProgramStep)
    /\ WF_authVars(at # "idle" /\ Tick /\ UNCHANGED <<vars, backend>>)
    /\ WF_authVars(at # "idle" /\ SigAlrm /\ UNCHANGED <<vars, backend>>)
    /\ WF_authVars(at # "idle" /\ Type /\ UNCHANGED <<vars, backend>>)

LiveAuthSpec == AuthSpec /\ AuthFair

(***************************************************************************)
(* Properties.                                                             *)
(***************************************************************************)
\* Every invocation is decided, if its user answers: neither the deadlines nor
\* discarded input keep it asking for ever.
Decided == <>(verdict # "none")
=============================================================================
