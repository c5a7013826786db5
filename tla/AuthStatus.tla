----------------------------- MODULE AuthStatus -----------------------------
(***************************************************************************)
(* How strictly a user is authenticated for the chroots on one command     *)
(* line: session::get_auth_status, which goes over the chroots and keeps   *)
(* the strictest demand, and auth_pam::authenticate, which acts on it.     *)
(***************************************************************************)
EXTENDS Naturals

CONSTANTS
    N,             \* how many chroots are selected
    Uids,          \* user ids; 0 is root
    Memberships    \* which lists of one chroot may name the caller together

\* The enumerators of auth::status, in their order.
STATUS_NONE == 0
STATUS_USER == 1
STATUS_FAIL == 2
Statuses == {STATUS_NONE, STATUS_USER, STATUS_FAIL}

\* The lists of a chroot definition that may name the calling user.
RootLists == {"root-users", "root-groups"}
UserLists == {"users", "groups"}

ASSUME AuthAssumption ==
    /\ N \in Nat \ {0} /\ 0 \in Uids
    /\ Memberships \subseteq SUBSET (RootLists \cup UserLists)

VARIABLES
    ruid, uid,   \* the calling user and the user to become
    member,      \* [1..N -> SUBSET lists]: the lists of each chroot that name the caller
    cur,         \* the loop variable of get_auth_status
    status,
    asked,       \* the caller was made to authenticate, and did
    verdict      \* "none" until authenticate returns or throws

vars == <<ruid, uid, member, cur, status, asked, verdict>>

TypeOK ==
    /\ ruid \in Uids /\ uid \in Uids
    /\ member \in [1..N -> SUBSET (RootLists \cup UserLists)]
    /\ cur \in 1..(N + 1)
    /\ status \in Statuses
    /\ asked \in BOOLEAN
    /\ verdict \in {"none", "granted", "refused"}

\* The stricter of two demands.
change_auth(oldauth, newauth) == IF newauth > oldauth THEN newauth ELSE oldauth

\* Mutant of Demand: a changing uid is not looked at.
DemandAnyUid(m) ==
    IF m # {} THEN STATUS_NONE ELSE IF ruid = 0 THEN STATUS_USER ELSE STATUS_FAIL

\* What access to a chroot whose lists m name the caller demands: nothing if
\* the uid is not changing or a root list allows becoming root.
Demand(m) ==
    IF (m # {} /\ ruid = uid) \/ (m \cap RootLists # {} /\ uid = 0) THEN STATUS_NONE
    ELSE IF m \cap UserLists # {} \/ ruid = 0 THEN STATUS_USER
    ELSE STATUS_FAIL

get_chroot_auth_status(stat, m) == change_auth(stat, Demand(m))

Init ==
    /\ ruid \in Uids /\ uid \in Uids
    /\ member \in [1..N -> Memberships]
    /\ cur = 1 /\ status = STATUS_NONE
    /\ asked = FALSE /\ verdict = "none"

CheckChroot ==
    /\ cur <= N
    /\ status' = change_auth(status, get_chroot_auth_status(status, member[cur]))
    /\ cur' = cur + 1
    /\ UNCHANGED <<ruid, uid, member, asked, verdict>>

\* Any of the other PAM calls may fail, whatever the status.
Authenticate ==
    /\ cur = N + 1 /\ verdict = "none"
    /\ \/ status = STATUS_NONE /\ verdict' = "granted" /\ UNCHANGED asked
       \/ status = STATUS_USER /\ verdict' = "granted" /\ asked' = TRUE
       \/ verdict' = "refused" /\ UNCHANGED asked
    /\ UNCHANGED <<ruid, uid, member, cur, status>>

Next == CheckChroot \/ Authenticate

Spec == Init /\ [][Next]_vars

(***************************************************************************)
(* Properties.                                                             *)
(***************************************************************************)
\* The chroots looked at so far decide the status by the strictest of them,
\* not by their order on the command line: it meets every demand and is one of
\* them.
StrictestDemand ==
    /\ \A i \in 1..(cur - 1) : Demand(member[i]) <= status
    /\ status = STATUS_NONE \/ \E i \in 1..(cur - 1) : Demand(member[i]) = status

\* Whoever is let in may use every chroot selected: each names the caller in
\* one of its lists or the caller is root, and without a password each of them
\* would have asked for none, so that a lenient chroot never opens a strict one
\* selected with it.
AccessJustified ==
    verdict = "granted" =>
      \A i \in 1..N : /\ member[i] # {} \/ ruid = 0
                      /\ ~asked => Demand(member[i]) = STATUS_NONE

\* "Auth required if not in root group": nobody becomes another user without
\* having been asked, unless each of the chroots selected names the caller in a
\* list of those who may become root.
NoFreeSwitch ==
    verdict = "granted" /\ ruid # uid
      /\ (\E i \in 1..N : member[i] \cap RootLists = {}) => asked

\* No permitted access is denied by the rules themselves: the status forbids
\* access only to a caller other than root, because of some chroot that names
\* the caller in no list at all, or in a root list only although the user to
\* become is neither the caller nor root.
FailJustified ==
    status = STATUS_FAIL =>
      /\ ruid # 0
      /\ \E i \in 1..(cur - 1) :
           \/ member[i] = {}
           \/ member[i] \cap UserLists = {} /\ ruid # uid /\ uid # 0
=============================================================================
