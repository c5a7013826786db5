---------------------------- MODULE ChrootConfig ----------------------------
(***************************************************************************)
(* chroot_config: the chroot definitions and session files a process has   *)
(* loaded, the names and aliases they are found by, and what a name on the *)
(* command line selects.  Files come in the order the directory is read    *)
(* in, so that any definition may follow any other; session files are      *)
(* loaded last.  A name is <<stem, number of "-source" suffixes>>.         *)
(***************************************************************************)
EXTENDS Naturals, Sequences

CONSTANTS
    Names,       \* the names and aliases used in the files
    MaxGroups    \* bound: how many definitions are loaded

ASSUME ConfigAssumption == (\A n \in Names : n \in STRING \X Nat) /\ MaxGroups \in Nat

Namespaces == {"chroot", "session", "source"}
AllNames == STRING \X Nat
FullNames == Namespaces \X AllNames

\* A plain chroot has no sessions; a clonable one has; one with source-clone
\* has a source chroot besides.
Kinds == {"plain", "clonable", "source-clonable"}
Chroots == [ns: Namespaces, name: AllNames, kind: Kinds, aliases: Seq(AllNames)]

Full(c) == <<c.ns, c.name>>

VARIABLES
    pc,         \* "load" between two definitions, "aliases" in the loop over aliases
    chroots,    \* the chroots of all namespaces
    aliases,    \* full name -> full name
    cur, rest,  \* the chroot being added and its aliases still to do
    warned,     \* the aliases a warning was logged for
    groups      \* how many definitions were loaded

vars == <<pc, chroots, aliases, cur, rest, warned, groups>>

TypeOK ==
    /\ pc \in {"load", "aliases", "failed", "loaded"}
    /\ chroots \subseteq Chroots
    /\ DOMAIN aliases \subseteq FullNames
    /\ aliases \in [DOMAIN aliases -> FullNames]
    /\ pc = "aliases" => cur \in Chroots
    /\ rest \in Seq(AllNames)
    /\ warned \subseteq FullNames \X AllNames
    /\ groups \in 0..MaxGroups

\* std::map::insert: an entry that exists is left as it is.
Insert(map, key, value) ==
    [k \in DOMAIN map \cup {key} |-> IF k \in DOMAIN map THEN map[k] ELSE value]

InNamespace(ns, name) == \E c \in chroots : c.ns = ns /\ c.name = name

Init ==
    /\ pc = "load" /\ chroots = {} /\ aliases = [k \in {} |-> k]
    /\ cur = [ns |-> "chroot"] /\ rest = <<>> /\ warned = {} /\ groups = 0

\* Mutant of Taken: only chroots count, not aliases.
TakenByChroot(c) == InNamespace(c.ns, c.name)

\* The name is that of a chroot or of an alias in its namespace.
Taken(c) == InNamespace(c.ns, c.name) \/ Full(c) \in DOMAIN aliases

\* Mutant of ProxySession: every chroot gets one.
ProxySessionForAll(c, map) ==
    IF c.ns = "chroot" THEN Insert(map, <<"session", c.name>>, Full(c)) ELSE map

\* "If a plain chroot, add a proxy session so that --run-session works."
ProxySession(c, map) ==
    IF c.ns = "chroot" /\ c.kind = "plain"
      THEN Insert(map, <<"session", c.name>>, Full(c)) ELSE map

\* chroot_config::add up to the loop over the aliases.  A duplicate name is an
\* exception that ends the loading.
Add(c) ==
    /\ cur' = c /\ rest' = c.aliases
    /\ \/ /\ Taken(c)
          /\ pc' = "failed"
          /\ UNCHANGED <<chroots, aliases>>
       \/ /\ ~Taken(c)
          /\ pc' = "aliases"
          /\ chroots' = chroots \cup {c}
          /\ aliases' = ProxySession(c, Insert(aliases, Full(c), Full(c)))

\* load_keyfile: the next definition, in the namespace of its file.
LoadGroup(c) ==
    /\ pc = "load" /\ groups < MaxGroups
    /\ c.ns = "chroot" => ~\E d \in chroots : d.ns = "session"
    /\ Add(c)
    /\ groups' = groups + 1
    /\ UNCHANGED warned

\* "-source compatibility alias" of the aliases of a source chroot.
SourceName(name) == <<name[1], name[2] + 1>>

SourceAlias(c, name, map) ==
    IF c.ns = "source"
      THEN Insert(map, <<"chroot", SourceName(name)>>, Full(c)) ELSE map

\* Mutant of AddAlias: no warning.
AddAliasQuietly ==
    /\ pc = "aliases" /\ rest # <<>>
    /\ aliases' = SourceAlias(cur, Head(rest),
                              Insert(aliases, <<cur.ns, Head(rest)>>, Full(cur)))
    /\ rest' = Tail(rest)
    /\ UNCHANGED <<pc, chroots, cur, warned, groups>>

\* One turn of the loop.  The alias that is taken is looked for without its
\* namespace to find out whose it is, and so is never found: every taken alias
\* is warned about.
AddAlias ==
    /\ pc = "aliases" /\ rest # <<>>
    /\ LET key == <<cur.ns, Head(rest)>>
       IN /\ aliases' = SourceAlias(cur, Head(rest), Insert(aliases, key, Full(cur)))
          /\ warned' = IF key \in DOMAIN aliases
                         THEN warned \cup {<<Full(cur), Head(rest)>>} ELSE warned
    /\ rest' = Tail(rest)
    /\ UNCHANGED <<pc, chroots, cur, groups>>

\* The loop is done; load_keyfile then adds the source chroot.
SourceChroot(c) == [ns |-> "source", name |-> c.name, kind |-> "clonable", aliases |-> c.aliases]

AliasesDone ==
    /\ pc = "aliases" /\ rest = <<>>
    /\ IF cur.kind = "source-clonable"
         THEN Add(SourceChroot(cur))
         ELSE pc' = "load" /\ UNCHANGED <<chroots, aliases, cur, rest>>
    /\ UNCHANGED <<warned, groups>>

Loaded ==
    /\ pc = "load"
    /\ pc' = "loaded"
    /\ UNCHANGED <<chroots, aliases, cur, rest, warned, groups>>

\* What the files may define; a session file has no aliases and no source.
Definitions ==
    [ns: {"chroot"}, name: Names, kind: Kinds,
     aliases: UNION {[1..n -> Names] : n \in 0..2}]
    \cup [ns: {"session"}, name: Names, kind: {"clonable"}, aliases: {<<>>}]

Next ==
    \/ \E c \in Definitions : LoadGroup(c)
    \/ AddAlias \/ AliasesDone \/ Loaded

Spec == Init /\ [][Next]_vars

(***************************************************************************)
(* Looking a name up: find_alias with a namespace hint, where the name may *)
(* bring its own namespace ("" if not).  The result is a full name.        *)
(***************************************************************************)
NotFound == <<"none", <<"none", 0>>>>

get_namespace(hint, ns) == IF ns # "" THEN ns ELSE IF hint # "" THEN hint ELSE "chroot"

find_alias(hint, ns, name) ==
    LET key == <<get_namespace(hint, ns), name>>
        full == IF key \in DOMAIN aliases THEN aliases[key] ELSE key
    IN IF InNamespace(full[1], full[2]) THEN full ELSE NotFound

(***************************************************************************)
(* Properties.                                                             *)
(***************************************************************************)
\* Every chroot is found by its own full name, whatever aliases other
\* definitions claim, before or after it.
FoundByOwnName ==
    \A c \in chroots : \A hint \in Namespaces \cup {""} :
      find_alias(hint, c.ns, c.name) = Full(c)

\* No alias leads nowhere: validate_chroots accepts every alias that
\* get_alias_list returns for the --all options.
AliasesLead == \A key \in DOMAIN aliases : find_alias("", key[1], key[2]) = aliases[key]

\* One of the aliases of source chroot c with "-source" appended.
IsSourceName(c, key) ==
    c.ns = "source" /\ \E i \in 1..Len(c.aliases) : key = <<"chroot", SourceName(c.aliases[i])>>

\* A name leads out of its namespace in two cases only: a plain chroot stands
\* in for the session of its name, and a source chroot for an alias of its own
\* with "-source" appended.
NamespacesKept ==
    \A key \in DOMAIN aliases : LET full == aliases[key] IN
      \/ full[1] = key[1]
      \/ /\ key[1] = "session" /\ full = <<"chroot", key[2]>>
         /\ \E c \in chroots : Full(c) = full /\ c.kind = "plain"
      \/ \E c \in chroots : Full(c) = full /\ IsSourceName(c, key)

\* After the aliases of a chroot are done, each leads to this chroot or was
\* warned about.
AliasesHonoured ==
    \A c \in chroots : \A i \in 1..Len(c.aliases) :
      \/ c = cur /\ pc = "aliases"
      \/ aliases[<<c.ns, c.aliases[i]>>] = Full(c)
      \/ <<Full(c), c.aliases[i]>> \in warned

\* What a name leads to never changes while more files are loaded.
NamesStable ==
    [][ \A key \in DOMAIN aliases :
          key \in DOMAIN aliases' /\ aliases'[key] = aliases[key] ]_vars
=============================================================================
