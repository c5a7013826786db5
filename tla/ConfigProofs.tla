---------------------------- MODULE ConfigProofs ----------------------------
(***************************************************************************)
(* Proofs about ChrootConfig and Keyfile: names and aliases lead where     *)
(* they should for any number of definitions with any names, in any order; *)
(* what a key file says is what is read from it, and what is printed or    *)
(* stored in one is read back, however long it is.                         *)
(***************************************************************************)
EXTENDS ChrootConfig, Keyfile, SequenceTheorems, FiniteSetTheorems, WellFoundedInduction, TLAPS

\* Every chroot has the entry of its own name.
OwnEntries == \A c \in chroots : Full(c) \in DOMAIN aliases /\ aliases[Full(c)] = Full(c)

\* Every entry leads to a chroot.
EntriesLead == \A key \in DOMAIN aliases : InNamespace(aliases[key][1], aliases[key][2])

\* The chroot whose aliases are being added is there, and they are its own.
CurAdded ==
    pc = "aliases" =>
      /\ cur \in chroots
      /\ \A j \in 1..Len(rest) : \E i \in 1..Len(cur.aliases) : rest[j] = cur.aliases[i]

ConfigInv == TypeOK /\ OwnEntries /\ EntriesLead /\ NamespacesKept /\ CurAdded

\* A definition in a file is a chroot of its namespace.
LEMMA DefinitionsAreChroots == Definitions \subseteq Chroots
<1> SUFFICES ASSUME NEW c \in Definitions PROVE c \in Chroots
  OBVIOUS
<1>1. CASE c \in [ns: {"session"}, name: Names, kind: {"clonable"}, aliases: {<<>>}]
  BY <1>1, ConfigAssumption, EmptySeq DEF Chroots, Namespaces, AllNames, Kinds
<1>2. CASE c \in [ns: {"chroot"}, name: Names, kind: Kinds,
                  aliases: UNION {[1..n -> Names] : n \in 0..2}]
  <2>1. PICK n \in 0..2 : c.aliases \in [1..n -> Names]
    BY <1>2
  <2>2. n \in Nat /\ \A i \in 1..n : c.aliases[i] \in AllNames
    BY <2>1, ConfigAssumption DEF AllNames
  <2>3. c.aliases \in Seq(AllNames)
    BY <2>1, <2>2
  <2> QED
    BY <1>2, <2>3, ConfigAssumption DEF Chroots, Namespaces, AllNames
<1> QED
  BY <1>1, <1>2 DEF Definitions

\* chroot_config::add keeps the invariant, for a definition and for the source
\* chroot made from one.
LEMMA AddKeeps ==
    ASSUME ConfigInv, NEW c \in Chroots, Add(c)
    PROVE  /\ pc' \in {"failed", "aliases"} /\ cur' \in Chroots /\ rest' \in Seq(AllNames)
           /\ chroots' \subseteq Chroots
           /\ DOMAIN aliases' \subseteq FullNames
           /\ aliases' \in [DOMAIN aliases' -> FullNames]
           /\ OwnEntries' /\ EntriesLead' /\ NamespacesKept' /\ CurAdded'
<1> USE DEF ConfigInv
<1>1. cur' = c /\ rest' = c.aliases /\ c.aliases \in Seq(AllNames)
  BY DEF Add, Chroots
<1>2. CASE Taken(c) /\ pc' = "failed" /\ UNCHANGED <<chroots, aliases>>
  BY <1>1, <1>2 DEF TypeOK, OwnEntries, EntriesLead, NamespacesKept, CurAdded, InNamespace, Full
<1>3. CASE /\ ~Taken(c) /\ pc' = "aliases" /\ chroots' = chroots \cup {c}
           /\ aliases' = ProxySession(c, Insert(aliases, Full(c), Full(c)))
  <2>1. Full(c) \in FullNames /\ Full(c)[1] = c.ns /\ Full(c)[2] = c.name
        /\ <<"session", c.name>> \in FullNames
    BY DEF Full, FullNames, Chroots, Namespaces
  <2>2. Full(c) \notin DOMAIN aliases
    BY <1>3 DEF Taken
  <2> DEFINE proxy == c.ns = "chroot" /\ c.kind = "plain"
             pkey == <<"session", c.name>>
  <2>3. /\ \A key \in DOMAIN aliases' :
             \/ key \in DOMAIN aliases /\ aliases'[key] = aliases[key]
             \/ key = Full(c) /\ aliases'[key] = Full(c)
             \/ proxy /\ key = pkey /\ aliases'[key] = Full(c)
        /\ \A key \in DOMAIN aliases : key \in DOMAIN aliases' /\ aliases'[key] = aliases[key]
        /\ Full(c) \in DOMAIN aliases' /\ aliases'[Full(c)] = Full(c)
        /\ aliases' = [k \in DOMAIN aliases' |-> aliases'[k]]
    BY <1>3, <2>2 DEF ProxySession, Insert
  <2>4. DOMAIN aliases' \subseteq FullNames /\ aliases' \in [DOMAIN aliases' -> FullNames]
    BY <2>1, <2>3 DEF TypeOK
  <2>5. OwnEntries'
    BY <1>3, <2>3 DEF OwnEntries, Full
  <2>6. EntriesLead'
    <3>1. c \in chroots' /\ chroots \subseteq chroots'
      BY <1>3
    <3> QED
      BY <2>1, <2>3, <3>1 DEF EntriesLead, InNamespace
  <2>7. NamespacesKept'
    <3> SUFFICES ASSUME NEW key \in DOMAIN aliases'
                 PROVE  \/ aliases'[key][1] = key[1]
                        \/ /\ key[1] = "session" /\ aliases'[key] = <<"chroot", key[2]>>
                           /\ \E d \in chroots' : Full(d) = aliases'[key] /\ d.kind = "plain"
                        \/ \E d \in chroots' : Full(d) = aliases'[key] /\ IsSourceName(d, key)
      BY DEF NamespacesKept, Full
    <3>1. CASE key \in DOMAIN aliases /\ aliases'[key] = aliases[key]
      BY <3>1, <1>3 DEF NamespacesKept
    <3>2. CASE key = Full(c) /\ aliases'[key] = Full(c)
      BY <3>2
    <3>3. CASE proxy /\ key = pkey /\ aliases'[key] = Full(c)
      <4>1. key[1] = "session" /\ key[2] = c.name /\ Full(c) = <<"chroot", c.name>>
        BY <3>3 DEF Full
      <4> QED
        BY <3>3, <4>1, <1>3
    <3> QED
      BY <2>3, <3>1, <3>2, <3>3
  <2> QED
    BY <1>1, <1>3, <2>4, <2>5, <2>6, <2>7 DEF TypeOK, CurAdded
<1> QED
  BY <1>2, <1>3 DEF Add

\* One alias more: the entries that were there stay, a new one leads to the
\* chroot being added.
LEMMA AddAliasKeeps == ConfigInv /\ AddAlias => ConfigInv'
<1> SUFFICES ASSUME ConfigInv, AddAlias PROVE ConfigInv'
  OBVIOUS
<1> USE DEF ConfigInv
<1> DEFINE alias == Head(rest)
           key0 == <<cur.ns, alias>>
           skey == <<"chroot", SourceName(alias)>>
<1>1. alias \in AllNames /\ Tail(rest) \in Seq(AllNames)
  BY DEF AddAlias, TypeOK
<1>2. /\ cur \in Chroots /\ cur \in chroots /\ Full(cur) \in FullNames
      /\ Full(cur)[1] = cur.ns /\ Full(cur)[2] = cur.name
  BY DEF AddAlias, TypeOK, CurAdded, Chroots, FullNames, Full
<1>3. SourceName(alias) \in AllNames /\ SourceName(alias)[2] > 0
  BY <1>1 DEF SourceName, AllNames
<1>4. /\ key0 \in FullNames /\ key0[1] = cur.ns
      /\ skey \in FullNames /\ skey[1] = "chroot" /\ skey[2][2] > 0
  BY <1>1, <1>2, <1>3 DEF FullNames, Chroots, Namespaces
<1>5. /\ pc' = pc /\ chroots' = chroots /\ cur' = cur /\ groups' = groups
      /\ rest' = Tail(rest)
      /\ aliases' = SourceAlias(cur, alias, Insert(aliases, key0, Full(cur)))
      /\ warned' \in {warned, warned \cup {<<Full(cur), alias>>}}
  BY DEF AddAlias
<1>6. /\ \A key \in DOMAIN aliases' :
           \/ key \in DOMAIN aliases /\ aliases'[key] = aliases[key]
           \/ key = key0 /\ aliases'[key] = Full(cur)
           \/ cur.ns = "source" /\ key = skey /\ aliases'[key] = Full(cur)
      /\ \A key \in DOMAIN aliases : key \in DOMAIN aliases' /\ aliases'[key] = aliases[key]
      /\ aliases' = [k \in DOMAIN aliases' |-> aliases'[k]]
  BY <1>5 DEF SourceAlias, Insert
<1>7. TypeOK'
  <2>1. DOMAIN aliases' \subseteq FullNames /\ aliases' \in [DOMAIN aliases' -> FullNames]
    BY <1>2, <1>4, <1>6 DEF TypeOK
  <2>2. warned' \subseteq FullNames \X AllNames
    BY <1>1, <1>2, <1>5 DEF TypeOK
  <2> QED
    BY <1>1, <1>5, <2>1, <2>2 DEF TypeOK
<1>8. OwnEntries'
  BY <1>5, <1>6 DEF OwnEntries, Full
<1>9. EntriesLead'
  BY <1>2, <1>5, <1>6 DEF EntriesLead, InNamespace
<1>10. NamespacesKept'
  <2> SUFFICES ASSUME NEW key \in DOMAIN aliases'
               PROVE  \/ aliases'[key][1] = key[1]
                      \/ /\ key[1] = "session" /\ aliases'[key] = <<"chroot", key[2]>>
                         /\ \E d \in chroots' : Full(d) = aliases'[key] /\ d.kind = "plain"
                      \/ \E d \in chroots' : Full(d) = aliases'[key] /\ IsSourceName(d, key)
    BY DEF NamespacesKept, Full
  <2>1. CASE key \in DOMAIN aliases /\ aliases'[key] = aliases[key]
    BY <2>1, <1>5 DEF NamespacesKept
  <2>2. CASE key = key0 /\ aliases'[key] = Full(cur)
    BY <2>2, <1>2, <1>4
  <2>3. CASE cur.ns = "source" /\ key = skey /\ aliases'[key] = Full(cur)
    <3>1. \E i \in 1..Len(cur.aliases) : alias = cur.aliases[i]
      <4>1. 1 \in 1..Len(rest) /\ alias = rest[1]
        BY DEF AddAlias, TypeOK
      <4> QED
        BY <4>1 DEF AddAlias, CurAdded
    <3>2. IsSourceName(cur, key)
      BY <2>3, <3>1 DEF IsSourceName
    <3> QED
      BY <2>3, <3>2, <1>2, <1>5
  <2> QED
    BY <1>6, <2>1, <2>2, <2>3
<1>11. CurAdded'
  <2>1. \A j \in 1..Len(Tail(rest)) : j + 1 \in 1..Len(rest) /\ Tail(rest)[j] = rest[j + 1]
    BY DEF AddAlias, TypeOK
  <2> QED
    BY <1>5, <2>1 DEF CurAdded
<1> QED
  BY <1>7, <1>8, <1>9, <1>10, <1>11

\* The inductive invariant holds in every state.
LEMMA ConfigInvariance == Spec => []ConfigInv
<1>1. Init => ConfigInv
  <2> SUFFICES ASSUME Init PROVE ConfigInv
    OBVIOUS
  <2>1. chroots = {} /\ DOMAIN aliases = {} /\ pc = "load" /\ groups = 0
        /\ rest = <<>> /\ warned = {} /\ aliases = [k \in DOMAIN aliases |-> aliases[k]]
    BY DEF Init
  <2>2. TypeOK
    BY <2>1, ConfigAssumption, EmptySeq DEF TypeOK
  <2> QED
    BY <2>1, <2>2 DEF ConfigInv, OwnEntries, EntriesLead, NamespacesKept, CurAdded
<1>2. ConfigInv /\ [Next]_vars => ConfigInv'
  <2> SUFFICES ASSUME ConfigInv, [Next]_vars PROVE ConfigInv'
    OBVIOUS
  <2>1. ASSUME NEW c \in Definitions, LoadGroup(c) PROVE ConfigInv'
    <3>1. c \in Chroots
      BY DefinitionsAreChroots
    <3>2. /\ Add(c) /\ groups < MaxGroups /\ groups' = groups + 1 /\ warned' = warned
      BY <2>1 DEF LoadGroup
    <3>3. groups' \in 0..MaxGroups
      BY <3>2, ConfigAssumption DEF ConfigInv, TypeOK
    <3> QED
      BY <3>1, <3>2, <3>3, AddKeeps DEF ConfigInv, TypeOK
  <2>2. CASE AliasesDone
    <3>1. CASE cur.kind = "source-clonable"
      <4>1. SourceChroot(cur) \in Chroots
        BY <2>2 DEF AliasesDone, ConfigInv, TypeOK, Chroots, SourceChroot, Namespaces, Kinds
      <4>2. Add(SourceChroot(cur)) /\ groups' = groups /\ warned' = warned
        BY <2>2, <3>1 DEF AliasesDone
      <4> QED
        BY <4>1, <4>2, AddKeeps DEF ConfigInv, TypeOK
    <3>2. CASE cur.kind # "source-clonable"
      <4>1. pc' = "load" /\ UNCHANGED <<chroots, aliases, cur, rest, warned, groups>>
        BY <2>2, <3>2 DEF AliasesDone
      <4> QED
        BY <4>1 DEF ConfigInv, TypeOK, OwnEntries, EntriesLead, NamespacesKept, CurAdded,
                    InNamespace, Full
    <3> QED
      BY <3>1, <3>2
  <2>3. CASE Loaded
    BY <2>3 DEF Loaded, ConfigInv, TypeOK, OwnEntries, EntriesLead, NamespacesKept, CurAdded,
                InNamespace, Full
  <2>4. CASE UNCHANGED vars
    BY <2>4 DEF vars, ConfigInv, TypeOK, OwnEntries, EntriesLead, NamespacesKept, CurAdded,
                InNamespace, Full
  <2> QED
    BY <2>1, <2>2, <2>3, <2>4, AddAliasKeeps DEF Next
<1> QED
  BY <1>1, <1>2, PTL DEF Spec

\* Every chroot that chroot_config has loaded is found by its own full name and
\* every alias leads to a chroot, whatever the files say and in whatever order
\* they are read.
THEOREM NamesLead == Spec => [](FoundByOwnName /\ AliasesLead)
<1>1. ConfigInv => FoundByOwnName
  <2> SUFFICES ASSUME ConfigInv, NEW c \in chroots, NEW hint \in Namespaces \cup {""}
               PROVE  find_alias(hint, c.ns, c.name) = Full(c)
    BY DEF FoundByOwnName
  <2>1. get_namespace(hint, c.ns) = c.ns
    BY DEF get_namespace, ConfigInv, TypeOK, Chroots, Namespaces
  <2>2. /\ <<c.ns, c.name>> \in DOMAIN aliases /\ aliases[<<c.ns, c.name>>] = <<c.ns, c.name>>
        /\ InNamespace(c.ns, c.name)
    BY DEF ConfigInv, OwnEntries, Full, InNamespace
  <2>3. <<c.ns, c.name>>[1] = c.ns /\ <<c.ns, c.name>>[2] = c.name
    OBVIOUS
  <2> QED
    BY <2>1, <2>2, <2>3, Zenon DEF find_alias, Full
<1>2. ConfigInv => AliasesLead
  <2> SUFFICES ASSUME ConfigInv, NEW key \in DOMAIN aliases
               PROVE  find_alias("", key[1], key[2]) = aliases[key]
    BY DEF AliasesLead
  <2>1. key \in FullNames
    BY DEF ConfigInv, TypeOK
  <2>2. key[1] \in Namespaces /\ key = <<key[1], key[2]>>
    BY <2>1 DEF FullNames
  <2>3. get_namespace("", key[1]) = key[1]
    BY <2>2 DEF get_namespace, Namespaces
  <2>4. InNamespace(aliases[key][1], aliases[key][2])
    BY DEF ConfigInv, EntriesLead
  <2> QED
    BY <2>2, <2>3, <2>4, Zenon DEF find_alias
<1> QED
  BY <1>1, <1>2, ConfigInvariance, PTL

\* A name leads out of its namespace only to the plain chroot that stands in
\* for a session and to the source chroot of a "-source" name.
THEOREM NamespacesAreKept == Spec => []NamespacesKept
<1>1. ConfigInv => NamespacesKept
  BY DEF ConfigInv
<1> QED
  BY <1>1, ConfigInvariance, PTL

\* What a name leads to never changes while more definitions are loaded.
THEOREM NamesAreStable == Spec => NamesStable
<1> DEFINE Kept == \A key \in DOMAIN aliases :
                     key \in DOMAIN aliases' /\ aliases'[key] = aliases[key]
<1>1. ASSUME NEW c, Add(c) PROVE Kept
  BY <1>1 DEF Add, ProxySession, Insert
<1>2. [Next]_vars => Kept
  <2> SUFFICES ASSUME [Next]_vars PROVE Kept
    OBVIOUS
  <2>1. ASSUME NEW c \in Definitions, LoadGroup(c) PROVE Kept
    BY <2>1, <1>1 DEF LoadGroup
  <2>2. CASE AddAlias
    BY <2>2 DEF AddAlias, SourceAlias, Insert
  <2>3. CASE AliasesDone
    BY <2>3, <1>1 DEF AliasesDone
  <2>4. CASE Loaded \/ UNCHANGED vars
    BY <2>4 DEF Loaded, vars
  <2> QED
    BY <2>1, <2>2, <2>3, <2>4 DEF Next
<1>3. [Next]_vars => [Kept]_vars
  BY <1>2
<1> QED
  BY <1>3, PTL DEF Spec, NamesStable

-----------------------------------------------------------------------------
\* The alias numbered i of c leads to c, or was warned about.
Settled(c, i) ==
    \/ <<c.ns, c.aliases[i]>> \in DOMAIN aliases /\ aliases[<<c.ns, c.aliases[i]>>] = Full(c)
    \/ <<Full(c), c.aliases[i]>> \in warned

\* Of the chroot being added, the aliases still to do are the last ones.
RestIsLast ==
    pc = "aliases" =>
      /\ Len(rest) <= Len(cur.aliases)
      /\ \A j \in 1..Len(rest) : rest[j] = cur.aliases[Len(cur.aliases) - Len(rest) + j]

AllSettled ==
    \A c \in chroots : \A i \in 1..Len(c.aliases) :
      (pc = "aliases" /\ c = cur /\ i > Len(c.aliases) - Len(rest)) \/ Settled(c, i)

\* What was settled stays so: no entry is replaced, no warning withdrawn.
LEMMA SettledStays ==
    ASSUME \A key \in DOMAIN aliases : key \in DOMAIN aliases' /\ aliases'[key] = aliases[key],
           warned \subseteq warned', NEW c, NEW i, Settled(c, i)
    PROVE  Settled(c, i)'
  BY DEF Settled, Full

\* chroot_config::add starts with all aliases of the new chroot to do.
LEMMA AddSettles ==
    ASSUME ConfigInv, AllSettled, pc = "load" \/ (pc = "aliases" /\ rest = <<>>),
           NEW c \in Chroots, Add(c), UNCHANGED warned
    PROVE  RestIsLast' /\ AllSettled'
<1>1. \A key \in DOMAIN aliases : key \in DOMAIN aliases' /\ aliases'[key] = aliases[key]
  BY DEF Add, ProxySession, Insert
<1>2. \A d \in chroots : \A i \in 1..Len(d.aliases) : Settled(d, i)
  <2>1. pc = "aliases" => Len(rest) = 0
    OBVIOUS
  <2>2. \A d \in chroots : Len(d.aliases) \in Nat
    BY DEF ConfigInv, TypeOK, Chroots
  <2> QED
    BY <2>1, <2>2 DEF AllSettled
<1>3. \A d \in chroots : \A i \in 1..Len(d.aliases) : Settled(d, i)'
  BY <1>1, <1>2, SettledStays
<1>4. cur' = c /\ rest' = c.aliases /\ Len(c.aliases) \in Nat
  BY DEF Add, Chroots
<1>5. \A d \in chroots' : d \in chroots \/ (d = c /\ pc' = "aliases")
  BY DEF Add
<1>6. AllSettled'
  <2> SUFFICES ASSUME NEW d \in chroots', NEW i \in 1..Len(d.aliases),
                      ~(pc' = "aliases" /\ d = cur' /\ i > Len(d.aliases) - Len(rest'))
               PROVE  Settled(d, i)'
    BY DEF AllSettled
  <2>1. CASE d \in chroots
    BY <1>3, <2>1
  <2>2. CASE d = c /\ pc' = "aliases"
    BY <1>4, <2>2
  <2> QED
    BY <1>5, <2>1, <2>2
<1>7. RestIsLast'
  BY <1>4 DEF RestIsLast
<1> QED
  BY <1>6, <1>7

\* A turn of the loop settles one alias.
LEMMA AddAliasSettles ==
    ASSUME ConfigInv, RestIsLast, AllSettled, AddAlias
    PROVE  RestIsLast' /\ AllSettled'
<1> DEFINE key == <<cur.ns, Head(rest)>>
           n == Len(cur.aliases)
           k == n - Len(rest) + 1
<1>1. /\ pc = "aliases" /\ rest # <<>> /\ rest' = Tail(rest)
      /\ UNCHANGED <<pc, chroots, cur, groups>>
      /\ aliases' = SourceAlias(cur, Head(rest), Insert(aliases, key, Full(cur)))
      /\ warned' = IF key \in DOMAIN aliases
                     THEN warned \cup {<<Full(cur), Head(rest)>>} ELSE warned
  BY DEF AddAlias
<1>2. /\ rest \in Seq(AllNames) /\ cur.aliases \in Seq(AllNames)
      /\ n \in Nat /\ Len(rest) \in Nat /\ Len(rest) > 0 /\ Len(rest) <= n
      /\ Len(Tail(rest)) = Len(rest) - 1
      /\ \A j \in 1..(Len(rest) - 1) : Tail(rest)[j] = rest[j + 1]
      /\ Head(rest) = rest[1]
  BY <1>1 DEF ConfigInv, TypeOK, Chroots, RestIsLast
<1>3. Head(rest) = cur.aliases[k] /\ k \in 1..n
  BY <1>1, <1>2 DEF RestIsLast
<1>4. RestIsLast'
  <2> SUFFICES /\ Len(Tail(rest)) <= n
               /\ \A j \in 1..Len(Tail(rest)) :
                    Tail(rest)[j] = cur.aliases[n - Len(Tail(rest)) + j]
    BY <1>1 DEF RestIsLast
  <2>1. \A j \in 1..Len(rest) : rest[j] = cur.aliases[n - Len(rest) + j]
    BY <1>1 DEF RestIsLast
  <2>2. Len(Tail(rest)) <= n /\ Len(Tail(rest)) = Len(rest) - 1
    BY <1>2
  <2>3. ASSUME NEW j \in 1..Len(Tail(rest))
        PROVE  Tail(rest)[j] = cur.aliases[n - Len(Tail(rest)) + j]
    <3> DEFINE m == Len(rest)
    <3>1. m \in Nat /\ n \in Nat /\ j \in 1..(m - 1)
      BY <1>2, <2>2
    <3>2. Tail(rest)[j] = rest[j + 1]
      BY <1>2, <3>1
    <3> HIDE DEF m, n
    <3>3. j + 1 \in 1..m /\ n - m + (j + 1) = n - (m - 1) + j
      BY <3>1
    <3>4. rest[j + 1] = cur.aliases[n - m + (j + 1)]
      BY <2>1, <3>3 DEF m
    <3>5. n - Len(Tail(rest)) + j = n - m + (j + 1)
      BY <2>2, <3>3 DEF m
    <3> QED
      BY <3>2, <3>4, <3>5
  <2> QED
    BY <2>2, <2>3
<1>5. /\ \A a \in DOMAIN aliases : a \in DOMAIN aliases' /\ aliases'[a] = aliases[a]
      /\ key \in DOMAIN aliases'
      /\ key \notin DOMAIN aliases => aliases'[key] = Full(cur)
  BY <1>1 DEF SourceAlias, Insert
<1>6. \A i : i = k => Settled(cur, i)'
  <2> SUFFICES ASSUME NEW i, i = k PROVE Settled(cur, i)'
    OBVIOUS
  <2> HIDE DEF k
  <2>1. key = <<cur.ns, cur.aliases[i]>>
    BY <1>3
  <2> QED
    <3>1. CASE key \in DOMAIN aliases
      <4>1. <<Full(cur), cur.aliases[i]>> \in warned'
        BY <1>1, <1>3, <3>1
      <4> QED
        BY <1>1, <4>1 DEF Settled, Full
    <3>2. CASE key \notin DOMAIN aliases
      <4>1. key \in DOMAIN aliases' /\ aliases'[key] = Full(cur)
        BY <1>5, <3>2
      <4>2. <<cur'.ns, cur'.aliases[i]>> = key /\ Full(cur)' = Full(cur)
        BY <1>1, <2>1 DEF Full
      <4> QED
        BY <4>1, <4>2 DEF Settled
    <3> QED
      BY <3>1, <3>2
<1>7. warned \subseteq warned'
  BY <1>1
<1>8. AllSettled'
  <2> SUFFICES ASSUME NEW c \in chroots, NEW i \in 1..Len(c.aliases),
                      ~(c = cur /\ i > Len(c.aliases) - Len(Tail(rest)))
               PROVE  Settled(c, i)'
    BY <1>1 DEF AllSettled
  <2>1. CASE c = cur /\ i = k
    <3>1. Settled(cur, i)'
      BY <1>6, <2>1
    <3> QED
      BY <1>1, <2>1, <3>1 DEF Settled
  <2>2. CASE ~(c = cur /\ i = k)
    <3>1. ~(c = cur /\ i > Len(c.aliases) - Len(rest))
      <4> SUFFICES ASSUME c = cur PROVE ~(i > n - Len(rest))
        OBVIOUS
      <4> DEFINE m == Len(rest)
      <4>1. m \in Nat /\ n \in Nat /\ Len(Tail(rest)) = m - 1
        BY <1>2
      <4>2. i # n - m + 1
        BY <2>2
      <4>3. ~(i > n - Len(Tail(rest)))
        OBVIOUS
      <4>4. ~(i > n - (m - 1)) /\ i \in 1..n
        BY <4>1, <4>3
      <4> HIDE DEF m, n
      <4> QED
        BY <4>1, <4>2, <4>4 DEF m
    <3>2. Settled(c, i)
      BY <3>1 DEF AllSettled
    <3> QED
      BY <1>5, <1>7, <3>2, SettledStays
  <2> QED
    BY <2>1, <2>2
<1> QED
  BY <1>4, <1>8

\* Every alias in a definition leads to the chroot defined, or the user is
\* warned that it does not, whoever else has the name and whichever file comes
\* first.
THEOREM AliasesAreHonoured == Spec => []AliasesHonoured
<1> DEFINE I == ConfigInv /\ RestIsLast /\ AllSettled
<1>1. Init => RestIsLast /\ AllSettled
  BY DEF Init, RestIsLast, AllSettled
<1>2. I /\ [Next]_vars => RestIsLast' /\ AllSettled'
  <2> SUFFICES ASSUME ConfigInv, RestIsLast, AllSettled, [Next]_vars
               PROVE  RestIsLast' /\ AllSettled'
    OBVIOUS
  <2>1. ASSUME NEW c \in Definitions, LoadGroup(c) PROVE RestIsLast' /\ AllSettled'
    BY <2>1, DefinitionsAreChroots, AddSettles DEF LoadGroup
  <2>2. ASSUME UNCHANGED <<chroots, aliases, cur, rest, warned>>,
               pc' = pc \/ (pc' # "aliases" /\ (pc = "load" \/ rest = <<>>))
        PROVE  RestIsLast' /\ AllSettled'
    <3>1. \A c \in chroots : \A i \in 1..Len(c.aliases) : Settled(c, i)' <=> Settled(c, i)
      BY <2>2 DEF Settled, Full
    <3>2. rest = <<>> => \A c \in chroots : \A i \in 1..Len(c.aliases) :
                           ~(i > Len(c.aliases) - Len(rest))
      BY DEF ConfigInv, TypeOK, Chroots
    <3> QED
      BY <2>2, <3>1, <3>2 DEF RestIsLast, AllSettled
  <2>3. CASE AliasesDone
    <3>1. CASE cur.kind = "source-clonable"
      <4>1. SourceChroot(cur) \in Chroots
        BY <2>3 DEF AliasesDone, ConfigInv, TypeOK, Chroots, SourceChroot, Namespaces, Kinds
      <4> QED
        BY <2>3, <3>1, <4>1, AddSettles DEF AliasesDone
    <3>2. CASE cur.kind # "source-clonable"
      BY <2>2, <2>3, <3>2 DEF AliasesDone
    <3> QED
      BY <3>1, <3>2
  <2>4. CASE Loaded \/ UNCHANGED vars
    BY <2>2, <2>4 DEF Loaded, vars
  <2> QED
    BY <2>1, <2>3, <2>4, AddAliasSettles DEF Next
<1>3. I => AliasesHonoured
  BY DEF AllSettled, Settled, AliasesHonoured
<1> QED
  BY <1>1, <1>2, <1>3, ConfigInvariance, PTL DEF Spec

(***************************************************************************)
(* Key files.                                                              *)
(***************************************************************************)
ItemMaps == UNION {[K -> Items] : K \in SUBSET Keys}
GroupData == [items: ItemMaps, comment: Comments, line: Nat]
Keyfiles == UNION {[G -> GroupData] : G \in SUBSET Groups}

ErrorCodes == ParseErrors \cup {"none", "DUPLICATE_GROUP", "DUPLICATE_KEY"}

States ==
    [group: Groups \cup {""}, key: Keys \cup {""}, value: Values \cup {<<>>},
     comment: Comments, set: {"none", "group", "item"}, line_number: Nat,
     tmp: Keyfiles, err: [code: ErrorCodes, line: Nat]]

\* A map of items is a function on some of the keys.
LEMMA ItemMapsAre ==
  ASSUME NEW m
  PROVE  m \in ItemMaps <=> DOMAIN m \subseteq Keys /\ m \in [DOMAIN m -> Items]
BY DEF ItemMaps

\* A keyfile is a function on some of the groups.
LEMMA KeyfilesAre ==
  ASSUME NEW f
  PROVE  f \in Keyfiles <=> DOMAIN f \subseteq Groups /\ f \in [DOMAIN f -> GroupData]
BY DEF Keyfiles

\* The keyfiles a program starts with.
LEMMA EarlierAreKeyfiles ==
  ASSUME NEW f, IsKeyfile(f)
  PROVE  f \in Keyfiles
<1>1. \A g \in DOMAIN f : f[g] \in GroupData
  <2> TAKE g \in DOMAIN f
  <2>1. f[g].items \in ItemMaps
    BY ItemMapsAre DEF IsKeyfile
  <2>2. f[g] = [items |-> f[g].items, comment |-> f[g].comment, line |-> f[g].line]
        /\ f[g].comment \in Comments /\ f[g].line \in Nat
    BY DEF IsKeyfile
  <2> QED
    BY <2>1, <2>2 DEF GroupData
<1> QED
  BY <1>1, KeyfilesAre DEF IsKeyfile

\* The orders are sequences without repetition.
LEMMA Orders ==
  /\ KeyOrder \in Seq(Keys) /\ GroupOrder \in Seq(Groups) /\ FieldOrder \in Seq(Fields)
  /\ Len(KeyOrder) \in Nat /\ Len(GroupOrder) \in Nat /\ Len(FieldOrder) \in Nat
  /\ DOMAIN KeyOrder = 1..Len(KeyOrder) /\ DOMAIN GroupOrder = 1..Len(GroupOrder)
  /\ DOMAIN FieldOrder = 1..Len(FieldOrder)
  /\ \A k \in Keys : \E n \in 1..Len(KeyOrder) : KeyOrder[n] = k
  /\ \A g \in Groups : \E n \in 1..Len(GroupOrder) : GroupOrder[n] = g
  /\ \A x \in Fields : \E n \in 1..Len(FieldOrder) : FieldOrder[n] = x
  /\ \A n \in 1..Len(KeyOrder) : KeyOrder[n] \in Keys
  /\ \A n \in 1..Len(GroupOrder) : GroupOrder[n] \in Groups
  /\ \A n \in 1..Len(FieldOrder) : FieldOrder[n] \in Fields
<1>1. KeyOrder \in Seq(Keys) /\ GroupOrder \in Seq(Groups) /\ FieldOrder \in Seq(Fields)
  BY KeyfileAssumption
<1>2. /\ Len(KeyOrder) \in Nat /\ Len(GroupOrder) \in Nat /\ Len(FieldOrder) \in Nat
      /\ DOMAIN KeyOrder = 1..Len(KeyOrder) /\ DOMAIN GroupOrder = 1..Len(GroupOrder)
      /\ DOMAIN FieldOrder = 1..Len(FieldOrder)
  BY <1>1
<1> QED
  BY <1>1, <1>2 DEF Keys, Groups, Fields, ToSet

\* The lines that keyfiles are printed as; those of the files that are read are
\* among them.
AnyLine ==
    {[t |-> "empty"], [t |-> "badgroup"], [t |-> "noequals"], [t |-> "nokey"]}
    \cup [t: {"comment"}, c: Texts] \cup [t: {"group"}, g: Groups]
    \cup [t: {"item"}, k: Keys, v: Values]

\* A line of a file is one of them.
LEMMA LineIsAny == Line \subseteq AnyLine
BY KeyfileAssumption DEF Line, AnyLine

\* What a line is.
LEMMA LineForms ==
  ASSUME NEW l \in AnyLine
  PROVE  /\ l.t \in {"empty", "badgroup", "noequals", "nokey", "comment", "group", "item"}
         /\ l.t = "comment" => l = [t |-> "comment", c |-> l.c] /\ l.c \in Texts
         /\ l.t = "group" => l = [t |-> "group", g |-> l.g] /\ l.g \in Groups /\ l.g # ""
         /\ l.t = "item" => l.k \in Keys /\ l.v \in Values
<1>1. "" \notin Groups
  BY KeyfileAssumption
<1>2. CASE l \in {[t |-> "empty"], [t |-> "badgroup"], [t |-> "noequals"], [t |-> "nokey"]}
  <2>1. l.t \in {"empty", "badgroup", "noequals", "nokey"}
    <3>1. CASE l = [t |-> "empty"]
      BY <3>1
    <3>2. CASE l = [t |-> "badgroup"]
      BY <3>2
    <3>3. CASE l = [t |-> "noequals"]
      BY <3>3
    <3>4. CASE l = [t |-> "nokey"]
      BY <3>4
    <3> QED
      BY <1>2, <3>1, <3>2, <3>3, <3>4
  <2> QED
    BY <2>1
<1>3. CASE l \in [t: {"comment"}, c: Texts]
  BY <1>3
<1>4. CASE l \in [t: {"group"}, g: Groups]
  BY <1>1, <1>4
<1>5. CASE l \in [t: {"item"}, k: Keys, v: Values]
  BY <1>5
<1> QED
  BY <1>2, <1>3, <1>4, <1>5 DEF AnyLine

-----------------------------------------------------------------------------
(* Numbers. *)

\* A set of natural numbers has a smallest one.
LEMMA SmallestExists ==
  ASSUME NEW S \in SUBSET Nat, S # {}
  PROVE  \E i \in S : \A j \in S : i <= j
<1>1. PICK i \in S : \A j \in S : ~ (<<j, i>> \in OpToRel(<, Nat))
  BY WFMin, NatLessThanWellFounded
<1>2. \A j \in S : ~(j < i)
  BY <1>1 DEF OpToRel
<1> QED
  BY <1>2

\* Induction up to a number, for a set.
LEMMA UpTo ==
  ASSUME NEW N \in Nat, NEW S, 0 \in S, \A n \in 1..N : n - 1 \in S => n \in S
  PROVE  \A n \in 0..N : n \in S
<1> DEFINE Bad == {n \in 0..N : n \notin S}
<1> SUFFICES ASSUME Bad # {}
             PROVE  FALSE
  OBVIOUS
<1>1. Bad \in SUBSET Nat
  OBVIOUS
<1>2. PICK n \in Bad : \A m \in Bad : n <= m
  <2> HIDE DEF Bad
  <2> QED
    BY <1>1, SmallestExists
<1>3. n \in 1..N /\ n - 1 \in 0..N /\ n \notin S
  BY <1>2
<1>4. n - 1 \notin Bad
  BY <1>2, <1>3
<1> QED
  BY <1>3, <1>4

\* The largest of some numbers up to n.
LEMMA LargestExists ==
  ASSUME NEW n \in Nat, NEW S \in SUBSET (1..n), S # {}
  PROVE  Max(S) \in S /\ \A j \in S : j <= Max(S)
<1> DEFINE D == {n - i : i \in S}
<1>1. D \in SUBSET Nat /\ D # {}
  <2>1. \A i \in S : i \in 1..n
    OBVIOUS
  <2>2. \A i \in 1..n : n - i \in Nat
    OBVIOUS
  <2> QED
    BY <2>1, <2>2
<1>2. PICK d \in D : \A e \in D : d <= e
  <2> HIDE DEF D
  <2> QED
    BY <1>1, SmallestExists
<1>3. PICK i \in S : d = n - i
  BY <1>2
<1>4. \A j \in S : n - i <= n - j
  BY <1>2, <1>3
<1>5. \A j \in S : i >= j
  BY <1>4
<1>6. \E x \in S : \A j \in S : x >= j
  BY <1>5
<1>7. Max(S) = CHOOSE x \in S : \A j \in S : x >= j
  BY DEF Max
<1> QED
  BY <1>6, <1>7

\* A loop over 1..N that stays among the values V, and what it computes.
IsLoop(N, V, u, t) == N \in Nat /\ u \in V /\ t \in [V \X (1..N) -> V]
HasResult(N, V, u, t) ==
    \E g \in [0..N -> V] : g[0] = u /\ \A n \in 1..N : g[n] = t[<<g[n - 1], n>>]

\* A loop has a result.
LEMMA LoopRuns ==
  ASSUME NEW N, NEW V, NEW u, NEW t, IsLoop(N, V, u, t)
  PROVE  HasResult(N, V, u, t)
<1>0. N \in Nat /\ u \in V /\ t \in [V \X (1..N) -> V]
  BY DEF IsLoop
<1> DEFINE Run(g, n) == g = [i \in 0..n |-> IF i = 0 THEN u ELSE t[<<g[i - 1], i>>]]
<1> DEFINE S == {n \in 0..N : \E g \in [0..n -> V] : Run(g, n)}
<1>1. 0 \in S
  <2>1. Run([i \in 0..0 |-> u], 0) /\ [i \in 0..0 |-> u] \in [0..0 -> V]
    BY <1>0
  <2> HIDE DEF Run
  <2> QED
    BY <1>0, <2>1
<1>2. \A n \in 1..N : n - 1 \in S => n \in S
  <2> SUFFICES ASSUME NEW n \in 1..N, n - 1 \in S
               PROVE  \E h \in [0..n -> V] : Run(h, n)
    <3>1. \A n \in 1..N : n \in 0..N
      OBVIOUS
    <3> HIDE DEF Run
    <3> QED
      BY <3>1
  <2>1. PICK g \in [0..(n - 1) -> V] : Run(g, n - 1)
    OBVIOUS
  <2> DEFINE last == t[<<g[n - 1], n>>]
  <2>2. last \in V
    BY <1>0
  <2> DEFINE h == [i \in 0..n |-> IF i < n THEN g[i] ELSE last]
  <2>3. h \in [0..n -> V]
    <3> SUFFICES ASSUME NEW i \in 0..n
                 PROVE  (IF i < n THEN g[i] ELSE last) \in V
      OBVIOUS
    <3> HIDE DEF last
    <3> QED
      BY <2>2
  <2>4. \A i \in 0..n : h[i] = IF i = 0 THEN u ELSE t[<<h[i - 1], i>>]
    <3> TAKE i \in 0..n
    <3>1. CASE i = n
      <4>1. i # 0 /\ i - 1 \in 0..n /\ i - 1 < n /\ ~(i < n)
        BY <1>0, <3>1
      <4>2. h[i] = last /\ h[i - 1] = g[i - 1]
        <5> HIDE DEF last
        <5> QED
          BY <4>1
      <4> QED
        BY <3>1, <4>1, <4>2
    <3>2. CASE i # n
      <4>1. i \in 0..(n - 1) /\ i < n /\ (i # 0 => i - 1 \in 0..n /\ i - 1 < n)
        BY <3>2
      <4>2. g[i] = IF i = 0 THEN u ELSE t[<<g[i - 1], i>>]
        BY <2>1, <4>1
      <4>3. h[i] = g[i] /\ (i # 0 => h[i - 1] = g[i - 1])
        BY <4>1
      <4> QED
        BY <4>2, <4>3
    <3> QED
      BY <3>1, <3>2
  <2>5. Run(h, n)
    <3>1. h = [i \in 0..n |-> h[i]]
      OBVIOUS
    <3> HIDE DEF h
    <3> QED
      BY <2>4, <3>1
  <2> HIDE DEF Run, h
  <2> QED
    BY <2>3, <2>5
<1>3. N \in S
  <2> HIDE DEF S
  <2> QED
    BY <1>0, <1>1, <1>2, UpTo
<1>4. PICK g \in [0..N -> V] : Run(g, N)
  BY <1>3
<1>5. g[0] = u /\ \A n \in 1..N : g[n] = t[<<g[n - 1], n>>]
  BY <1>0, <1>4
<1> QED
  BY <1>5 DEF HasResult
-----------------------------------------------------------------------------
(* One line. *)

\* What is kept of the comment when the next line is parsed.
Pending(s) == IF s.set = "none" THEN s.comment ELSE <<>>

\* A comment that gets another line is a comment.
LEMMA CommentGrows ==
  ASSUME NEW c \in Comments, NEW text \in Texts
  PROVE  AddComment(c, text) \in Comments
<1>1. c \in Seq(Texts)
  BY DEF Comments
<1>2. CASE c = <<>> /\ text = ""
  BY <1>2 DEF AddComment, Comments
<1>3. CASE ~(c = <<>> /\ text = "")
  <2>1. Append(c, text) \in Seq(Texts)
    BY <1>1
  <2>2. CASE c = <<>>
    <3>1. Append(c, text)[1] = text
      BY <2>2
    <3> QED
      BY <1>3, <2>1, <2>2, <3>1 DEF AddComment, Comments
  <2>3. CASE c # <<>>
    <3>1. Len(c) \in Nat /\ Len(c) # 0
      BY <1>1, <2>3
    <3>2. Append(c, text)[1] = c[1]
      BY <1>1, <3>1
    <3> QED
      BY <1>3, <2>1, <2>3, <3>2 DEF AddComment, Comments
  <2> QED
    BY <2>2, <2>3
<1> QED
  BY <1>2, <1>3

\* No comment.
LEMMA NoComment == <<>> \in Comments
BY DEF Comments

\* set_group makes a keyfile.
LEMMA SetGroupTyped ==
  ASSUME NEW f \in Keyfiles, NEW g \in Groups, NEW c \in Comments, NEW n \in Nat
  PROVE  set_group(f, g, c, n) \in Keyfiles
<1>1. CASE has_group(f, g)
  BY <1>1 DEF set_group
<1>2. CASE ~has_group(f, g)
  <2> DEFINE new == [items |-> [k \in {} |-> {}], comment |-> c, line |-> n]
  <2> DEFINE h == [x \in DOMAIN f \cup {g} |-> IF x = g THEN new ELSE f[x]]
  <2>1. set_group(f, g, c, n) = h
    BY <1>2 DEF set_group
  <2>2. [k \in {} |-> {}] \in ItemMaps
    BY ItemMapsAre
  <2>3. new \in GroupData
    BY <2>2 DEF GroupData
  <2>4. DOMAIN f \subseteq Groups /\ f \in [DOMAIN f -> GroupData]
    BY KeyfilesAre
  <2>5. h \in [DOMAIN f \cup {g} -> GroupData] /\ DOMAIN h = DOMAIN f \cup {g}
    <3> HIDE DEF new
    <3> QED
      BY <2>3, <2>4
  <2> HIDE DEF h
  <2>6. h \in Keyfiles
    BY <2>4, <2>5, KeyfilesAre
  <2> QED
    BY <2>1, <2>6
<1> QED
  BY <1>1, <1>2

\* set_value in a group that is there.
LEMMA SetValueIs ==
  ASSUME NEW f \in Keyfiles, NEW g \in DOMAIN f, NEW k \in Keys, NEW v \in Values,
         NEW c \in Comments, NEW n \in Nat
  PROVE  LET h == set_value(f, g, k, v, c, n)
         IN  /\ h \in Keyfiles
             /\ DOMAIN h = DOMAIN f
             /\ \A x \in DOMAIN f : x # g => h[x] = f[x]
             /\ h[g].comment = f[g].comment /\ h[g].line = f[g].line
             /\ DOMAIN h[g].items = DOMAIN f[g].items \cup {k}
             /\ h[g].items[k] = Item(v, c, n)
             /\ \A x \in DOMAIN f[g].items : x # k => h[g].items[x] = f[g].items[x]
<1> DEFINE m == [x \in DOMAIN f[g].items \cup {k} |->
                   IF x = k THEN Item(v, c, n) ELSE f[g].items[x]]
<1> DEFINE h == [f EXCEPT ![g].items = m]
<1>1. set_value(f, g, k, v, c, n) = h
  BY DEF set_value, set_group, has_group
<1>2. DOMAIN f \subseteq Groups /\ f \in [DOMAIN f -> GroupData]
  BY KeyfilesAre
<1>3. f[g].items \in ItemMaps /\ f[g] \in GroupData
  BY <1>2 DEF GroupData
<1>4. DOMAIN f[g].items \subseteq Keys /\ f[g].items \in [DOMAIN f[g].items -> Items]
  BY <1>3, ItemMapsAre
<1>5. Item(v, c, n) \in Items
  BY DEF Item, Items
<1>6. m \in [DOMAIN f[g].items \cup {k} -> Items] /\ DOMAIN m = DOMAIN f[g].items \cup {k}
  BY <1>4, <1>5
<1>7. m[k] = Item(v, c, n) /\ \A x \in DOMAIN f[g].items : x # k => m[x] = f[g].items[x]
  OBVIOUS
<1> HIDE DEF m
<1>8. m \in ItemMaps
  BY <1>4, <1>6, ItemMapsAre
<1>9. /\ DOMAIN h = DOMAIN f
      /\ \A x \in DOMAIN f : x # g => h[x] = f[x]
      /\ h[g] = [f[g] EXCEPT !.items = m]
  BY <1>2
<1>10. /\ h[g] \in GroupData /\ h[g].items = m /\ h[g].comment = f[g].comment
       /\ h[g].line = f[g].line
  BY <1>3, <1>8, <1>9 DEF GroupData
<1>11. h \in [DOMAIN f -> GroupData]
  <2>1. h = [x \in DOMAIN f |-> h[x]]
    BY <1>2
  <2>2. \A x \in DOMAIN f : h[x] \in GroupData
    BY <1>2, <1>9, <1>10
  <2> HIDE DEF h
  <2> QED
    BY <2>1, <2>2
<1> HIDE DEF h
<1>12. h \in Keyfiles
  BY <1>2, <1>9, <1>11, KeyfilesAre
<1> QED
  BY <1>1, <1>6, <1>7, <1>9, <1>10, <1>12

\* set_value makes a keyfile; it adds the group first if it is not there.
LEMMA SetValueTyped ==
  ASSUME NEW f \in Keyfiles, NEW g \in Groups, NEW k \in Keys, NEW v \in Values,
         NEW c \in Comments, NEW n \in Nat
  PROVE  /\ set_group(f, g, <<>>, 0) \in Keyfiles
         /\ g \in DOMAIN set_group(f, g, <<>>, 0)
         /\ set_value(f, g, k, v, c, n) = set_value(set_group(f, g, <<>>, 0), g, k, v, c, n)
         /\ set_value(f, g, k, v, c, n) \in Keyfiles
<1> DEFINE h == set_group(f, g, <<>>, 0)
<1>1. h \in Keyfiles
  BY SetGroupTyped, NoComment
<1>2. g \in DOMAIN h
  BY DEF set_group, has_group
<1>3. set_group(h, g, <<>>, 0) = h
  <2> HIDE DEF h
  <2> QED
    BY <1>2 DEF set_group, has_group
<1>4. set_value(f, g, k, v, c, n) = set_value(h, g, k, v, c, n)
  BY <1>3 DEF set_value
<1> HIDE DEF h
<1>5. set_value(h, g, k, v, c, n) \in Keyfiles
  BY <1>1, <1>2, SetValueIs
<1> QED
  BY <1>1, <1>2, <1>4, <1>5 DEF h

\* What a line of each kind does to the state.
LEMMA LineRead ==
  ASSUME NEW s \in States, s.err = NoError, NEW l \in AnyLine
  PROVE  LET r == ReadOne(s, l)
             n == s.line_number + 1
             c == Pending(s)
         IN  /\ r \in States
             /\ l.t \in {"empty", "comment"} =>
                  /\ r.err = NoError /\ r.group = s.group /\ r.set = "none"
                  /\ r.comment = (IF l.t = "empty" THEN c ELSE AddComment(c, l.c))
                  /\ r.line_number = n /\ r.tmp = s.tmp
             /\ (l.t \in {"badgroup", "noequals", "nokey"} \/ (l.t = "item" /\ s.group = "")) =>
                  r.err # NoError /\ r.err.code \in ParseErrors /\ r.err.line = s.line_number
             /\ l.t = "group" =>
                  IF l.g \in DOMAIN s.tmp THEN r.err = Err("DUPLICATE_GROUP", n)
                  ELSE /\ r.err = NoError /\ r.group = l.g /\ r.set = "group"
                       /\ r.line_number = n /\ r.tmp = set_group(s.tmp, l.g, c, n)
             /\ l.t = "item" /\ s.group # "" =>
                  IF has_key(s.tmp, s.group, l.k) THEN r.err = Err("DUPLICATE_KEY", n)
                  ELSE /\ r.err = NoError /\ r.group = s.group /\ r.set = "item"
                       /\ r.line_number = n
                       /\ r.tmp = set_value(s.tmp, s.group, l.k, l.v, c, n)
<1> DEFINE r == ReadOne(s, l)
           n == s.line_number + 1
           c == Pending(s)
           p == parse_line(s, l)
           next == [s EXCEPT !.set = "none", !.comment = c, !.line_number = n]
<1>1. r = Collect(p)
  BY DEF ReadOne
<1>2. c \in Comments /\ n \in Nat
  <2>1. s.comment \in Comments /\ s.line_number \in Nat
    BY DEF States
  <2>2. c \in Comments
    BY <2>1, NoComment DEF Pending
  <2> QED
    BY <2>1, <2>2
<1>3. /\ next \in States /\ next.err = NoError /\ next.group = s.group /\ next.set = "none"
      /\ next.comment = c /\ next.line_number = n /\ next.tmp = s.tmp
  BY <1>2 DEF States
<1>4. l.t \in {"empty", "badgroup", "noequals", "nokey", "comment", "group", "item"}
  BY LineForms
<1> HIDE DEF r, p, n, c
<1>5. ASSUME NEW q \in States, p = q, q.err # NoError
      PROVE  r = q
  BY <1>1, <1>5 DEF Collect
<1>6. ASSUME NEW q \in States, p = q, q.err = NoError, q.set = "none"
      PROVE  r = q
  BY <1>1, <1>6 DEF Collect
<1>7. CASE l.t = "empty"
  <2>1. p = next
    BY <1>7 DEF p, parse_line, Pending, c, n
  <2> HIDE DEF next
  <2> QED
    BY <1>3, <1>6, <1>7, <2>1 DEF r, n, c
<1>8. CASE l.t = "comment"
  <2> DEFINE q == [next EXCEPT !.comment = AddComment(c, l.c)]
  <2>1. p = q
    BY <1>8 DEF p, parse_line, Pending, c, n
  <2>2. AddComment(c, l.c) \in Comments
    BY <1>2, <1>8, LineForms, CommentGrows
  <2> HIDE DEF next
  <2>3. /\ q \in States /\ q.err = NoError /\ q.group = s.group /\ q.set = "none"
        /\ q.comment = AddComment(c, l.c) /\ q.line_number = n /\ q.tmp = s.tmp
    BY <1>3, <2>2 DEF States
  <2> HIDE DEF q
  <2> QED
    BY <1>6, <1>8, <2>1, <2>3 DEF r, n, c
<1>9. ASSUME NEW code \in ParseErrors, p = [s EXCEPT !.err = Err(code, s.line_number)]
      PROVE  r \in States /\ r.err # NoError /\ r.err.code \in ParseErrors /\ r.err.line = s.line_number
  <2> DEFINE q == [s EXCEPT !.err = Err(code, s.line_number)]
  <2>1. Err(code, s.line_number) \in [code: ErrorCodes, line: Nat]
    BY DEF Err, ErrorCodes, States
  <2>2. q \in States /\ q.err = Err(code, s.line_number)
    BY <2>1 DEF States
  <2>3. q.err.code = code /\ q.err.line = s.line_number
    BY <2>2 DEF Err
  <2>4. q.err # NoError
    BY <2>3 DEF NoError, ParseErrors
  <2> HIDE DEF q
  <2> QED
    BY <1>5, <1>9, <2>2, <2>3, <2>4 DEF q
<1>10. CASE l.t \in {"badgroup", "noequals", "nokey"}
  <2>1. \E code \in ParseErrors : p = [s EXCEPT !.err = Err(code, s.line_number)]
    <3>1. CASE l.t = "badgroup"
      BY <3>1 DEF p, parse_line, ParseErrors
    <3>2. CASE l.t = "noequals"
      BY <3>2 DEF p, parse_line, ParseErrors
    <3>3. CASE l.t = "nokey"
      BY <3>3 DEF p, parse_line, ParseErrors
    <3> QED
      BY <1>10, <3>1, <3>2, <3>3
  <2> QED
    BY <1>9, <1>10, <2>1 DEF r
<1>11. CASE l.t = "group"
  <2> DEFINE q == [next EXCEPT !.group = l.g, !.set = "group"]
             dup == [q EXCEPT !.err = Err("DUPLICATE_GROUP", n)]
             new == [q EXCEPT !.tmp = set_group(s.tmp, l.g, c, n)]
  <2>1. p = q
    BY <1>11 DEF p, parse_line, Pending, c, n
  <2>2. l.g \in Groups
    BY <1>11, LineForms
  <2> HIDE DEF next
  <2>3. /\ q \in States /\ q.err = NoError /\ q.group = l.g /\ q.set = "group"
        /\ q.comment = c /\ q.line_number = n /\ q.tmp = s.tmp
    BY <1>3, <2>2 DEF States
  <2> HIDE DEF q
  <2>4. r = IF l.g \in DOMAIN s.tmp THEN dup ELSE new
    BY <1>1, <2>1, <2>3 DEF Collect, has_group
  <2>5. Err("DUPLICATE_GROUP", n) \in [code: ErrorCodes, line: Nat]
    BY <1>2 DEF Err, ErrorCodes
  <2>6. set_group(s.tmp, l.g, c, n) \in Keyfiles
    BY <1>2, <2>2, SetGroupTyped DEF States
  <2>7. dup \in States /\ dup.err = Err("DUPLICATE_GROUP", n)
    BY <2>3, <2>5 DEF States
  <2>8. /\ new \in States /\ new.err = NoError /\ new.group = l.g /\ new.set = "group"
        /\ new.line_number = n /\ new.tmp = set_group(s.tmp, l.g, c, n)
    BY <2>3, <2>6 DEF States
  <2> HIDE DEF dup, new
  <2> QED
    BY <1>11, <2>4, <2>7, <2>8 DEF r, n, c
<1>12. CASE l.t = "item" /\ s.group = ""
  <2>1. p = [s EXCEPT !.err = Err("NO_GROUP", s.line_number)]
    BY <1>12 DEF p, parse_line
  <2>2. "NO_GROUP" \in ParseErrors
    BY DEF ParseErrors
  <2> QED
    BY <1>9, <1>12, <2>1, <2>2 DEF r
<1>13. CASE l.t = "item" /\ s.group # ""
  <2> DEFINE q == [next EXCEPT !.key = l.k, !.value = l.v, !.set = "item"]
             dup == [q EXCEPT !.err = Err("DUPLICATE_KEY", n)]
             new == [q EXCEPT !.tmp = set_value(s.tmp, s.group, l.k, l.v, c, n)]
  <2>1. p = q
    BY <1>13 DEF p, parse_line, Pending, c, n
  <2>2. l.k \in Keys /\ l.v \in Values /\ s.group \in Groups
    BY <1>13, LineForms DEF States
  <2> HIDE DEF next
  <2>3. /\ q \in States /\ q.err = NoError /\ q.group = s.group /\ q.set = "item"
        /\ q.comment = c /\ q.line_number = n /\ q.tmp = s.tmp /\ q.key = l.k /\ q.value = l.v
    BY <1>3, <2>2 DEF States
  <2> HIDE DEF q
  <2>4. r = IF has_key(s.tmp, s.group, l.k) THEN dup ELSE new
    BY <1>1, <2>1, <2>3 DEF Collect
  <2>5. Err("DUPLICATE_KEY", n) \in [code: ErrorCodes, line: Nat]
    BY <1>2 DEF Err, ErrorCodes
  <2>6. set_value(s.tmp, s.group, l.k, l.v, c, n) \in Keyfiles
    BY <1>2, <2>2, SetValueTyped DEF States
  <2>7. dup \in States /\ dup.err = Err("DUPLICATE_KEY", n)
    BY <2>3, <2>5 DEF States
  <2>8. /\ new \in States /\ new.err = NoError /\ new.group = s.group /\ new.set = "item"
        /\ new.line_number = n /\ new.tmp = set_value(s.tmp, s.group, l.k, l.v, c, n)
    BY <2>3, <2>6 DEF States
  <2> HIDE DEF dup, new
  <2> QED
    BY <1>13, <2>4, <2>7, <2>8 DEF r, n, c
<1> QED
  BY <1>4, <1>7, <1>8, <1>10, <1>11, <1>12, <1>13

-----------------------------------------------------------------------------
(* The meaning of a file that gets another line. *)

\* The lines of a longer file.
LEMMA LongerFile ==
  ASSUME NEW f \in Seq(Line), NEW l \in Line
  PROVE  /\ Len(f) \in Nat /\ DOMAIN f = 1..Len(f)
         /\ Append(f, l) \in Seq(Line) /\ Len(Append(f, l)) = Len(f) + 1
         /\ DOMAIN Append(f, l) = 1..(Len(f) + 1)
         /\ \A i \in 1..Len(f) : Append(f, l)[i] = f[i] /\ f[i] \in Line
         /\ Append(f, l)[Len(f) + 1] = l
OBVIOUS

\* Lines are numbered.
LEMMA LineNumbers ==
  ASSUME NEW f \in Seq(Line)
  PROVE  Len(f) \in Nat /\ \A i \in 0..Len(f) : i \in Nat
OBVIOUS

\* The group that a line belongs to is named by a line at or before it.
LEMMA SectionHead ==
  ASSUME NEW f \in Seq(Line), NEW i \in 0..Len(f), Section(f, i) # ""
  PROVE  \E j \in 1..i : f[j].t = "group" /\ f[j].g = Section(f, i)
<1> DEFINE heads == {j \in 1..i : f[j].t = "group"}
<1>1. heads # {} /\ Section(f, i) = f[Max(heads)].g
  BY DEF Section
<1>2. i \in Nat /\ heads \in SUBSET (1..i)
  BY LineNumbers
<1>3. Max(heads) \in heads
  <2> HIDE DEF heads
  <2> QED
    BY <1>1, <1>2, LargestExists
<1> QED
  BY <1>1, <1>3

\* A later line does not change the group of a line.
LEMMA SectionKept ==
  ASSUME NEW f \in Seq(Line), NEW l \in Line, NEW i \in 0..Len(f)
  PROVE  Section(Append(f, l), i) = Section(f, i)
<1> DEFINE h == Append(f, l)
           heads == {j \in 1..i : f[j].t = "group"}
<1>1. \A j \in 1..i : h[j] = f[j]
  BY LongerFile
<1>2. {j \in 1..i : h[j].t = "group"} = heads
  BY <1>1
<1>3. i \in Nat /\ heads \in SUBSET (1..i)
  BY LongerFile
<1> HIDE DEF h
<1>4. CASE heads = {}
  BY <1>2, <1>4 DEF Section, h
<1>5. CASE heads # {}
  <2>1. Max(heads) \in 1..i
    <3> HIDE DEF heads
    <3> QED
      BY <1>3, <1>5, LargestExists
  <2>2. Section(h, i) = h[Max(heads)].g /\ Section(f, i) = f[Max(heads)].g
    BY <1>2, <1>5 DEF Section
  <2> HIDE DEF heads
  <2> QED
    BY <1>1, <2>1, <2>2 DEF h
<1> QED
  BY <1>4, <1>5

\* The group of the last line.
LEMMA SectionNew ==
  ASSUME NEW f \in Seq(Line), NEW l \in Line
  PROVE  Section(Append(f, l), Len(f) + 1) = IF l.t = "group" THEN l.g ELSE Section(f, Len(f))
<1> DEFINE h == Append(f, l)
           n == Len(f)
           heads == {j \in 1..n : f[j].t = "group"}
           all == {j \in 1..(n + 1) : h[j].t = "group"}
<1>1. n \in Nat /\ h[n + 1] = l /\ \A j \in 1..n : h[j] = f[j]
  BY LongerFile
<1>2. Section(h, n + 1) = IF all = {} THEN "" ELSE h[Max(all)].g
  BY DEF Section
<1>3. Section(f, n) = IF heads = {} THEN "" ELSE f[Max(heads)].g
  BY DEF Section
<1> HIDE DEF h, n
<1>4. CASE l.t = "group"
  <2>1. n + 1 \in all /\ all \in SUBSET (1..(n + 1)) /\ n + 1 \in Nat
    BY <1>1, <1>4
  <2>2. Max(all) \in 1..(n + 1) /\ n + 1 <= Max(all)
    <3> HIDE DEF all
    <3> QED
      BY <2>1, LargestExists
  <2>3. Max(all) = n + 1
    <3> HIDE DEF all
    <3> QED
      BY <1>1, <2>2
  <2> HIDE DEF all
  <2> QED
    BY <1>1, <1>2, <1>4, <2>1, <2>3 DEF h, n
<1>5. CASE l.t # "group"
  <2>1. all = heads
    BY <1>1, <1>5
  <2>2. heads # {} => Max(heads) \in 1..n
    <3>1. heads \in SUBSET (1..n)
      OBVIOUS
    <3> HIDE DEF heads
    <3> QED
      BY <1>1, <3>1, LargestExists
  <2> HIDE DEF all, heads
  <2> QED
    BY <1>1, <1>2, <1>3, <1>5, <2>1, <2>2 DEF h, n
<1> QED
  BY <1>4, <1>5

\* A later line does not make a line wrong.
LEMMA DefectKept ==
  ASSUME NEW f \in Seq(Line), NEW l \in Line, NEW i \in 1..Len(f)
  PROVE  Defective(Append(f, l), i) <=> Defective(f, i)
<1> DEFINE h == Append(f, l)
<1>1. Len(f) \in Nat /\ \A j \in 1..i : h[j] = f[j]
  BY LongerFile
<1>2. \A j \in 1..i : Section(h, j) = Section(f, j)
  <2> TAKE j \in 1..i
  <2>1. j \in 0..Len(f)
    BY <1>1
  <2> QED
    BY <2>1, SectionKept
<1>3. \A j \in 1..(i - 1) : j \in 1..i
  BY <1>1
<1>4. i \in 1..i
  BY <1>1
<1> HIDE DEF h
<1>5. h[i] = f[i] /\ Section(h, i) = Section(f, i)
  BY <1>1, <1>2, <1>4
<1>6. \A j \in 1..(i - 1) : h[j] = f[j] /\ Section(h, j) = Section(f, j)
  BY <1>1, <1>2, <1>3
<1>7. Defective(h, i) <=> Defective(f, i)
  BY <1>5, <1>6 DEF Defective
<1> QED
  BY <1>7 DEF h

\* Nth numbers a set in increasing order.
LEMMA NthRanks ==
  ASSUME NEW n \in Nat, NEW I \in SUBSET (1..n)
  PROVE  /\ IsFiniteSet(I) /\ Cardinality(I) \in Nat
         /\ \A m \in 1..Cardinality(I) :
              Nth(I, m) \in I /\ Cardinality({j \in I : j <= Nth(I, m)}) = m
         /\ \A i \in I : /\ Cardinality({j \in I : j <= i}) \in 1..Cardinality(I)
                         /\ Nth(I, Cardinality({j \in I : j <= i})) = i
<1> DEFINE N == Cardinality(I)
<1> DEFINE Upto(i) == {j \in I : j <= i}
<1> DEFINE rank == [i \in I |-> Cardinality(Upto(i))]
<1>0. IsFiniteSet(I) /\ N \in Nat /\ \A i \in I : i \in Nat
  <2>1. IsFiniteSet(1..n)
    BY FS_Interval
  <2>2. IsFiniteSet(I)
    BY <2>1, FS_Subset
  <2> QED
    BY <2>2, FS_CardinalityType
<1>1. \A i \in I : IsFiniteSet(Upto(i)) /\ Cardinality(Upto(i)) \in Nat /\ Cardinality(Upto(i)) <= N
  <2> TAKE i \in I
  <2>1. Upto(i) \in SUBSET I
    OBVIOUS
  <2> HIDE DEF Upto
  <2> QED
    BY <2>1, <1>0, FS_Subset, FS_CardinalityType
<1>2. \A i \in I : Cardinality(Upto(i)) # 0
  <2> TAKE i \in I
  <2>1. i \in Upto(i)
    BY <1>0
  <2> HIDE DEF Upto
  <2> QED
    BY <2>1, <1>1, FS_EmptySet
<1>3. \A i, j \in I : i < j => Cardinality(Upto(i)) < Cardinality(Upto(j))
  <2> SUFFICES ASSUME NEW i \in I, NEW j \in I, i < j
               PROVE  Cardinality(Upto(i)) < Cardinality(Upto(j))
    OBVIOUS
  <2>1. Upto(i) \in SUBSET Upto(j) /\ j \in Upto(j) /\ j \notin Upto(i)
    <3>1. \A k \in I : k <= i => k <= j
      BY <1>0
    <3>2. j <= j /\ ~(j <= i)
      BY <1>0
    <3> QED
      BY <3>1, <3>2
  <2> HIDE DEF Upto
  <2>2. Cardinality(Upto(i)) <= Cardinality(Upto(j)) /\ Cardinality(Upto(i)) # Cardinality(Upto(j))
    BY <2>1, <1>1, FS_Subset
  <2> QED
    BY <2>2, <1>1
<1>4. \A i \in I : rank[i] = Cardinality(Upto(i)) /\ rank[i] \in 1..N
  <2> TAKE i \in I
  <2>1. rank[i] = Cardinality(Upto(i))
    OBVIOUS
  <2> HIDE DEF Upto, rank
  <2> QED
    BY <2>1, <1>0, <1>1, <1>2
<1>5. \A i, j \in I : rank[i] = rank[j] => i = j
  <2> SUFFICES ASSUME NEW i \in I, NEW j \in I, rank[i] = rank[j], i # j
               PROVE  FALSE
    OBVIOUS
  <2>1. i < j \/ j < i
    BY <1>0
  <2> HIDE DEF Upto, rank
  <2> QED
    BY <2>1, <1>1, <1>3, <1>4
<1>6. rank \in Injection(I, 1..N)
  <2>1. rank \in [I -> 1..N]
    BY <1>4
  <2> HIDE DEF rank, Upto
  <2> QED
    BY <2>1, <1>5 DEF Injection, IsInjective
<1>7. IsFiniteSet(1..N) /\ Cardinality(1..N) = N
  BY <1>0, FS_Interval
<1>8. \A m \in 1..N : \E i \in I : rank[i] = m
  <2> HIDE DEF rank
  <2>1. rank \in Surjection(I, 1..N)
    BY <1>0, <1>6, <1>7, FS_Injection
  <2> QED
    BY <2>1 DEF Surjection
<1>10. \A m \in 1..N : Nth(I, m) \in I /\ Cardinality(Upto(Nth(I, m))) = m
  <2> TAKE m \in 1..N
  <2>1. \E i \in I : Cardinality(Upto(i)) = m
    <3> HIDE DEF Upto, rank
    <3> QED
      BY <1>4, <1>8
  <2>2. Nth(I, m) = CHOOSE i \in I : Cardinality(Upto(i)) = m
    BY DEF Nth
  <2> HIDE DEF Upto
  <2> QED
    BY <2>1, <2>2
<1>11. \A i \in I : Nth(I, rank[i]) = i
  <2> TAKE i \in I
  <2>1. rank[i] \in 1..N
    BY <1>4
  <2> HIDE DEF Upto, rank
  <2>2. Nth(I, rank[i]) \in I /\ rank[Nth(I, rank[i])] = rank[i]
    BY <2>1, <1>4, <1>10
  <2> QED
    BY <2>2, <1>5
<1>12. \A i \in I : Upto(i) = {j \in I : j <= i}
  OBVIOUS
<1>13. \A i \in I : Cardinality(Upto(i)) \in 1..N /\ Nth(I, Cardinality(Upto(i))) = i
  <2> HIDE DEF Upto, rank
  <2> QED
    BY <1>4, <1>11
<1> QED
  BY <1>0, <1>10, <1>13

\* A number larger than all others comes last.
LEMMA NthOfMore ==
  ASSUME NEW n \in Nat, NEW I \in SUBSET (1..n)
  PROVE  LET J == I \cup {n + 1}
         IN  /\ Cardinality(J) = Cardinality(I) + 1
             /\ Nth(J, Cardinality(I) + 1) = n + 1
             /\ \A m \in 1..Cardinality(I) : Nth(J, m) = Nth(I, m)
<1> DEFINE J == I \cup {n + 1}
<1>1. IsFiniteSet(I) /\ Cardinality(I) \in Nat /\ n + 1 \notin I
  <2>1. n + 1 \notin 1..n
    OBVIOUS
  <2> QED
    BY <2>1, NthRanks
<1>2. Cardinality(J) = Cardinality(I) + 1
  BY <1>1, FS_AddElement
<1>3. J \in SUBSET (1..(n + 1)) /\ n + 1 \in Nat /\ n + 1 \in J
  OBVIOUS
<1>4. {j \in J : j <= n + 1} = J
  <2>1. \A j \in 1..(n + 1) : j <= n + 1
    OBVIOUS
  <2> HIDE DEF J
  <2> QED
    BY <1>3, <2>1
<1>5. \A i \in I : {j \in J : j <= i} = {j \in I : j <= i}
  OBVIOUS
<1> HIDE DEF J
<1>6. Nth(J, Cardinality(I) + 1) = n + 1
  <2>1. \A i \in J : Nth(J, Cardinality({j \in J : j <= i})) = i
    BY <1>3, NthRanks
  <2> QED
    BY <1>2, <1>3, <1>4, <2>1
<1>7. \A m \in 1..Cardinality(I) : Nth(J, m) = Nth(I, m)
  <2> TAKE m \in 1..Cardinality(I)
  <2> DEFINE i == Nth(I, m)
  <2>1. i \in I /\ Cardinality({j \in I : j <= i}) = m
    BY NthRanks
  <2>2. i \in J /\ Cardinality({j \in J : j <= i}) = m
    BY <2>1, <1>5 DEF J
  <2> HIDE DEF i
  <2>3. Nth(J, Cardinality({j \in J : j <= i})) = i
    BY <2>2, <1>3, NthRanks
  <2> QED
    BY <2>2, <2>3 DEF i
<1> QED
  BY <1>2, <1>6, <1>7 DEF J

\* A later line does not change the comment before a line.
LEMMA CommentKept ==
  ASSUME NEW f \in Seq(Line), NEW l \in Line, NEW i \in 1..(Len(f) + 1)
  PROVE  CommentOf(Append(f, l), i) = CommentOf(f, i)
<1> DEFINE h == Append(f, l)
           J == CommentLines(f, i)
<1>1. Len(f) \in Nat /\ \A j \in 1..(i - 1) : h[j] = f[j]
  BY LongerFile
<1>2. \A j \in 1..(i - 1) : \A m \in j..(i - 1) : m \in 1..(i - 1)
  BY <1>1
<1> HIDE DEF h
<1>3. CommentLines(h, i) = J
  BY <1>1, <1>2 DEF CommentLines
<1>4. i - 1 \in Nat /\ J \in SUBSET (1..(i - 1))
  <2>1. J \subseteq 1..(i - 1)
    BY DEF CommentLines
  <2> HIDE DEF J
  <2> QED
    BY <1>1, <2>1
<1> HIDE DEF J
<1>5. \A m \in 1..Cardinality(J) : Nth(J, m) \in 1..(i - 1)
  BY <1>4, NthRanks
<1>6. CommentOf(h, i) = [n \in 1..Cardinality(J) |-> h[Nth(J, n)].c]
  BY <1>3 DEF CommentOf
<1>7. CommentOf(f, i) = [n \in 1..Cardinality(J) |-> f[Nth(J, n)].c]
  BY DEF CommentOf, J
<1> QED
  BY <1>1, <1>5, <1>6, <1>7 DEF h

\* The comments up to line i after the last group or item.
Near(f, i) ==
    {j \in 1..i : f[j].t = "comment" /\ \A n \in j..i : f[n].t \notin {"group", "item"}}

\* Comments without empty ones at the start.
Said(f, S) == {j \in S : \E n \in S : n <= j /\ f[n].c # ""}

\* Those of them that make up the comment.
LEMMA NearLines ==
  ASSUME NEW f, NEW i, NEW m, m = i - 1
  PROVE  CommentLines(f, i) = Said(f, Near(f, m))
BY DEF CommentLines, Near, Said

\* The comment after a new line.
LEMMA CommentNew ==
  ASSUME NEW f \in Seq(Line), NEW l \in Line
  PROVE  CommentOf(Append(f, l), Len(f) + 2) =
           CASE l.t \in {"group", "item"} -> <<>>
             [] l.t = "comment" -> AddComment(CommentOf(f, Len(f) + 1), l.c)
             [] OTHER -> CommentOf(f, Len(f) + 1)
<1> DEFINE h == Append(f, l)
           n == Len(f)
           I == CommentLines(f, n + 1)
           J == CommentLines(h, n + 2)
<1>1. n \in Nat /\ h[n + 1] = l /\ \A j \in 1..n : h[j] = f[j]
  BY LongerFile
<1>2. n + 1 - 1 = n /\ n + 2 - 1 = n + 1
  BY <1>1
<1>3. I = Said(f, Near(f, n))
  <2> DEFINE i == n + 1
  <2>1. n = i - 1 /\ I = CommentLines(f, i)
    BY <1>1
  <2> HIDE DEF i, n, I
  <2> QED
    BY <2>1, NearLines
<1>4. J = Said(h, Near(h, n + 1))
  <2> DEFINE i == n + 2
             k == n + 1
  <2>1. k = i - 1 /\ J = CommentLines(h, i)
    BY <1>1
  <2> HIDE DEF i, k, n, J, h
  <2>2. J = Said(h, Near(h, k))
    BY <2>1, NearLines
  <2> QED
    BY <2>2 DEF k
<1>5. CommentOf(f, n + 1) = [m \in 1..Cardinality(I) |-> f[Nth(I, m)].c]
  BY DEF CommentOf
<1>6. CommentOf(h, n + 2) = [m \in 1..Cardinality(J) |-> h[Nth(J, m)].c]
  BY DEF CommentOf
<1> HIDE DEF h, n, I, J
<1> USE DEF Near, Said
<1>8. /\ 1..(n + 1) = 1..n \cup {n + 1}
      /\ \A j \in 1..n : j..(n + 1) = j..n \cup {n + 1} /\ j..n \subseteq 1..n
      /\ (n + 1)..(n + 1) = {n + 1}
  BY <1>1
<1>9. I \in SUBSET (1..n)
  BY <1>3
<1>10. IsFiniteSet(I) /\ Cardinality(I) \in Nat /\ \A m \in 1..Cardinality(I) : Nth(I, m) \in 1..n
  BY <1>1, <1>9, NthRanks
<1>11. CASE l.t \in {"group", "item"}
  <2>1. Near(h, n + 1) = {}
    <3> SUFFICES ASSUME NEW j \in 1..(n + 1)
                 PROVE  \E m \in j..(n + 1) : h[m].t \in {"group", "item"}
      OBVIOUS
    <3>1. n + 1 \in j..(n + 1)
      BY <1>1
    <3> QED
      BY <1>1, <1>11, <3>1
  <2>2. Cardinality(J) = 0
    BY <1>4, <2>1, FS_EmptySet
  <2>3. CommentOf(h, n + 2) = <<>>
    BY <1>6, <2>2
  <2> QED
    BY <1>11, <2>3 DEF h, n
<1>12. CASE l.t \notin {"group", "item", "comment"}
  <2>1. Near(h, n + 1) = Near(f, n)
    BY <1>1, <1>8, <1>12
  <2>2. J = I
    <3>1. \A m \in Near(f, n) : h[m] = f[m]
      BY <1>1
    <3> HIDE DEF Near
    <3> QED
      BY <1>3, <1>4, <2>1, <3>1
  <2>3. CommentOf(h, n + 2) = CommentOf(f, n + 1)
    BY <1>1, <1>5, <1>6, <1>10, <2>2
  <2> QED
    BY <1>12, <2>3 DEF h, n
<1>13. CASE l.t = "comment"
  <2>1. Near(h, n + 1) = Near(f, n) \cup {n + 1}
    <3>1. \A j \in 1..n : j \in Near(h, n + 1) <=> j \in Near(f, n)
      BY <1>1, <1>8, <1>13
    <3>2. n + 1 \in Near(h, n + 1)
      BY <1>1, <1>8, <1>13
    <3>3. Near(f, n) \subseteq 1..n /\ Near(h, n + 1) \subseteq 1..n \cup {n + 1}
      BY <1>8
    <3> HIDE DEF Near
    <3> QED
      BY <3>1, <3>2, <3>3
  <2>2. \A m \in Near(f, n) : h[m] = f[m] /\ m \in 1..n /\ m <= n + 1 /\ ~(n + 1 <= m)
    BY <1>1
  <2>3. n + 1 <= n + 1
    BY <1>1
  <2>4. \A j \in I : j \in Near(f, n)
    BY <1>3
  <2> HIDE DEF Near
  <2>5. J = IF I = {} /\ l.c = "" THEN {} ELSE I \cup {n + 1}
    <3>1. \A j \in Near(f, n) : j \in J <=> j \in I
      BY <1>3, <1>4, <2>1, <2>2
    <3>2. n + 1 \in J <=> (l.c # "" \/ \E m \in Near(f, n) : f[m].c # "")
      BY <1>1, <1>4, <2>1, <2>2, <2>3
    <3>3. (\E m \in Near(f, n) : f[m].c # "") <=> I # {}
      <4>1. \A m \in Near(f, n) : m <= m
        BY <2>2
      <4> QED
        BY <1>3, <4>1
    <3>4. \A j \in J : j \in Near(f, n) \/ j = n + 1
      BY <1>4, <2>1
    <3> QED
      BY <2>4, <3>1, <3>2, <3>3, <3>4
  <2>6. I = {} <=> CommentOf(f, n + 1) = <<>>
    <3>1. I = {} <=> Cardinality(I) = 0
      BY <1>10, FS_EmptySet
    <3>2. Len(CommentOf(f, n + 1)) = Cardinality(I) /\ DOMAIN CommentOf(f, n + 1) = 1..Cardinality(I)
      BY <1>5, <1>10
    <3>3. Cardinality(I) = 0 => CommentOf(f, n + 1) = <<>>
      BY <1>5
    <3>4. Cardinality(I) # 0 => CommentOf(f, n + 1) # <<>>
      BY <1>10, <3>2
    <3> QED
      BY <3>1, <3>3, <3>4
  <2>7. CASE I = {} /\ l.c = ""
    <3>1. Cardinality(J) = 0
      BY <2>5, <2>7, FS_EmptySet
    <3>2. CommentOf(h, n + 2) = <<>>
      BY <1>6, <3>1
    <3> QED
      BY <1>13, <2>6, <2>7, <3>2 DEF AddComment, h, n
  <2>8. CASE ~(I = {} /\ l.c = "")
    <3> DEFINE N == Cardinality(I)
               c == CommentOf(f, n + 1)
    <3>1. J = I \cup {n + 1}
      BY <2>5, <2>8
    <3>2. /\ Cardinality(J) = N + 1 /\ Nth(J, N + 1) = n + 1
          /\ \A m \in 1..N : Nth(J, m) = Nth(I, m)
      BY <1>1, <1>9, <3>1, NthOfMore
    <3>3. N \in Nat /\ c = [m \in 1..N |-> f[Nth(I, m)].c]
      BY <1>5, <1>10
    <3>4. CommentOf(h, n + 2) = [m \in 1..(N + 1) |-> h[Nth(J, m)].c]
      BY <1>6, <3>2
    <3>5. \A m \in 1..N : h[Nth(J, m)].c = c[m]
      BY <1>1, <1>10, <3>2, <3>3
    <3>6. h[Nth(J, N + 1)].c = l.c
      BY <1>1, <3>2
    <3> HIDE DEF N, c
    <3>7. Append(c, l.c) = [m \in 1..(N + 1) |-> IF m <= N THEN c[m] ELSE l.c]
      BY <3>3
    <3>8. CommentOf(h, n + 2) = Append(c, l.c)
      <4>1. \A m \in 1..(N + 1) : h[Nth(J, m)].c = IF m <= N THEN c[m] ELSE l.c
        BY <3>3, <3>5, <3>6
      <4> QED
        BY <3>4, <3>7, <4>1
    <3> QED
      BY <1>13, <2>6, <2>8, <3>8 DEF AddComment, c, h, n
  <2> QED
    BY <2>7, <2>8
<1> QED
  BY <1>11, <1>12, <1>13

-----------------------------------------------------------------------------
(* Reading a file. *)

Heads(f) == {i \in DOMAIN f : f[i].t = "group"}
Settings(f) == {i \in DOMAIN f : f[i].t = "item"}

\* A keyfile says what the lines of a file say.
Describes(m, f) ==
    /\ m \in Keyfiles
    /\ DOMAIN m = {f[i].g : i \in Heads(f)}
    /\ \A i \in Heads(f) : m[f[i].g].comment = CommentOf(f, i) /\ m[f[i].g].line = i
    /\ \A i \in Settings(f) :
         /\ Section(f, i) \in DOMAIN m /\ f[i].k \in DOMAIN m[Section(f, i)].items
         /\ m[Section(f, i)].items[f[i].k] = Item(f[i].v, CommentOf(f, i), i)
    /\ \A g \in DOMAIN m : \A k \in DOMAIN m[g].items :
         \E i \in Settings(f) : Section(f, i) = g /\ f[i].k = k

\* It is then what Meaning says.
LEMMA DescribedIsMeant ==
  ASSUME NEW f \in Seq(Line), NEW m, Describes(m, f)
  PROVE  m = Meaning(f)
<1> DEFINE items(g) == {i \in DOMAIN f : f[i].t = "item" /\ Section(f, i) = g}
           HeadOf(g) == CHOOSE i \in Heads(f) : f[i].g = g
           ItemOf(g, k) == CHOOSE i \in items(g) : f[i].k = k
           map(g) == [k \in {f[i].k : i \in items(g)} |->
                        Item(f[ItemOf(g, k)].v, CommentOf(f, ItemOf(g, k)), ItemOf(g, k))]
           data(g) == [items |-> map(g), comment |-> CommentOf(f, HeadOf(g)), line |-> HeadOf(g)]
<1>1. Meaning(f) = [g \in {f[i].g : i \in Heads(f)} |-> data(g)]
  BY DEF Meaning, Heads
<1>2. m \in [DOMAIN m -> GroupData] /\ DOMAIN m = {f[i].g : i \in Heads(f)}
  BY KeyfilesAre DEF Describes
<1>3. \A g \in DOMAIN m : m[g] = data(g)
  <2> TAKE g \in DOMAIN m
  <2>1. HeadOf(g) \in Heads(f) /\ f[HeadOf(g)].g = g
    BY <1>2
  <2> HIDE DEF HeadOf
  <2>2. m[g].comment = CommentOf(f, HeadOf(g)) /\ m[g].line = HeadOf(g)
    BY <2>1 DEF Describes
  <2>3. m[g] \in GroupData /\ m[g].items \in ItemMaps
    BY <1>2 DEF GroupData
  <2>4. m[g].items \in [DOMAIN m[g].items -> Items]
    BY <2>3, ItemMapsAre
  <2>5. \A i \in items(g) : /\ f[i].k \in DOMAIN m[g].items
                           /\ m[g].items[f[i].k] = Item(f[i].v, CommentOf(f, i), i)
    BY DEF Describes, Settings
  <2>6. DOMAIN m[g].items = {f[i].k : i \in items(g)}
    <3>1. \A k \in DOMAIN m[g].items : \E i \in items(g) : f[i].k = k
      BY DEF Describes, Settings
    <3> HIDE DEF items
    <3> QED
      BY <2>5, <3>1
  <2>7. \A k \in DOMAIN m[g].items :
          m[g].items[k] = Item(f[ItemOf(g, k)].v, CommentOf(f, ItemOf(g, k)), ItemOf(g, k))
    <3> TAKE k \in DOMAIN m[g].items
    <3> HIDE DEF items
    <3>1. ItemOf(g, k) \in items(g) /\ f[ItemOf(g, k)].k = k
      BY <2>6
    <3> HIDE DEF ItemOf
    <3> QED
      BY <2>5, <3>1
  <2> HIDE DEF items, ItemOf
  <2>8. m[g].items = map(g)
    BY <2>4, <2>6, <2>7
  <2> HIDE DEF map
  <2> QED
    BY <2>2, <2>3, <2>8 DEF GroupData
<1> HIDE DEF data
<1> QED
  BY <1>1, <1>2, <1>3

\* The state of the parser after the lines f.
HasRead(s, f) ==
    /\ s \in States /\ s.err = NoError /\ s.line_number = Len(f)
    /\ s.group = Section(f, Len(f))
    /\ Pending(s) = CommentOf(f, Len(f) + 1)
    /\ Describes(s.tmp, f)
    /\ \A i \in DOMAIN f : ~Defective(f, i)

\* Groups and items of a longer file.
LEMMA LongerParts ==
  ASSUME NEW f \in Seq(Line), NEW l \in Line
  PROVE  LET h == Append(f, l)
             n == Len(f)
         IN  /\ Heads(h) = IF l.t = "group" THEN Heads(f) \cup {n + 1} ELSE Heads(f)
             /\ Settings(h) = IF l.t = "item" THEN Settings(f) \cup {n + 1} ELSE Settings(f)
             /\ \A i \in Heads(f) \cup Settings(f) :
                  /\ i \in 1..n /\ h[i] = f[i]
                  /\ Section(h, i) = Section(f, i) /\ CommentOf(h, i) = CommentOf(f, i)
             /\ CommentOf(h, n + 1) = CommentOf(f, n + 1)
<1> DEFINE h == Append(f, l)
           n == Len(f)
<1>1. /\ n \in Nat /\ DOMAIN f = 1..n /\ DOMAIN h = 1..(n + 1) /\ h[n + 1] = l
      /\ \A i \in 1..n : h[i] = f[i]
  BY LongerFile
<1>2. \A i \in 1..n : Section(h, i) = Section(f, i) /\ CommentOf(h, i) = CommentOf(f, i)
  <2> TAKE i \in 1..n
  <2>1. i \in 0..n /\ i \in 1..(n + 1)
    BY <1>1
  <2> QED
    BY <2>1, SectionKept, CommentKept
<1>3. CommentOf(h, n + 1) = CommentOf(f, n + 1)
  <2>1. n + 1 \in 1..(n + 1)
    BY <1>1
  <2> QED
    BY <2>1, CommentKept
<1> HIDE DEF h, n
<1>4. 1..(n + 1) = 1..n \cup {n + 1} /\ n + 1 \notin 1..n
  BY <1>1
<1>5. Heads(h) = IF l.t = "group" THEN Heads(f) \cup {n + 1} ELSE Heads(f)
  BY <1>1, <1>4 DEF Heads
<1>6. Settings(h) = IF l.t = "item" THEN Settings(f) \cup {n + 1} ELSE Settings(f)
  BY <1>1, <1>4 DEF Settings
<1>7. \A i \in Heads(f) \cup Settings(f) : i \in 1..n
  BY <1>1 DEF Heads, Settings
<1> QED
  BY <1>1, <1>2, <1>3, <1>5, <1>6, <1>7 DEF h, n

\* A line that is neither a group nor an item says nothing.
LEMMA DescribesSame ==
  ASSUME NEW f \in Seq(Line), NEW l \in Line, NEW m, Describes(m, f), l.t \notin {"group", "item"}
  PROVE  Describes(m, Append(f, l))
<1> DEFINE h == Append(f, l)
<1>1. /\ Heads(h) = Heads(f) /\ Settings(h) = Settings(f)
      /\ \A i \in Heads(f) \cup Settings(f) :
           h[i] = f[i] /\ Section(h, i) = Section(f, i) /\ CommentOf(h, i) = CommentOf(f, i)
  BY LongerParts
<1> HIDE DEF h
<1>2. {h[i].g : i \in Heads(h)} = {f[i].g : i \in Heads(f)}
  BY <1>1
<1>3. Describes(m, h)
  BY <1>1, <1>2 DEF Describes
<1> QED
  BY <1>3 DEF h

\* A group that is not there yet.
LEMMA DescribesGroup ==
  ASSUME NEW f \in Seq(Line), NEW l \in Line, NEW m, Describes(m, f), l.t = "group",
         l.g \notin DOMAIN m, NEW c \in Comments, c = CommentOf(f, Len(f) + 1)
  PROVE  Describes(set_group(m, l.g, c, Len(f) + 1), Append(f, l))
<1> DEFINE h == Append(f, l)
           n == Len(f) + 1
           new == set_group(m, l.g, c, n)
<1>1. /\ Heads(h) = Heads(f) \cup {n} /\ Settings(h) = Settings(f)
      /\ \A i \in Heads(f) \cup Settings(f) :
           h[i] = f[i] /\ Section(h, i) = Section(f, i) /\ CommentOf(h, i) = CommentOf(f, i)
      /\ CommentOf(h, n) = c
  BY LongerParts
<1>2. h[n] = l /\ n \in Nat /\ l.g \in Groups
  <2>1. h[n] = l /\ n \in Nat
    BY LongerFile
  <2>2. l.g \in Groups
    BY LineForms, LineIsAny
  <2> QED
    BY <2>1, <2>2
<1>3. m \in Keyfiles
  BY DEF Describes
<1> HIDE DEF h, n
<1>4. new \in Keyfiles
  BY <1>2, <1>3, SetGroupTyped
<1>5. /\ DOMAIN new = DOMAIN m \cup {l.g} /\ \A x \in DOMAIN m : new[x] = m[x]
      /\ new[l.g].items = [k \in {} |-> {}] /\ new[l.g].comment = c /\ new[l.g].line = n
  BY DEF set_group, has_group
<1> HIDE DEF new
<1>6. {h[i].g : i \in Heads(h)} = {f[i].g : i \in Heads(f)} \cup {l.g}
  BY <1>1, <1>2
<1>7. \A i \in Heads(f) : f[i].g \in DOMAIN m
  BY DEF Describes
<1>8. \A i \in Heads(h) : new[h[i].g].comment = CommentOf(h, i) /\ new[h[i].g].line = i
  <2>1. \A i \in Heads(f) : m[f[i].g].comment = CommentOf(f, i) /\ m[f[i].g].line = i
    BY DEF Describes
  <2> QED
    BY <1>1, <1>2, <1>5, <1>7, <2>1
<1>9. \A i \in Settings(h) :
         /\ Section(h, i) \in DOMAIN new /\ h[i].k \in DOMAIN new[Section(h, i)].items
         /\ new[Section(h, i)].items[h[i].k] = Item(h[i].v, CommentOf(h, i), i)
  <2>1. \A i \in Settings(f) :
         /\ Section(f, i) \in DOMAIN m /\ f[i].k \in DOMAIN m[Section(f, i)].items
         /\ m[Section(f, i)].items[f[i].k] = Item(f[i].v, CommentOf(f, i), i)
    BY DEF Describes
  <2> QED
    BY <1>1, <1>5, <2>1
<1>10. \A g \in DOMAIN new : \A k \in DOMAIN new[g].items :
         \E i \in Settings(h) : Section(h, i) = g /\ h[i].k = k
  <2>1. \A g \in DOMAIN m : \A k \in DOMAIN m[g].items :
          \E i \in Settings(f) : Section(f, i) = g /\ f[i].k = k
    BY DEF Describes
  <2>2. DOMAIN new[l.g].items = {}
    BY <1>5
  <2> QED
    BY <1>1, <1>5, <2>1, <2>2
<1>11. DOMAIN m = {f[i].g : i \in Heads(f)}
  BY DEF Describes
<1>12. Describes(new, h)
  BY <1>4, <1>5, <1>6, <1>8, <1>9, <1>10, <1>11 DEF Describes
<1> QED
  BY <1>12 DEF new, h, n

\* An item that is not there yet.
LEMMA DescribesItem ==
  ASSUME NEW f \in Seq(Line), NEW l \in Line, NEW m, Describes(m, f), l.t = "item",
         NEW g \in DOMAIN m, g = Section(f, Len(f)), l.k \notin DOMAIN m[g].items,
         NEW c \in Comments, c = CommentOf(f, Len(f) + 1)
  PROVE  Describes(set_value(m, g, l.k, l.v, c, Len(f) + 1), Append(f, l))
<1> DEFINE h == Append(f, l)
           n == Len(f) + 1
           new == set_value(m, g, l.k, l.v, c, n)
<1>1. /\ Heads(h) = Heads(f) /\ Settings(h) = Settings(f) \cup {n}
      /\ \A i \in Heads(f) \cup Settings(f) :
           h[i] = f[i] /\ Section(h, i) = Section(f, i) /\ CommentOf(h, i) = CommentOf(f, i)
      /\ CommentOf(h, n) = c
  BY LongerParts
<1>2. h[n] = l /\ n \in Nat /\ l.k \in Keys /\ l.v \in Values
  <2>1. h[n] = l /\ n \in Nat
    BY LongerFile
  <2>2. l.k \in Keys /\ l.v \in Values
    BY LineForms, LineIsAny
  <2> QED
    BY <2>1, <2>2
<1>3. Section(h, n) = g
  BY SectionNew
<1>4. m \in Keyfiles
  BY DEF Describes
<1> HIDE DEF h, n
<1>5. /\ new \in Keyfiles /\ DOMAIN new = DOMAIN m
      /\ \A x \in DOMAIN m : x # g => new[x] = m[x]
      /\ new[g].comment = m[g].comment /\ new[g].line = m[g].line
      /\ DOMAIN new[g].items = DOMAIN m[g].items \cup {l.k}
      /\ new[g].items[l.k] = Item(l.v, c, n)
      /\ \A x \in DOMAIN m[g].items : x # l.k => new[g].items[x] = m[g].items[x]
  BY <1>2, <1>4, SetValueIs
<1> HIDE DEF new
<1>6. {h[i].g : i \in Heads(h)} = {f[i].g : i \in Heads(f)} /\ DOMAIN m = {f[i].g : i \in Heads(f)}
  BY <1>1 DEF Describes
<1>7. \A i \in Heads(h) : new[h[i].g].comment = CommentOf(h, i) /\ new[h[i].g].line = i
  <2>1. \A i \in Heads(f) : m[f[i].g].comment = CommentOf(f, i) /\ m[f[i].g].line = i
    BY DEF Describes
  <2>2. \A i \in Heads(f) : f[i].g \in DOMAIN m
    BY <1>6
  <2>3. \A x \in DOMAIN m : new[x].comment = m[x].comment /\ new[x].line = m[x].line
    BY <1>5
  <2> QED
    BY <1>1, <2>1, <2>2, <2>3
<1>8. \A i \in Settings(h) :
         /\ Section(h, i) \in DOMAIN new /\ h[i].k \in DOMAIN new[Section(h, i)].items
         /\ new[Section(h, i)].items[h[i].k] = Item(h[i].v, CommentOf(h, i), i)
  <2> TAKE i \in Settings(h)
  <2>1. CASE i = n
    BY <1>1, <1>2, <1>3, <1>5, <2>1
  <2>2. CASE i # n
    <3>1. i \in Settings(f)
      BY <1>1, <2>2
    <3>2. /\ Section(f, i) \in DOMAIN m /\ f[i].k \in DOMAIN m[Section(f, i)].items
          /\ m[Section(f, i)].items[f[i].k] = Item(f[i].v, CommentOf(f, i), i)
      BY <3>1 DEF Describes
    <3>3. h[i] = f[i] /\ Section(h, i) = Section(f, i) /\ CommentOf(h, i) = CommentOf(f, i)
      BY <1>1, <3>1
    <3>4. CASE Section(f, i) = g
      BY <1>5, <3>2, <3>3, <3>4
    <3>5. CASE Section(f, i) # g
      BY <1>5, <3>2, <3>3, <3>5
    <3> QED
      BY <3>4, <3>5
  <2> QED
    BY <2>1, <2>2
<1>9. \A x \in DOMAIN new : \A k \in DOMAIN new[x].items :
         \E i \in Settings(h) : Section(h, i) = x /\ h[i].k = k
  <2> TAKE x \in DOMAIN new
  <2> TAKE k \in DOMAIN new[x].items
  <2>1. CASE x = g /\ k = l.k
    BY <1>1, <1>2, <1>3, <2>1
  <2>2. CASE ~(x = g /\ k = l.k)
    <3>1. x \in DOMAIN m /\ k \in DOMAIN m[x].items
      BY <1>5, <2>2
    <3>2. PICK i \in Settings(f) : Section(f, i) = x /\ f[i].k = k
      BY <3>1 DEF Describes
    <3> QED
      BY <1>1, <3>2
  <2> QED
    BY <2>1, <2>2
<1>10. Describes(new, h)
  BY <1>5, <1>6, <1>7, <1>8, <1>9 DEF Describes
<1> QED
  BY <1>10 DEF new, h, n

\* The lines before are as right or wrong as they were.
LEMMA FirstDefect ==
  ASSUME NEW f \in Seq(Line), NEW l \in Line, \A i \in DOMAIN f : ~Defective(f, i)
  PROVE  LET h == Append(f, l)
             n == Len(f) + 1
         IN  IF Defective(h, n) THEN {i \in DOMAIN h : Defective(h, i)} = {n}
             ELSE \A i \in DOMAIN h : ~Defective(h, i)
<1> DEFINE h == Append(f, l)
           n == Len(f) + 1
<1>1. Len(f) \in Nat /\ DOMAIN f = 1..Len(f) /\ DOMAIN h = 1..n
  BY LongerFile
<1>2. \A i \in 1..Len(f) : ~Defective(h, i)
  BY <1>1, DefectKept
<1>3. \A i \in 1..n : i \in 1..Len(f) \/ i = n
  BY <1>1
<1>4. n \in 1..n
  BY <1>1
<1> HIDE DEF h
<1>5. \A i \in DOMAIN h : Defective(h, i) => i = n
  BY <1>1, <1>2, <1>3
<1>6. n \in DOMAIN h
  BY <1>1, <1>4
<1> HIDE DEF n
<1> QED
  BY <1>5, <1>6 DEF h, n

\* What makes the last line wrong.
LEMMA LastDefect ==
  ASSUME NEW s, NEW f \in Seq(Line), HasRead(s, f), NEW l \in Line
  PROVE  Defective(Append(f, l), Len(f) + 1) <=>
           \/ l.t \in {"badgroup", "noequals", "nokey"}
           \/ l.t = "item" /\ s.group = ""
           \/ l.t = "group" /\ l.g \in DOMAIN s.tmp
           \/ l.t = "item" /\ s.group # "" /\ has_key(s.tmp, s.group, l.k)
<1> DEFINE h == Append(f, l)
           n == Len(f) + 1
<1>1. /\ Len(f) \in Nat /\ h[n] = l /\ n - 1 = Len(f) /\ DOMAIN f = 1..Len(f)
      /\ \A i \in 1..Len(f) : h[i] = f[i] /\ f[i] \in Line
  BY LongerFile
<1>2. l.t # "group" => Section(h, n) = s.group
  BY SectionNew DEF HasRead
<1>3. \A i \in 1..Len(f) : Section(h, i) = Section(f, i)
  <2> TAKE i \in 1..Len(f)
  <2>1. i \in 0..Len(f)
    BY <1>1
  <2> QED
    BY <2>1, SectionKept
<1> HIDE DEF h
<1>4. Defective(h, n) <=>
        \/ l.t \in {"badgroup", "noequals", "nokey"}
        \/ l.t = "item" /\ Section(h, n) = ""
        \/ l.t = "group" /\ \E j \in 1..(n - 1) : h[j] = l
        \/ l.t = "item" /\ \E j \in 1..(n - 1) :
             h[j].t = "item" /\ h[j].k = l.k /\ Section(h, j) = Section(h, n)
  BY <1>1 DEF Defective
<1> HIDE DEF n
<1>5. Describes(s.tmp, f)
  BY DEF HasRead
<1>6. ASSUME l.t = "group"
      PROVE  (\E j \in 1..(n - 1) : h[j] = l) <=> l.g \in DOMAIN s.tmp
  <2>1. l = [t |-> "group", g |-> l.g]
    BY <1>6, LineForms, LineIsAny
  <2>2. \A j \in 1..Len(f) : f[j].t = "group" => f[j] = [t |-> "group", g |-> f[j].g]
    BY <1>1, LineForms, LineIsAny
  <2>3. DOMAIN s.tmp = {f[i].g : i \in Heads(f)}
    BY <1>5 DEF Describes
  <2>4. \A j \in 1..Len(f) : f[j] = l => f[j].t = "group" /\ f[j].g = l.g
    BY <1>6
  <2>5. \A j \in 1..Len(f) : f[j].t = "group" /\ f[j].g = l.g => f[j] = l
    BY <2>1, <2>2
  <2>6. l.g \in DOMAIN s.tmp <=> \E j \in 1..Len(f) : f[j].t = "group" /\ f[j].g = l.g
    BY <1>1, <2>3 DEF Heads
  <2> QED
    BY <1>1, <2>4, <2>5, <2>6
<1>7. ASSUME l.t = "item", s.group # ""
      PROVE  (\E j \in 1..(n - 1) : h[j].t = "item" /\ h[j].k = l.k /\ Section(h, j) = Section(h, n))
             <=> has_key(s.tmp, s.group, l.k)
  <2>1. Section(h, n) = s.group
    BY <1>2, <1>7
  <2>2. (\E j \in 1..(n - 1) : h[j].t = "item" /\ h[j].k = l.k /\ Section(h, j) = Section(h, n))
        <=> \E j \in 1..Len(f) : f[j].t = "item" /\ f[j].k = l.k /\ Section(f, j) = s.group
    BY <1>1, <1>3, <2>1
  <2>3. (\E j \in 1..Len(f) : f[j].t = "item" /\ f[j].k = l.k /\ Section(f, j) = s.group)
        <=> \E j \in Settings(f) : f[j].k = l.k /\ Section(f, j) = s.group
    BY <1>1 DEF Settings
  <2>4. ASSUME NEW j \in Settings(f), f[j].k = l.k, Section(f, j) = s.group
        PROVE  has_key(s.tmp, s.group, l.k)
    BY <1>5, <2>4 DEF Describes, has_key, has_group
  <2>5. ASSUME has_key(s.tmp, s.group, l.k)
        PROVE  \E j \in Settings(f) : f[j].k = l.k /\ Section(f, j) = s.group
    BY <1>5, <2>5 DEF Describes, has_key, has_group
  <2> QED
    BY <2>2, <2>3, <2>4, <2>5
<1>8. CASE l.t = "group"
  BY <1>4, <1>6, <1>8 DEF h, n
<1>9. CASE l.t = "item" /\ s.group # ""
  <2>1. Section(h, n) # ""
    BY <1>2, <1>9
  <2> QED
    BY <1>4, <1>7, <1>9, <2>1 DEF h, n
<1>10. CASE l.t = "item" /\ s.group = ""
  BY <1>2, <1>4, <1>10 DEF h, n
<1>11. CASE l.t \notin {"group", "item"}
  BY <1>4, <1>11 DEF h, n
<1> QED
  BY <1>8, <1>9, <1>10, <1>11

\* The parser goes on exactly as long as the lines are right.
LEMMA ReadingGoesOn ==
  ASSUME NEW s, NEW f \in Seq(Line), HasRead(s, f), NEW l \in Line
  PROVE  LET r == ReadOne(s, l)
             h == Append(f, l)
         IN  /\ r.err = NoError => HasRead(r, h)
             /\ r.err # NoError =>
                  /\ {i \in DOMAIN h : Defective(h, i)} = {Len(h)}
                  /\ r.err.line = Len(h) - (IF r.err.code \in ParseErrors THEN 1 ELSE 0)
<1> DEFINE r == ReadOne(s, l)
           h == Append(f, l)
           N == Len(f)
           n == s.line_number + 1
           c == Pending(s)
<1>1. /\ s \in States /\ s.err = NoError /\ s.line_number = N /\ s.group = Section(f, N)
      /\ c = CommentOf(f, N + 1) /\ Describes(s.tmp, f) /\ \A i \in DOMAIN f : ~Defective(f, i)
  BY DEF HasRead
<1>2. N \in Nat /\ n = N + 1 /\ Len(h) = N + 1 /\ h \in Seq(Line) /\ N + 1 + 1 = N + 2
  BY <1>1, LongerFile
<1>3. c \in Comments
  <2>1. s.comment \in Comments
    BY <1>1 DEF States
  <2> QED
    BY <2>1, NoComment DEF Pending
<1>4. IF Defective(h, N + 1) THEN {i \in DOMAIN h : Defective(h, i)} = {N + 1}
      ELSE \A i \in DOMAIN h : ~Defective(h, i)
  BY <1>1, FirstDefect
<1>5. Section(h, N + 1) = IF l.t = "group" THEN l.g ELSE s.group
  BY <1>1, SectionNew
<1>6. CommentOf(h, N + 2) = CASE l.t \in {"group", "item"} -> <<>>
                              [] l.t = "comment" -> AddComment(c, l.c)
                              [] OTHER -> c
  BY <1>1, CommentNew
<1>7. ASSUME r \in States, r.err = NoError, r.line_number = n, r.group = Section(h, N + 1),
             Pending(r) = CommentOf(h, N + 2), Describes(r.tmp, h), ~Defective(h, N + 1)
      PROVE  HasRead(r, h)
  BY <1>2, <1>4, <1>7 DEF HasRead
<1>8. CASE l.t \in {"empty", "comment"}
  <2>1. /\ r \in States /\ r.err = NoError /\ r.group = s.group /\ r.set = "none"
        /\ r.comment = (IF l.t = "empty" THEN c ELSE AddComment(c, l.c))
        /\ r.line_number = n /\ r.tmp = s.tmp
    BY <1>1, <1>8, LineRead, LineIsAny
  <2>2. Describes(r.tmp, h)
    BY <1>1, <1>8, <2>1, DescribesSame
  <2>3. ~Defective(h, N + 1)
    BY <1>8, LastDefect
  <2> HIDE DEF r, h, c, N, n
  <2>4. Pending(r) = CommentOf(h, N + 2) /\ r.group = Section(h, N + 1)
    BY <1>5, <1>6, <1>8, <2>1 DEF Pending
  <2> QED
    BY <1>7, <2>1, <2>2, <2>3, <2>4 DEF r, h
<1>9. CASE l.t \in {"badgroup", "noequals", "nokey"} \/ (l.t = "item" /\ s.group = "")
  <2>1. r.err # NoError /\ r.err.code \in ParseErrors /\ r.err.line = s.line_number
    BY <1>1, <1>9, LineRead, LineIsAny
  <2>2. Defective(h, N + 1)
    BY <1>9, LastDefect
  <2> HIDE DEF r, h
  <2> QED
    BY <1>1, <1>2, <1>4, <2>1, <2>2 DEF r, h
<1>10. CASE l.t = "group" /\ l.g \in DOMAIN s.tmp
  <2>1. r.err = Err("DUPLICATE_GROUP", n)
    BY <1>1, <1>10, LineRead, LineIsAny
  <2>2. r.err # NoError /\ r.err.code \notin ParseErrors /\ r.err.line = n
    BY <2>1 DEF Err, NoError, ParseErrors
  <2>3. Defective(h, N + 1)
    BY <1>10, LastDefect
  <2> HIDE DEF r, h
  <2> QED
    BY <1>1, <1>2, <1>4, <2>2, <2>3 DEF r, h
<1>11. CASE l.t = "group" /\ l.g \notin DOMAIN s.tmp
  <2>1. /\ r \in States /\ r.err = NoError /\ r.group = l.g /\ r.set = "group"
        /\ r.line_number = n /\ r.tmp = set_group(s.tmp, l.g, c, n)
    BY <1>1, <1>11, LineRead, LineIsAny
  <2>2. Describes(set_group(s.tmp, l.g, c, N + 1), h)
    BY <1>1, <1>3, <1>11, DescribesGroup
  <2>3. ~Defective(h, N + 1)
    BY <1>11, LastDefect
  <2> HIDE DEF r, h, c, N, n
  <2>4. Pending(r) = CommentOf(h, N + 2) /\ r.group = Section(h, N + 1) /\ Describes(r.tmp, h)
    BY <1>2, <1>5, <1>6, <1>11, <2>1, <2>2 DEF Pending
  <2> QED
    BY <1>7, <2>1, <2>3, <2>4 DEF r, h
<1>12. CASE l.t = "item" /\ s.group # "" /\ has_key(s.tmp, s.group, l.k)
  <2>1. r.err = Err("DUPLICATE_KEY", n)
    BY <1>1, <1>12, LineRead, LineIsAny
  <2>2. r.err # NoError /\ r.err.code \notin ParseErrors /\ r.err.line = n
    BY <2>1 DEF Err, NoError, ParseErrors
  <2>3. Defective(h, N + 1)
    BY <1>12, LastDefect
  <2> HIDE DEF r, h
  <2> QED
    BY <1>1, <1>2, <1>4, <2>2, <2>3 DEF r, h
<1>13. CASE l.t = "item" /\ s.group # "" /\ ~has_key(s.tmp, s.group, l.k)
  <2>1. /\ r \in States /\ r.err = NoError /\ r.group = s.group /\ r.set = "item"
        /\ r.line_number = n /\ r.tmp = set_value(s.tmp, s.group, l.k, l.v, c, n)
    BY <1>1, <1>13, LineRead, LineIsAny
  <2>2. s.group \in DOMAIN s.tmp
    <3>1. N \in 0..N
      BY <1>2
    <3>2. PICK j \in 1..N : f[j].t = "group" /\ f[j].g = Section(f, N)
      BY <1>1, <1>13, <3>1, SectionHead
    <3>3. j \in Heads(f)
      BY <3>2, LongerFile DEF Heads
    <3> QED
      BY <1>1, <3>2, <3>3 DEF Describes
  <2>3. l.k \notin DOMAIN s.tmp[s.group].items
    BY <1>13, <2>2 DEF has_key, has_group
  <2>4. Describes(set_value(s.tmp, s.group, l.k, l.v, c, N + 1), h)
    BY <1>1, <1>3, <1>13, <2>2, <2>3, DescribesItem
  <2>5. ~Defective(h, N + 1)
    BY <1>13, LastDefect
  <2> HIDE DEF r, h, c, N, n
  <2>6. Pending(r) = CommentOf(h, N + 2) /\ r.group = Section(h, N + 1) /\ Describes(r.tmp, h)
    BY <1>2, <1>5, <1>6, <1>13, <2>1, <2>4 DEF Pending
  <2> QED
    BY <1>7, <2>1, <2>5, <2>6 DEF r, h
<1>14. l.t \in {"empty", "badgroup", "noequals", "nokey", "comment", "group", "item"}
  BY LineForms, LineIsAny
<1> QED
  BY <1>8, <1>9, <1>10, <1>11, <1>12, <1>13, <1>14

\* Nothing has been read.
LEMMA StartRead == HasRead(StartState, <<>>)
<1>1. EmptyKeyfile \in Keyfiles /\ DOMAIN EmptyKeyfile = {}
  BY KeyfilesAre DEF EmptyKeyfile
<1> HIDE DEF EmptyKeyfile
<1>2. StartState \in States /\ StartState.err = NoError /\ StartState.line_number = 0
      /\ StartState.group = "" /\ Pending(StartState) = <<>> /\ StartState.tmp = EmptyKeyfile
  BY <1>1, NoComment DEF StartState, States, NoError, ErrorCodes, Pending
<1> HIDE DEF StartState
<1>3. Len(<<>>) = 0 /\ DOMAIN <<>> = {}
  OBVIOUS
<1>4. Section(<<>>, 0) = ""
  BY DEF Section
<1>5. CommentOf(<<>>, 0 + 1) = <<>>
  <2>1. CommentLines(<<>>, 1) = {}
    BY DEF CommentLines
  <2>2. Cardinality({}) = 0
    BY FS_EmptySet
  <2>3. CommentOf(<<>>, 1) = [n \in 1..Cardinality({}) |-> (<<>>)[Nth({}, n)].c]
    BY <2>1 DEF CommentOf
  <2>4. [n \in 1..0 |-> (<<>>)[Nth({}, n)].c] = <<>>
    OBVIOUS
  <2>5. CommentOf(<<>>, 1) = <<>>
    BY <2>2, <2>3, <2>4
  <2> QED
    BY <2>5
<1>6. Describes(EmptyKeyfile, <<>>)
  BY <1>1, <1>3 DEF Describes, Heads, Settings
<1> QED
  BY <1>2, <1>3, <1>4, <1>5, <1>6 DEF HasRead

\* The invariant of reading: the parser has read the file so far, and the target
\* is as it was.
KeyInv ==
    /\ file \in Seq(Line)
    /\ phase = "reading" => HasRead(state, file) /\ kf = before
    /\ LoadIsExact

\* It holds all the time.
THEOREM KeyInvHolds == KeyfileSpec => []KeyInv
<1>1. KeyfileInit => KeyInv
  <2> SUFFICES ASSUME KeyfileInit
               PROVE  KeyInv
    OBVIOUS
  <2>1. file = <<>> /\ state = StartState /\ phase = "reading" /\ kf = before
    BY DEF KeyfileInit
  <2>2. file \in Seq(Line) /\ HasRead(state, file)
    BY <2>1, StartRead
  <2> QED
    BY <2>1, <2>2 DEF KeyInv, LoadIsExact
<1>2. KeyInv /\ [KeyfileNext]_keyfile_vars => KeyInv'
  <2> SUFFICES ASSUME KeyInv, [KeyfileNext]_keyfile_vars
               PROVE  KeyInv'
    OBVIOUS
  <2>0. file \in Seq(Line)
    BY DEF KeyInv
  <2>1. ASSUME NEW l \in Line, GetLine(l)
        PROVE  KeyInv'
    <3>1. /\ HasRead(state, file) /\ kf' = kf /\ kf = before /\ before' = before
          /\ file' = Append(file, l) /\ state' = ReadOne(state, l)
          /\ phase' = IF state'.err = NoError THEN "reading" ELSE "failed"
      BY <2>1 DEF GetLine, KeyInv
    <3>2. file' \in Seq(Line) /\ Len(file') = Len(file) + 1 /\ Len(file) \in Nat
      BY <2>0, <3>1
    <3>3. CASE state'.err = NoError
      <4>1. HasRead(state', file')
        BY <2>0, <3>1, <3>3, ReadingGoesOn
      <4> QED
        BY <3>1, <3>2, <3>3, <4>1 DEF KeyInv, LoadIsExact
    <3>4. CASE state'.err # NoError
      <4>1. /\ {i \in DOMAIN file' : Defective(file', i)} = {Len(file')}
            /\ state'.err.line = Len(file') - (IF state'.err.code \in ParseErrors THEN 1 ELSE 0)
        BY <2>0, <3>1, <3>2, <3>4, ReadingGoesOn
      <4> QED
        BY <3>1, <3>2, <3>4, <4>1 DEF KeyInv, LoadIsExact
    <3> QED
      BY <3>3, <3>4
  <2>2. CASE EndOfFile
    <3>1. /\ HasRead(state, file) /\ kf = before /\ kf' = Merge(kf, state.tmp)
          /\ before' = before /\ file' = file /\ state' = state /\ phase' = "loaded"
      BY <2>2 DEF EndOfFile, KeyInv
    <3>2. state.tmp = Meaning(file)
      BY <2>0, <3>1, DescribedIsMeant DEF HasRead
    <3>3. \A i \in DOMAIN file : ~Defective(file, i)
      BY <2>0, <3>1 DEF HasRead
    <3> QED
      BY <2>0, <3>1, <3>2, <3>3 DEF KeyInv, LoadIsExact
  <2>3. ASSUME NEW g \in Groups, RemoveGroup(g)
        PROVE  KeyInv'
    BY <2>0, <2>3 DEF RemoveGroup, KeyInv, LoadIsExact
  <2>4. ASSUME NEW g \in Groups, NEW k \in Keys, RemoveKey(g, k)
        PROVE  KeyInv'
    BY <2>0, <2>4 DEF RemoveKey, KeyInv, LoadIsExact
  <2>5. ASSUME NEW g \in Groups, NEW p \in Priorities, UseGroup(g, p)
        PROVE  KeyInv'
    BY <2>0, <2>5 DEF UseGroup, KeyInv, LoadIsExact
  <2>6. CASE UNCHANGED keyfile_vars
    BY <2>6 DEF keyfile_vars, KeyInv, LoadIsExact
  <2> QED
    BY <2>1, <2>2, <2>3, <2>4, <2>5, <2>6 DEF KeyfileNext
<1> QED
  BY <1>1, <1>2, PTL DEF KeyfileSpec

\* keyfile: whatever file is read, line by line, into whatever keyfile: either all
\* that it says is added, or the first wrong line is reported and nothing changes.
THEOREM LoadsAreExact == KeyfileSpec => []LoadIsExact
<1>1. KeyInv => LoadIsExact
  BY DEF KeyInv
<1> QED
  BY <1>1, KeyInvHolds, PTL

-----------------------------------------------------------------------------
(* Reading several lines. *)

\* The states that the parser goes through.
Runs(g, s, lines) ==
    g[0] = s /\ \A n \in 1..Len(lines) : g[n] = ReadOne(g[n - 1], lines[n])

Reads(s, lines, r) ==
    \E g \in [0..Len(lines) -> States] : Runs(g, s, lines) /\ g[Len(lines)] = r

\* ReadAll ends where the parser does.
LEMMA ReadAllEnds ==
  ASSUME NEW lines \in Seq(AnyLine), NEW s, NEW r, Reads(s, lines, r)
  PROVE  ReadAll(s, lines) = r /\ r \in States
<1> DEFINE N == Len(lines)
           Is(g) == g = [n \in 0..N |-> IF n = 0 THEN s ELSE ReadOne(g[n - 1], lines[n])]
           after == CHOOSE g : Is(g)
<1>1. N \in Nat
  OBVIOUS
<1>2. PICK g \in [0..N -> States] : Runs(g, s, lines) /\ g[N] = r
  BY DEF Reads
<1> HIDE DEF N
<1>3. Is(g)
  BY <1>1, <1>2 DEF Runs, N
<1>4. Is(after)
  BY <1>3
<1>5. ReadAll(s, lines) = after[N]
  BY DEF ReadAll, N
<1> HIDE DEF after
<1> DEFINE S == {n \in 0..N : after[n] = g[n]}
<1>6. 0 \in S
  BY <1>1, <1>3, <1>4
<1>7. \A n \in 1..N : n - 1 \in S => n \in S
  <2> SUFFICES ASSUME NEW n \in 1..N, n - 1 \in S
               PROVE  n \in S
    OBVIOUS
  <2>1. n \in 0..N /\ n # 0
    BY <1>1
  <2>2. after[n] = ReadOne(after[n - 1], lines[n]) /\ g[n] = ReadOne(g[n - 1], lines[n])
    BY <1>3, <1>4, <2>1
  <2> QED
    BY <2>1, <2>2
<1>8. N \in S
  <2> HIDE DEF S
  <2>1. \A n \in 0..N : n \in S
    BY <1>1, <1>6, <1>7, UpTo
  <2>2. N \in 0..N
    BY <1>1
  <2> QED
    BY <2>1, <2>2
<1> QED
  BY <1>1, <1>2, <1>5, <1>8

\* No lines, and one.
LEMMA ReadsShort ==
  ASSUME NEW s \in States
  PROVE  /\ Reads(s, <<>>, s)
         /\ \A l \in AnyLine : ReadOne(s, l) \in States => Reads(s, <<l>>, ReadOne(s, l))
<1>1. Reads(s, <<>>, s)
  <2> DEFINE g == [n \in 0..0 |-> s]
  <2>1. g \in [0..0 -> States] /\ Runs(g, s, <<>>) /\ g[0] = s
    BY DEF Runs
  <2> HIDE DEF g
  <2> QED
    BY <2>1 DEF Reads
<1>2. ASSUME NEW l \in AnyLine, ReadOne(s, l) \in States
      PROVE  Reads(s, <<l>>, ReadOne(s, l))
  <2> DEFINE g == [n \in 0..1 |-> IF n = 0 THEN s ELSE ReadOne(s, l)]
  <2>1. g \in [0..1 -> States] /\ g[0] = s /\ g[1] = ReadOne(s, l)
    BY <1>2
  <2> HIDE DEF g
  <2>2. Len(<<l>>) = 1 /\ <<l>>[1] = l
    OBVIOUS
  <2>3. Runs(g, s, <<l>>)
    BY <2>1, <2>2 DEF Runs
  <2> QED
    BY <2>1, <2>2, <2>3 DEF Reads
<1> QED
  BY <1>1, <1>2

\* Lines and more lines.
LEMMA ReadsBoth ==
  ASSUME NEW a \in Seq(AnyLine), NEW b \in Seq(AnyLine), NEW s, NEW r, NEW q,
         Reads(s, a, r), Reads(r, b, q)
  PROVE  Reads(s, a \o b, q)
<1> DEFINE A == Len(a)
           B == Len(b)
<1>1. A \in Nat /\ B \in Nat /\ Len(a \o b) = A + B
  OBVIOUS
<1>2. /\ \A i \in 1..A : (a \o b)[i] = a[i]
      /\ \A i \in (A + 1)..(A + B) : (a \o b)[i] = b[i - A]
  BY ConcatProperties
<1>3. PICK g \in [0..A -> States] : Runs(g, s, a) /\ g[A] = r
  BY DEF Reads
<1>4. PICK h \in [0..B -> States] : Runs(h, r, b) /\ h[B] = q
  BY DEF Reads
<1>5. /\ g[0] = s /\ \A n \in 1..A : g[n] = ReadOne(g[n - 1], a[n])
      /\ h[0] = r /\ \A n \in 1..B : h[n] = ReadOne(h[n - 1], b[n])
  BY <1>3, <1>4 DEF Runs
<1> DEFINE j == [n \in 0..(A + B) |-> IF n <= A THEN g[n] ELSE h[n - A]]
<1> HIDE DEF A, B
<1>6. j \in [0..(A + B) -> States]
  BY <1>1, <1>3, <1>4
<1>7. j[0] = s
  BY <1>1, <1>5
<1>8. j[A + B] = q
  BY <1>1, <1>3, <1>4, <1>5
<1>9. ASSUME NEW n \in 1..(A + B)
      PROVE  j[n] = ReadOne(j[n - 1], (a \o b)[n])
  <2>1. CASE n <= A
    <3>1. n \in 1..A /\ n - 1 \in 0..(A + B) /\ n \in 0..(A + B) /\ n - 1 <= A
      BY <1>1, <2>1
    <3>2. j[n] = g[n] /\ j[n - 1] = g[n - 1]
      BY <2>1, <3>1
    <3> QED
      BY <1>2, <1>5, <3>1, <3>2
  <2>2. CASE n > A
    <3>1. n \in (A + 1)..(A + B) /\ n - A \in 1..B /\ (n - A) - 1 = (n - 1) - A
          /\ n - 1 \in 0..(A + B) /\ n \in 0..(A + B)
      BY <1>1, <2>2
    <3>2. j[n] = h[n - A]
      BY <1>1, <2>2, <3>1
    <3>3. j[n - 1] = h[(n - A) - 1]
      <4>1. CASE n - 1 = A
        BY <1>1, <1>3, <1>5, <3>1, <4>1
      <4>2. CASE n - 1 # A
        BY <1>1, <2>2, <3>1, <4>2
      <4> QED
        BY <4>1, <4>2
    <3>4. h[n - A] = ReadOne(h[(n - A) - 1], b[n - A])
      BY <1>5, <3>1
    <3> HIDE DEF j
    <3> QED
      BY <1>2, <3>1, <3>2, <3>3, <3>4
  <2> QED
    BY <1>1, <2>1, <2>2
<1> HIDE DEF j
<1>10. Runs(j, s, a \o b)
  BY <1>1, <1>7, <1>9 DEF Runs
<1> QED
  BY <1>1, <1>6, <1>8, <1>10 DEF Reads

-----------------------------------------------------------------------------
(* Comments. *)

\* The lines of a comment that are printed.
Shown(c) == IF c # <<>> /\ Last(c) = "" THEN Front(c) ELSE c

Blank(text) == text = ""

\* A comment is a sequence, the first line of which is not empty.
LEMMA CommentForm ==
  ASSUME NEW c \in Comments
  PROVE  /\ c \in Seq(Texts) /\ Len(c) \in Nat /\ DOMAIN c = 1..Len(c)
         /\ Len(c) # 0 => ~Blank(c[1])
<1>1. c \in Seq(Texts)
  BY DEF Comments
<1>2. Len(c) \in Nat /\ DOMAIN c = 1..Len(c) /\ (Len(c) # 0 => c # <<>>)
  BY <1>1
<1>3. c # <<>> => ~Blank(c[1])
  BY DEF Comments, Blank
<1> QED
  BY <1>1, <1>2, <1>3

\* The first lines of a sequence, and one more.
LEMMA FirstLines ==
  ASSUME NEW S, NEW d \in Seq(S)
  PROVE  /\ SubSeq(d, 1, 0) = <<>> /\ SubSeq(d, 1, Len(d)) = d
         /\ \A n \in 0..Len(d) : SubSeq(d, 1, n) \in Seq(S) /\ Len(SubSeq(d, 1, n)) = n
         /\ \A n \in 1..Len(d) : /\ SubSeq(d, 1, n) = Append(SubSeq(d, 1, n - 1), d[n])
                                 /\ SubSeq(d, 1, n) = SubSeq(d, 1, n - 1) \o <<d[n]>>
                                 /\ d[n] \in S
<1>1. Len(d) \in Nat /\ \A n \in 1..Len(d) : d[n] \in S
  OBVIOUS
<1>2. SubSeq(d, 1, 0) = <<>> /\ SubSeq(d, 1, Len(d)) = d
  BY SubSeqEmpty, SubSeqFull
<1>3. ASSUME NEW n \in 0..Len(d)
      PROVE  /\ SubSeq(d, 1, n) \in Seq(S) /\ Len(SubSeq(d, 1, n)) = n
             /\ \A i \in 1..n : SubSeq(d, 1, n)[i] = d[i]
  <2>1. \A i \in 1..n : d[i] \in S
    BY <1>1
  <2>2. n \in Int /\ 1 \in Int /\ n - 1 + 1 = n
    BY <1>1
  <2>3. SubSeq(d, 1, n) \in Seq(S) /\ Len(SubSeq(d, 1, n)) = IF 1 <= n THEN n - 1 + 1 ELSE 0
    BY <2>1, <2>2, SubSeqProperties
  <2>4. \A i \in 1..(n - 1 + 1) : SubSeq(d, 1, n)[i] = d[1 + i - 1]
    BY <2>1, <2>2, SubSeqProperties
  <2> QED
    BY <1>1, <2>2, <2>3, <2>4
<1>4. ASSUME NEW n \in 1..Len(d)
      PROVE  /\ SubSeq(d, 1, n) = Append(SubSeq(d, 1, n - 1), d[n])
             /\ SubSeq(d, 1, n) = SubSeq(d, 1, n - 1) \o <<d[n]>>
  <2> DEFINE a == SubSeq(d, 1, n - 1)
             b == SubSeq(d, 1, n)
  <2>1. /\ a \in Seq(S) /\ Len(a) = n - 1 /\ \A i \in 1..(n - 1) : a[i] = d[i]
        /\ b \in Seq(S) /\ Len(b) = n /\ \A i \in 1..n : b[i] = d[i]
    <3>1. n - 1 \in 0..Len(d) /\ n \in 0..Len(d)
      BY <1>1
    <3> QED
      BY <1>3, <3>1
  <2> HIDE DEF a, b
  <2>2. /\ Append(a, d[n]) \in Seq(S) /\ Len(Append(a, d[n])) = n
        /\ \A i \in 1..n : Append(a, d[n])[i] = b[i]
    BY <1>1, <2>1
  <2>3. b = Append(a, d[n])
    BY <2>1, <2>2, SeqEqual
  <2>4. Append(a, d[n]) = a \o <<d[n]>>
    BY <1>1, <2>1, AppendIsConcat
  <2> QED
    BY <2>3, <2>4 DEF a, b
<1> QED
  BY <1>1, <1>2, <1>3, <1>4

\* What print_comment prints says the same, but for empty lines at the end.
LEMMA ShownComment ==
  ASSUME NEW c \in Comments
  PROVE  /\ Shown(c) \in Comments /\ Trimmed(Shown(c)) = Trimmed(c)
         /\ print_comment(c) \in Seq(AnyLine) /\ Len(print_comment(c)) = Len(Shown(c))
         /\ \A i \in 1..Len(Shown(c)) : print_comment(c)[i] = [t |-> "comment", c |-> Shown(c)[i]]
<1> DEFINE d == Shown(c)
           L == print_comment(c)
<1>1. c \in Seq(Texts) /\ Len(c) \in Nat /\ DOMAIN c = 1..Len(c) /\ (Len(c) # 0 => ~Blank(c[1]))
  BY CommentForm
<1>3. d \in Comments /\ Trimmed(d) = Trimmed(c)
  <2>1. CASE c = <<>> \/ Last(c) # ""
    BY <2>1 DEF Shown
  <2>2. CASE c # <<>> /\ Last(c) = ""
    <3>0. c # <<>> /\ Blank(c[Len(c)])
      BY <2>2 DEF Last, Blank
    <3>1. Len(c) # 0 /\ ~Blank(c[1])
      BY <1>1, <3>0
    <3>2. Len(c) - 1 \in 0..Len(c) /\ Len(c) - 1 # 0 /\ Len(c) - 1 \in Nat
      BY <1>1, <3>0, <3>1
    <3>3. d = SubSeq(c, 1, Len(c) - 1)
      BY <2>2 DEF Shown, Front
    <3>4. d \in Seq(Texts) /\ Len(d) = Len(c) - 1
      BY <1>1, <3>2, <3>3, FirstLines
    <3>5. \A i \in 1..(Len(c) - 1) : d[i] = c[i]
      BY <1>1, <3>2, <3>3
    <3>6. DOMAIN d = 1..(Len(c) - 1) /\ ~Blank(d[1]) /\ d # <<>>
      BY <3>1, <3>2, <3>4, <3>5
    <3> HIDE DEF d
    <3>7. d \in Comments
      BY <3>4, <3>6 DEF Comments, Blank
    <3> DEFINE full(x) == {j \in DOMAIN x : ~Blank(x[j])}
    <3>8. full(d) = full(c) /\ full(c) \in SUBSET (1..(Len(c) - 1)) /\ 1 \in full(c)
      BY <1>1, <3>0, <3>1, <3>2, <3>5, <3>6
    <3>9. Trimmed(c) = SubSeq(c, 1, Max(full(c))) /\ Trimmed(d) = SubSeq(d, 1, Max(full(c)))
      BY <3>8 DEF Trimmed, Blank
    <3>10. Max(full(c)) \in 1..(Len(c) - 1)
      <4> HIDE DEF full
      <4> QED
        BY <3>2, <3>8, LargestExists
    <3> HIDE DEF full
    <3>11. SubSeq(c, 1, Max(full(c))) = SubSeq(d, 1, Max(full(c)))
      <4> DEFINE M == Max(full(c))
      <4>1. M \in 1..(Len(c) - 1)
        BY <3>10
      <4> HIDE DEF M
      <4>2. M \in 0..Len(c) /\ M \in 0..Len(d) /\ \A i \in 1..M : c[i] = d[i]
        BY <1>1, <3>2, <3>4, <3>5, <4>1
      <4>3. /\ SubSeq(c, 1, M) \in Seq(Texts) /\ Len(SubSeq(c, 1, M)) = M
            /\ \A i \in 1..M : SubSeq(c, 1, M)[i] = c[i]
        BY <1>1, <4>1, <4>2
      <4>4. /\ SubSeq(d, 1, M) \in Seq(Texts) /\ Len(SubSeq(d, 1, M)) = M
            /\ \A i \in 1..M : SubSeq(d, 1, M)[i] = d[i]
        BY <3>2, <3>4, <4>1, <4>2
      <4>5. SubSeq(c, 1, M) = SubSeq(d, 1, M)
        BY <4>2, <4>3, <4>4, SeqEqual
      <4> QED
        BY <4>5 DEF M
    <3> QED
      BY <3>7, <3>9, <3>11
  <2> QED
    BY <2>1, <2>2
<1>4. L = [i \in DOMAIN d |-> [t |-> "comment", c |-> d[i]]]
  BY DEF print_comment, Shown
<1>5. d \in Seq(Texts)
  BY <1>3 DEF Comments
<1> HIDE DEF d, L
<1>6. Len(d) \in Nat /\ DOMAIN d = 1..Len(d)
  BY <1>5
<1>7. \A i \in 1..Len(d) : L[i] = [t |-> "comment", c |-> d[i]] /\ L[i] \in AnyLine
  BY <1>4, <1>5, <1>6 DEF AnyLine
<1>8. L = [i \in 1..Len(d) |-> L[i]]
  BY <1>4, <1>6
<1>9. L \in Seq(AnyLine) /\ Len(L) = Len(d)
  BY <1>6, <1>7, <1>8, IsASeq
<1> QED
  BY <1>3, <1>7, <1>9 DEF d, L

\* A printed comment is pending once it is read.
LEMMA CommentReadBack ==
  ASSUME NEW s \in States, s.err = NoError, Pending(s) = <<>>, NEW c \in Comments
  PROVE  \E r \in States : /\ Reads(s, print_comment(c), r) /\ r.err = NoError
                           /\ r.group = s.group /\ r.tmp = s.tmp /\ Pending(r) = Shown(c)
<1> DEFINE d == Shown(c)
           L == print_comment(c)
           Good(n, r) == /\ Reads(s, SubSeq(L, 1, n), r) /\ r.err = NoError
                         /\ r.group = s.group /\ r.tmp = s.tmp /\ Pending(r) = SubSeq(d, 1, n)
           S == {n \in 0..Len(d) : \E r \in States : Good(n, r)}
<1>1. /\ d \in Comments /\ L \in Seq(AnyLine) /\ Len(L) = Len(d)
      /\ \A i \in 1..Len(d) : L[i] = [t |-> "comment", c |-> d[i]]
  BY ShownComment
<1>2. d \in Seq(Texts) /\ Len(d) \in Nat /\ (Len(d) # 0 => ~Blank(d[1]))
  BY <1>1, CommentForm
<1> HIDE DEF d, L
<1>3. 0 \in S
  <2>1. SubSeq(L, 1, 0) = <<>> /\ SubSeq(d, 1, 0) = <<>>
    BY <1>1, <1>2, FirstLines
  <2>2. Good(0, s)
    BY <2>1, ReadsShort
  <2> HIDE DEF Good
  <2> QED
    BY <1>2, <2>2
<1>4. ASSUME NEW n \in 1..Len(d), n - 1 \in S
      PROVE  n \in S
  <2>1. PICK q \in States : Good(n - 1, q)
    BY <1>4
  <2> DEFINE l == L[n]
             r == ReadOne(q, l)
  <2>2. l \in AnyLine /\ l.t = "comment" /\ l.c = d[n] /\ n \in 1..Len(L)
    <3>1. n \in 1..Len(L)
      BY <1>1
    <3>2. l \in AnyLine
      BY <1>1, <3>1
    <3>3. l = [t |-> "comment", c |-> d[n]]
      BY <1>1
    <3> QED
      BY <3>1, <3>2, <3>3
  <2> HIDE DEF l
  <2>3. /\ r \in States /\ r.err = NoError /\ r.group = q.group /\ r.set = "none"
        /\ r.comment = AddComment(Pending(q), d[n]) /\ r.tmp = q.tmp
    BY <2>1, <2>2, LineRead
  <2>4. SubSeq(d, 1, n) = Append(SubSeq(d, 1, n - 1), d[n])
        /\ Len(SubSeq(d, 1, n - 1)) = n - 1
    BY <1>2, FirstLines
  <2>5. AddComment(SubSeq(d, 1, n - 1), d[n]) = SubSeq(d, 1, n)
    <3>1. n = 1 => ~Blank(d[n])
      BY <1>2
    <3>2. n # 1 => SubSeq(d, 1, n - 1) # <<>>
      BY <2>4
    <3> QED
      BY <2>4, <3>1, <3>2 DEF AddComment, Blank
  <2>6. SubSeq(L, 1, n) = SubSeq(L, 1, n - 1) \o <<l>> /\ SubSeq(L, 1, n - 1) \in Seq(AnyLine)
    <3>1. n - 1 \in 0..Len(L)
      BY <1>2, <2>2
    <3> QED
      BY <1>1, <2>2, <3>1, FirstLines DEF l
  <2>7. Reads(q, <<l>>, r) /\ <<l>> \in Seq(AnyLine)
    BY <2>2, <2>3, ReadsShort
  <2> HIDE DEF r
  <2>8. Reads(s, SubSeq(L, 1, n), r)
    BY <2>1, <2>6, <2>7, ReadsBoth
  <2>9. Good(n, r)
    BY <2>1, <2>3, <2>5, <2>8 DEF Pending
  <2> HIDE DEF Good
  <2> QED
    BY <1>2, <2>3, <2>9
<1>5. Len(d) \in S
  <2> HIDE DEF S
  <2>1. \A n \in 0..Len(d) : n \in S
    BY <1>2, <1>3, <1>4, UpTo
  <2> QED
    BY <1>2, <2>1
<1>6. PICK r \in States : Good(Len(d), r)
  BY <1>5
<1>7. SubSeq(L, 1, Len(d)) = L /\ SubSeq(d, 1, Len(d)) = d
  BY <1>1, <1>2, FirstLines
<1> QED
  BY <1>6, <1>7 DEF d, L

-----------------------------------------------------------------------------
(* Items. *)

\* Two items say the same, but for lines and empty lines at the end of a comment.
SameItem(a, b) == a.value = b.value /\ Trimmed(a.comment) = Trimmed(b.comment)

\* Two maps of items.
SameItems(m, p) ==
    DOMAIN m = DOMAIN p /\ \A k \in DOMAIN p : SameItem(m[k], p[k])

\* A group of a keyfile.
LEMMA GroupForm ==
  ASSUME NEW f \in Keyfiles, NEW g \in DOMAIN f
  PROVE  /\ g \in Groups /\ f[g] \in GroupData /\ f[g].comment \in Comments /\ f[g].line \in Nat
         /\ DOMAIN f[g].items \subseteq Keys
         /\ \A k \in DOMAIN f[g].items :
              /\ f[g].items[k] \in Items /\ f[g].items[k].value \in Values
              /\ f[g].items[k].comment \in Comments
<1>1. g \in Groups /\ f[g] \in GroupData
  BY KeyfilesAre
<1>2. f[g].items \in ItemMaps /\ f[g].comment \in Comments /\ f[g].line \in Nat
  BY <1>1 DEF GroupData
<1>3. DOMAIN f[g].items \subseteq Keys /\ f[g].items \in [DOMAIN f[g].items -> Items]
  BY <1>2, ItemMapsAre
<1>4. \A x \in Items : x.value \in Values /\ x.comment \in Comments
  BY DEF Items
<1> QED
  BY <1>1, <1>2, <1>3, <1>4

\* An item is printed as lines.
LEMMA ItemLinesAre ==
  ASSUME NEW f \in Keyfiles, NEW g \in DOMAIN f, NEW k \in DOMAIN f[g].items
  PROVE  LET line == [t |-> "item", k |-> k, v |-> f[g].items[k].value]
         IN  /\ line \in AnyLine /\ print_comment(f[g].items[k].comment) \in Seq(AnyLine)
             /\ PrintItem(f, g, k) = print_comment(f[g].items[k].comment) \o <<line>>
             /\ PrintItem(f, g, k) \in Seq(AnyLine)
<1> DEFINE line == [t |-> "item", k |-> k, v |-> f[g].items[k].value]
           L == print_comment(f[g].items[k].comment)
<1>1. line \in AnyLine
  <2>1. k \in Keys /\ f[g].items[k].value \in Values
    BY GroupForm
  <2> QED
    BY <2>1 DEF AnyLine
<1>2. L \in Seq(AnyLine)
  BY GroupForm, ShownComment
<1>3. PrintItem(f, g, k) = L \o <<line>>
  BY DEF PrintItem
<1> HIDE DEF L, line
<1>4. L \o <<line>> \in Seq(AnyLine)
  BY <1>1, <1>2
<1> QED
  BY <1>1, <1>2, <1>3, <1>4 DEF L, line

\* A printed item is read back into the group that is being read.
LEMMA ItemReadBack ==
  ASSUME NEW f \in Keyfiles, NEW g \in DOMAIN f, NEW k \in DOMAIN f[g].items,
         NEW s \in States, s.err = NoError, Pending(s) = <<>>, s.group = g,
         g \in DOMAIN s.tmp, k \notin DOMAIN s.tmp[g].items
  PROVE  \E r \in States :
            /\ Reads(s, PrintItem(f, g, k), r) /\ r.err = NoError /\ r.group = g
            /\ Pending(r) = <<>> /\ DOMAIN r.tmp = DOMAIN s.tmp
            /\ \A x \in DOMAIN s.tmp : x # g => r.tmp[x] = s.tmp[x]
            /\ r.tmp[g].comment = s.tmp[g].comment
            /\ DOMAIN r.tmp[g].items = DOMAIN s.tmp[g].items \cup {k}
            /\ SameItem(r.tmp[g].items[k], f[g].items[k])
            /\ \A x \in DOMAIN s.tmp[g].items : r.tmp[g].items[x] = s.tmp[g].items[x]
<1> DEFINE line == [t |-> "item", k |-> k, v |-> f[g].items[k].value]
           c == f[g].items[k].comment
           L == print_comment(c)
<1>1. /\ line \in AnyLine /\ L \in Seq(AnyLine) /\ PrintItem(f, g, k) = L \o <<line>>
      /\ line.t = "item" /\ line.k = k /\ line.v = f[g].items[k].value
  BY ItemLinesAre
<1>2. /\ c \in Comments /\ k \in Keys /\ line.v \in Values /\ g \in Groups
  BY <1>1, GroupForm
<1>3. g # ""
  BY <1>2, KeyfileAssumption
<1> HIDE DEF line, L
<1>4. PICK q \in States : /\ Reads(s, L, q) /\ q.err = NoError /\ q.group = g
                          /\ q.tmp = s.tmp /\ Pending(q) = Shown(c)
  BY <1>2, CommentReadBack DEF L
<1> DEFINE r == ReadOne(q, line)
           n == q.line_number + 1
<1>5. ~has_key(q.tmp, q.group, line.k)
  BY <1>1, <1>4 DEF has_key
<1>6. /\ r \in States /\ r.err = NoError /\ r.group = g /\ r.set = "item"
      /\ r.tmp = set_value(s.tmp, g, k, line.v, Shown(c), n)
  BY <1>1, <1>3, <1>4, <1>5, LineRead
<1>7. n \in Nat /\ s.tmp \in Keyfiles /\ Shown(c) \in Comments /\ Trimmed(Shown(c)) = Trimmed(c)
  <2>1. q.line_number \in Nat /\ s.tmp \in Keyfiles
    BY DEF States
  <2> QED
    BY <1>2, <2>1, ShownComment
<1>8. /\ DOMAIN r.tmp = DOMAIN s.tmp
      /\ \A x \in DOMAIN s.tmp : x # g => r.tmp[x] = s.tmp[x]
      /\ r.tmp[g].comment = s.tmp[g].comment
      /\ DOMAIN r.tmp[g].items = DOMAIN s.tmp[g].items \cup {k}
      /\ r.tmp[g].items[k] = Item(line.v, Shown(c), n)
      /\ \A x \in DOMAIN s.tmp[g].items : x # k => r.tmp[g].items[x] = s.tmp[g].items[x]
  <2> HIDE DEF n, c, r
  <2> QED
    BY <1>2, <1>6, <1>7, SetValueIs
<1>9. Reads(s, PrintItem(f, g, k), r)
  <2>1. Reads(q, <<line>>, r) /\ <<line>> \in Seq(AnyLine)
    BY <1>1, <1>6, ReadsShort
  <2> HIDE DEF r
  <2> QED
    BY <1>1, <1>4, <2>1, ReadsBoth
<1>10. Pending(r) = <<>>
  BY <1>6 DEF Pending
<1>11. SameItem(r.tmp[g].items[k], f[g].items[k])
  <2> HIDE DEF r
  <2> QED
    BY <1>1, <1>7, <1>8 DEF SameItem, Item
<1> HIDE DEF r, n
<1> QED
  BY <1>6, <1>8, <1>9, <1>10, <1>11

\* PrintItems prints key after key.
LEMMA PrintItemsIs ==
  ASSUME NEW f \in Keyfiles, NEW g \in DOMAIN f
  PROVE  \E p \in [0..Len(KeyOrder) -> Seq(AnyLine)] :
            /\ PrintItems(f, g) = p[Len(KeyOrder)] /\ p[0] = <<>>
            /\ \A n \in 1..Len(KeyOrder) :
                 p[n] = p[n - 1] \o IF has_key(f, g, KeyOrder[n]) THEN PrintItem(f, g, KeyOrder[n])
                                    ELSE <<>>
<1> DEFINE N == Len(KeyOrder)
           V == Seq(AnyLine)
           Part(n) == IF has_key(f, g, KeyOrder[n]) THEN PrintItem(f, g, KeyOrder[n]) ELSE <<>>
           Is(p) == p = [n \in 0..N |-> IF n = 0 THEN <<>> ELSE p[n - 1] \o Part(n)]
           t == [x \in V \X (1..N) |-> x[1] \o Part(x[2])]
<1>1. N \in Nat
  BY Orders
<1>2. PrintItems(f, g) = (CHOOSE p : Is(p))[N]
  BY DEF PrintItems
<1>3. \A n \in 1..N : Part(n) \in V
  <2> TAKE n \in 1..N
  <2>1. CASE has_key(f, g, KeyOrder[n])
    <3>1. KeyOrder[n] \in DOMAIN f[g].items
      BY <2>1 DEF has_key
    <3>2. PrintItem(f, g, KeyOrder[n]) \in V
      BY <3>1, ItemLinesAre
    <3> QED
      BY <2>1, <3>2
  <2>2. CASE ~has_key(f, g, KeyOrder[n])
    BY <2>2
  <2> QED
    BY <2>1, <2>2
<1> HIDE DEF Part, N
<1>4. <<>> \in V /\ t \in [V \X (1..N) -> V]
  BY <1>3, ConcatProperties
<1> HIDE DEF V
<1>5. PICK p \in [0..N -> V] : p[0] = <<>> /\ \A n \in 1..N : p[n] = t[<<p[n - 1], n>>]
  <2> DEFINE u == <<>>
  <2> HIDE DEF t, u
  <2>1. IsLoop(N, V, u, t)
    BY <1>1, <1>4 DEF u, IsLoop
  <2>2. HasResult(N, V, u, t)
    BY <2>1, LoopRuns
  <2> QED
    BY <2>2 DEF u, HasResult
<1>6. \A n \in 1..N : p[n] = p[n - 1] \o Part(n)
  <2> TAKE n \in 1..N
  <2>1. p[n - 1] \in V
    BY <1>1
  <2>2. p[n] = t[<<p[n - 1], n>>]
    <3> HIDE DEF t
    <3> QED
      BY <1>5
  <2> QED
    BY <2>1, <2>2
<1> HIDE DEF t
<1>7. Is(p)
  BY <1>1, <1>5, <1>6
<1> DEFINE q == CHOOSE p1 : Is(p1)
<1>8. Is(q)
  BY <1>7
<1> HIDE DEF q
<1>9. q = p
  <2> DEFINE S == {n \in 0..N : q[n] = p[n]}
  <2>1. 0 \in S
    BY <1>1, <1>7, <1>8
  <2>2. ASSUME NEW n \in 1..N, n - 1 \in S
        PROVE  n \in S
    <3>1. n \in 0..N /\ n # 0
      BY <1>1
    <3>2. q[n] = q[n - 1] \o Part(n) /\ p[n] = p[n - 1] \o Part(n)
      BY <1>7, <1>8, <3>1
    <3> QED
      BY <2>2, <3>1, <3>2
  <2>3. \A n \in 0..N : n \in S
    <3> HIDE DEF S
    <3> QED
      BY <1>1, <2>1, <2>2, UpTo
  <2> QED
    BY <1>7, <1>8, <2>3
<1>10. PrintItems(f, g) = p[N]
  BY <1>2, <1>9 DEF q
<1> QED
  BY <1>5, <1>6, <1>10 DEF Part, N, V

\* The keys of a group that come among the first n.
Done(f, g, n) == {k \in DOMAIN f[g].items : \E i \in 1..n : KeyOrder[i] = k}

\* One more key.
LEMMA DoneNext ==
  ASSUME NEW f \in Keyfiles, NEW g \in DOMAIN f
  PROVE  /\ Done(f, g, 0) = {} /\ Done(f, g, Len(KeyOrder)) = DOMAIN f[g].items
         /\ \A n \in 1..Len(KeyOrder) :
              IF has_key(f, g, KeyOrder[n])
              THEN /\ KeyOrder[n] \notin Done(f, g, n - 1)
                   /\ Done(f, g, n) = Done(f, g, n - 1) \cup {KeyOrder[n]}
              ELSE Done(f, g, n) = Done(f, g, n - 1)
<1>1. /\ Len(KeyOrder) \in Nat /\ DOMAIN KeyOrder = 1..Len(KeyOrder)
      /\ \A k \in Keys : \E n \in 1..Len(KeyOrder) : KeyOrder[n] = k
  BY Orders
<1>2. DOMAIN f[g].items \subseteq Keys
  BY GroupForm
<1>3. Done(f, g, 0) = {} /\ Done(f, g, Len(KeyOrder)) = DOMAIN f[g].items
  BY <1>1, <1>2 DEF Done
<1>4. ASSUME NEW n \in 1..Len(KeyOrder)
      PROVE  IF has_key(f, g, KeyOrder[n])
             THEN /\ KeyOrder[n] \notin Done(f, g, n - 1)
                  /\ Done(f, g, n) = Done(f, g, n - 1) \cup {KeyOrder[n]}
             ELSE Done(f, g, n) = Done(f, g, n - 1)
  <2>1. \A i \in 1..(n - 1) : i \in 1..Len(KeyOrder) /\ i # n
    BY <1>1
  <2>2. 1..n = (1..(n - 1)) \cup {n}
    BY <1>1
  <2>3. \A i \in 1..(n - 1) : KeyOrder[i] # KeyOrder[n]
    BY <1>1, <2>1, KeyfileAssumption DEF Distinct
  <2>4. Done(f, g, n) = Done(f, g, n - 1) \cup ({KeyOrder[n]} \cap DOMAIN f[g].items)
    BY <2>2 DEF Done
  <2>5. has_key(f, g, KeyOrder[n]) <=> KeyOrder[n] \in DOMAIN f[g].items
    BY DEF has_key, has_group
  <2>6. KeyOrder[n] \notin Done(f, g, n - 1)
    BY <2>3 DEF Done
  <2> QED
    BY <2>4, <2>5, <2>6
<1> QED
  BY <1>3, <1>4

\* The items of a group are read back into a group without any.
LEMMA ItemsReadBack ==
  ASSUME NEW f \in Keyfiles, NEW g \in DOMAIN f,
         NEW s \in States, s.err = NoError, Pending(s) = <<>>, s.group = g,
         g \in DOMAIN s.tmp, DOMAIN s.tmp[g].items = {}
  PROVE  /\ PrintItems(f, g) \in Seq(AnyLine)
         /\ \E r \in States :
              /\ Reads(s, PrintItems(f, g), r) /\ r.err = NoError /\ Pending(r) = <<>>
              /\ DOMAIN r.tmp = DOMAIN s.tmp
              /\ \A x \in DOMAIN s.tmp : x # g => r.tmp[x] = s.tmp[x]
              /\ r.tmp[g].comment = s.tmp[g].comment
              /\ SameItems(r.tmp[g].items, f[g].items)
<1> DEFINE N == Len(KeyOrder)
<1>1. N \in Nat
  BY Orders
<1>2. PICK p \in [0..N -> Seq(AnyLine)] :
            /\ PrintItems(f, g) = p[N] /\ p[0] = <<>>
            /\ \A n \in 1..N :
                 p[n] = p[n - 1] \o IF has_key(f, g, KeyOrder[n]) THEN PrintItem(f, g, KeyOrder[n])
                                    ELSE <<>>
  BY PrintItemsIs
<1> DEFINE Good(n, r) == /\ Reads(s, p[n], r) /\ r.err = NoError /\ Pending(r) = <<>>
                         /\ r.group = g /\ DOMAIN r.tmp = DOMAIN s.tmp
                         /\ \A x \in DOMAIN s.tmp : x # g => r.tmp[x] = s.tmp[x]
                         /\ r.tmp[g].comment = s.tmp[g].comment
                         /\ DOMAIN r.tmp[g].items = Done(f, g, n)
                         /\ \A x \in Done(f, g, n) : SameItem(r.tmp[g].items[x], f[g].items[x])
           S == {n \in 0..N : \E r \in States : Good(n, r)}
<1>3. 0 \in S
  <2>1. Good(0, s)
    BY <1>2, ReadsShort, DoneNext
  <2> HIDE DEF Good
  <2> QED
    BY <1>1, <2>1
<1>4. ASSUME NEW n \in 1..N, n - 1 \in S
      PROVE  n \in S
  <2>1. PICK q \in States : Good(n - 1, q)
    BY <1>4
  <2> DEFINE k == KeyOrder[n]
  <2>2. n \in 0..N /\ n - 1 \in 0..N
    BY <1>1
  <2>3. p[n - 1] \in Seq(AnyLine)
    BY <2>2
  <2>4. CASE has_key(f, g, k)
    <3>1. k \in DOMAIN f[g].items
      BY <2>4 DEF has_key
    <3>2. k \notin Done(f, g, n - 1) /\ Done(f, g, n) = Done(f, g, n - 1) \cup {k}
      BY <2>4, DoneNext
    <3>3. p[n] = p[n - 1] \o PrintItem(f, g, k) /\ PrintItem(f, g, k) \in Seq(AnyLine)
      BY <1>2, <2>4, <3>1, ItemLinesAre
    <3> HIDE DEF k
    <3>a. /\ q.err = NoError /\ Pending(q) = <<>> /\ q.group = g /\ g \in DOMAIN q.tmp
          /\ k \notin DOMAIN q.tmp[g].items
      BY <2>1, <3>2
    <3> HIDE DEF Good
    <3>4. PICK r \in States :
            /\ Reads(q, PrintItem(f, g, k), r) /\ r.err = NoError /\ r.group = g
            /\ Pending(r) = <<>> /\ DOMAIN r.tmp = DOMAIN q.tmp
            /\ \A x \in DOMAIN q.tmp : x # g => r.tmp[x] = q.tmp[x]
            /\ r.tmp[g].comment = q.tmp[g].comment
            /\ DOMAIN r.tmp[g].items = DOMAIN q.tmp[g].items \cup {k}
            /\ SameItem(r.tmp[g].items[k], f[g].items[k])
            /\ \A x \in DOMAIN q.tmp[g].items : r.tmp[g].items[x] = q.tmp[g].items[x]
      BY <3>1, <3>a, ItemReadBack
    <3>5. Reads(s, p[n], r)
      BY <2>1, <2>3, <3>3, <3>4, ReadsBoth DEF Good
    <3>6. Good(n, r)
      BY <2>1, <3>2, <3>4, <3>5 DEF Good
    <3> QED
      BY <2>2, <3>6
  <2>5. CASE ~has_key(f, g, k)
    <3>1. Done(f, g, n) = Done(f, g, n - 1)
      BY <2>5, DoneNext
    <3>2. p[n] = p[n - 1]
      BY <1>2, <2>3, <2>5, ConcatEmptySeq
    <3>3. Good(n, q)
      BY <2>1, <3>1, <3>2
    <3> HIDE DEF Good
    <3> QED
      BY <2>2, <3>3
  <2> QED
    BY <2>4, <2>5
<1>5. N \in S
  <2> HIDE DEF S
  <2>1. \A n \in 0..N : n \in S
    BY <1>1, <1>3, <1>4, UpTo
  <2> QED
    BY <1>1, <2>1
<1>6. PICK r \in States : Good(N, r)
  BY <1>5
<1>7. Done(f, g, N) = DOMAIN f[g].items
  BY DoneNext
<1>8. SameItems(r.tmp[g].items, f[g].items)
  BY <1>6, <1>7 DEF SameItems
<1>9. p[N] \in Seq(AnyLine)
  BY <1>1
<1> HIDE DEF N
<1> QED
  BY <1>2, <1>6, <1>8, <1>9

-----------------------------------------------------------------------------
(* Groups. *)

\* Two groups say the same.
SameGroup(a, b) == Trimmed(a.comment) = Trimmed(b.comment) /\ SameItems(a.items, b.items)

\* A keyfile with one more group, which has no items.
GroupAdded(f, g, c, h) ==
    /\ DOMAIN h = DOMAIN f \cup {g} /\ \A x \in DOMAIN f : h[x] = f[x]
    /\ h[g].comment = c /\ DOMAIN h[g].items = {}

\* set_group with a group that is not there.
LEMMA SetGroupIs ==
  ASSUME NEW f \in Keyfiles, NEW g \in Groups, g \notin DOMAIN f, NEW c, NEW n
  PROVE  GroupAdded(f, g, c, set_group(f, g, c, n))
<1> DEFINE new == [items |-> [k \in {} |-> {}], comment |-> c, line |-> n]
           h == [x \in DOMAIN f \cup {g} |-> IF x = g THEN new ELSE f[x]]
<1>1. set_group(f, g, c, n) = h
  BY DEF set_group, has_group
<1>2. new.comment = c /\ DOMAIN new.items = {}
  OBVIOUS
<1> HIDE DEF new
<1>3. DOMAIN h = DOMAIN f \cup {g} /\ (\A x \in DOMAIN f : h[x] = f[x]) /\ h[g] = new
  OBVIOUS
<1> HIDE DEF h
<1> QED
  BY <1>1, <1>2, <1>3 DEF GroupAdded

\* A printed group is read back after groups of other names.
LEMMA GroupReadBack ==
  ASSUME NEW f \in Keyfiles, NEW g \in DOMAIN f,
         NEW s \in States, s.err = NoError, Pending(s) = <<>>, g \notin DOMAIN s.tmp
  PROVE  /\ PrintGroup(f, g) \in Seq(AnyLine)
         /\ \E r \in States :
              /\ Reads(s, PrintGroup(f, g), r) /\ r.err = NoError /\ Pending(r) = <<>>
              /\ DOMAIN r.tmp = DOMAIN s.tmp \cup {g}
              /\ \A x \in DOMAIN s.tmp : r.tmp[x] = s.tmp[x]
              /\ SameGroup(r.tmp[g], f[g])
<1> DEFINE line == [t |-> "group", g |-> g]
           c == f[g].comment
           A == print_comment(c)
           C == PrintItems(f, g)
<1>1. c \in Comments /\ g \in Groups
  BY GroupForm
<1>2. line \in AnyLine /\ line.t = "group" /\ line.g = g
  BY <1>1 DEF AnyLine
<1>3. A \in Seq(AnyLine) /\ Trimmed(Shown(c)) = Trimmed(c) /\ Shown(c) \in Comments
  BY <1>1, ShownComment
<1>4. PrintGroup(f, g) = (A \o <<line>>) \o C
  BY DEF PrintGroup
<1> HIDE DEF line, A, C
<1>5. PICK q \in States : /\ Reads(s, A, q) /\ q.err = NoError
                          /\ q.tmp = s.tmp /\ Pending(q) = Shown(c)
  BY <1>1, CommentReadBack DEF A
<1> DEFINE h == ReadOne(q, line)
           n == q.line_number + 1
<1>6. /\ h \in States /\ h.err = NoError /\ h.group = g /\ h.set = "group"
      /\ h.tmp = set_group(s.tmp, g, Shown(c), n)
  BY <1>2, <1>5, LineRead
<1>7. Reads(q, <<line>>, h) /\ <<line>> \in Seq(AnyLine)
  BY <1>2, <1>6, ReadsShort
<1> HIDE DEF h, n
<1>8. Pending(h) = <<>>
  BY <1>6 DEF Pending
<1>9. A \o <<line>> \in Seq(AnyLine) /\ Reads(s, A \o <<line>>, h)
  <2>1. A \o <<line>> \in Seq(AnyLine)
    BY <1>3, <1>7, ConcatProperties
  <2>2. Reads(s, A \o <<line>>, h)
    BY <1>3, <1>5, <1>7, ReadsBoth
  <2> QED
    BY <2>1, <2>2
<1>10. /\ DOMAIN h.tmp = DOMAIN s.tmp \cup {g} /\ \A x \in DOMAIN s.tmp : h.tmp[x] = s.tmp[x]
       /\ h.tmp[g].comment = Shown(c) /\ DOMAIN h.tmp[g].items = {}
  <2>1. s.tmp \in Keyfiles
    BY DEF States
  <2> DEFINE d == Shown(c)
             m == s.tmp
  <2> HIDE DEF c, d, m
  <2>2. m \in Keyfiles /\ g \notin DOMAIN m
    BY <2>1 DEF m
  <2>3. GroupAdded(m, g, d, set_group(m, g, d, n))
    BY <1>1, <2>2, SetGroupIs
  <2>4. h.tmp = set_group(m, g, d, n)
    BY <1>6 DEF m, d
  <2> QED
    BY <2>3, <2>4 DEF m, d, GroupAdded
<1>11. C \in Seq(AnyLine)
  BY <1>6, <1>8, <1>10, ItemsReadBack DEF C
<1>12. PICK r \in States :
              /\ Reads(h, C, r) /\ r.err = NoError /\ Pending(r) = <<>>
              /\ DOMAIN r.tmp = DOMAIN h.tmp
              /\ \A x \in DOMAIN h.tmp : x # g => r.tmp[x] = h.tmp[x]
              /\ r.tmp[g].comment = h.tmp[g].comment
              /\ SameItems(r.tmp[g].items, f[g].items)
  BY <1>6, <1>8, <1>10, ItemsReadBack DEF C
<1>13. Reads(s, PrintGroup(f, g), r) /\ PrintGroup(f, g) \in Seq(AnyLine)
  <2>1. (A \o <<line>>) \o C \in Seq(AnyLine)
    BY <1>9, <1>11, ConcatProperties
  <2>2. Reads(s, (A \o <<line>>) \o C, r)
    BY <1>9, <1>11, <1>12, ReadsBoth
  <2> QED
    BY <1>4, <2>1, <2>2
<1>14. SameGroup(r.tmp[g], f[g])
  BY <1>3, <1>10, <1>12 DEF SameGroup
<1>15. DOMAIN r.tmp = DOMAIN s.tmp \cup {g} /\ \A x \in DOMAIN s.tmp : r.tmp[x] = s.tmp[x]
  BY <1>10, <1>12
<1> QED
  BY <1>12, <1>13, <1>14, <1>15

-----------------------------------------------------------------------------
(* Files. *)

\* The state in which reading starts.
LEMMA Starts ==
  /\ StartState \in States /\ StartState.err = NoError /\ Pending(StartState) = <<>>
  /\ DOMAIN StartState.tmp = {}
<1>1. StartState \in States /\ StartState.err = NoError
  BY StartRead DEF HasRead
<1>2. Pending(StartState) = <<>> /\ DOMAIN StartState.tmp = {}
  BY DEF StartState, Pending, EmptyKeyfile
<1> QED
  BY <1>1, <1>2

\* What stands between two groups.
Between(lines) == IF lines = <<>> THEN <<>> ELSE <<[t |-> "empty"]>>

\* PrintFile prints group after group.
LEMMA PrintFileIs ==
  ASSUME NEW f \in Keyfiles
  PROVE  \E p \in [0..Len(GroupOrder) -> Seq(AnyLine)] :
            /\ PrintFile(f) = p[Len(GroupOrder)] /\ p[0] = <<>>
            /\ \A n \in 1..Len(GroupOrder) :
                 p[n] = IF ~has_group(f, GroupOrder[n]) THEN p[n - 1]
                        ELSE (p[n - 1] \o Between(p[n - 1])) \o PrintGroup(f, GroupOrder[n])
<1> DEFINE N == Len(GroupOrder)
           V == Seq(AnyLine)
           Step(x, n) == IF ~has_group(f, GroupOrder[n]) THEN x
                         ELSE (x \o Between(x)) \o PrintGroup(f, GroupOrder[n])
           Is(p) == p = [n \in 0..N |-> IF n = 0 THEN <<>> ELSE Step(p[n - 1], n)]
           t == [x \in V \X (1..N) |-> Step(x[1], x[2])]
<1>1. N \in Nat
  BY Orders
<1>2. PrintFile(f) = (CHOOSE p : Is(p))[N]
  <2> DEFINE Old(p) ==
        p = [n \in 0..N |->
               IF n = 0 THEN <<>>
               ELSE IF ~has_group(f, GroupOrder[n]) THEN p[n - 1]
               ELSE p[n - 1] \o (IF p[n - 1] = <<>> THEN <<>> ELSE <<[t |-> "empty"]>>)
                             \o PrintGroup(f, GroupOrder[n])]
  <2>1. PrintFile(f) = (CHOOSE p : Old(p))[N]
    BY DEF PrintFile
  <2>2. \A p : Old(p) <=> Is(p)
    BY DEF Between
  <2>3. (CHOOSE p : Old(p)) = (CHOOSE p : Is(p))
    <3> HIDE DEF Old, Is
    <3> QED
      BY <2>2
  <2> QED
    BY <2>1, <2>3
<1>3. \A x \in V, n \in 1..N : Step(x, n) \in V
  <2> TAKE x \in V, n \in 1..N
  <2>1. CASE has_group(f, GroupOrder[n])
    <3>1. GroupOrder[n] \in DOMAIN f
      BY <2>1 DEF has_group
    <3>2. PrintGroup(f, GroupOrder[n]) \in V
      BY <3>1, Starts, GroupReadBack
    <3>3. [t |-> "empty"] \in AnyLine
      BY DEF AnyLine
    <3>4. Between(x) \in V
      BY <3>3 DEF Between
    <3>5. x \o Between(x) \in V
      BY <3>4, ConcatProperties
    <3>6. (x \o Between(x)) \o PrintGroup(f, GroupOrder[n]) \in V
      BY <3>2, <3>5, ConcatProperties
    <3> QED
      BY <2>1, <3>6
  <2>2. CASE ~has_group(f, GroupOrder[n])
    BY <2>2
  <2> QED
    BY <2>1, <2>2
<1> HIDE DEF Step, N
<1>4. <<>> \in V /\ t \in [V \X (1..N) -> V]
  BY <1>3
<1> HIDE DEF V
<1>5. PICK p \in [0..N -> V] : p[0] = <<>> /\ \A n \in 1..N : p[n] = t[<<p[n - 1], n>>]
  <2> DEFINE u == <<>>
  <2> HIDE DEF t, u
  <2>1. IsLoop(N, V, u, t)
    BY <1>1, <1>4 DEF u, IsLoop
  <2>2. HasResult(N, V, u, t)
    BY <2>1, LoopRuns
  <2> QED
    BY <2>2 DEF u, HasResult
<1>6. \A n \in 1..N : p[n] = Step(p[n - 1], n)
  <2> TAKE n \in 1..N
  <2>1. p[n - 1] \in V
    BY <1>1
  <2>2. p[n] = t[<<p[n - 1], n>>]
    <3> HIDE DEF t
    <3> QED
      BY <1>5
  <2> QED
    BY <2>1, <2>2
<1> HIDE DEF t
<1>7. Is(p)
  BY <1>1, <1>5, <1>6
<1> DEFINE q == CHOOSE p1 : Is(p1)
<1>8. Is(q)
  BY <1>7
<1> HIDE DEF q
<1>9. q = p
  <2> DEFINE S == {n \in 0..N : q[n] = p[n]}
  <2>1. 0 \in S
    BY <1>1, <1>7, <1>8
  <2>2. ASSUME NEW n \in 1..N, n - 1 \in S
        PROVE  n \in S
    <3>1. n \in 0..N /\ n # 0
      BY <1>1
    <3>2. q[n] = Step(q[n - 1], n) /\ p[n] = Step(p[n - 1], n)
      BY <1>7, <1>8, <3>1
    <3> QED
      BY <2>2, <3>1, <3>2
  <2>3. \A n \in 0..N : n \in S
    <3> HIDE DEF S
    <3> QED
      BY <1>1, <2>1, <2>2, UpTo
  <2> QED
    BY <1>7, <1>8, <2>3
<1>10. PrintFile(f) = p[N]
  BY <1>2, <1>9 DEF q
<1> QED
  BY <1>5, <1>6, <1>10 DEF Step, N, V

\* The groups that come among the first n.
DoneGroups(f, n) == {g \in DOMAIN f : \E i \in 1..n : GroupOrder[i] = g}

\* One more group.
LEMMA DoneGroupsNext ==
  ASSUME NEW f \in Keyfiles
  PROVE  /\ DoneGroups(f, 0) = {} /\ DoneGroups(f, Len(GroupOrder)) = DOMAIN f
         /\ \A n \in 1..Len(GroupOrder) :
              IF has_group(f, GroupOrder[n])
              THEN /\ GroupOrder[n] \notin DoneGroups(f, n - 1)
                   /\ DoneGroups(f, n) = DoneGroups(f, n - 1) \cup {GroupOrder[n]}
              ELSE DoneGroups(f, n) = DoneGroups(f, n - 1)
<1>1. /\ Len(GroupOrder) \in Nat /\ DOMAIN GroupOrder = 1..Len(GroupOrder)
      /\ \A g \in Groups : \E n \in 1..Len(GroupOrder) : GroupOrder[n] = g
  BY Orders
<1>2. DOMAIN f \subseteq Groups
  BY KeyfilesAre
<1>3. DoneGroups(f, 0) = {} /\ DoneGroups(f, Len(GroupOrder)) = DOMAIN f
  <2>1. DoneGroups(f, 0) = {}
    BY DEF DoneGroups
  <2>2. \A g \in DOMAIN f : \E n \in 1..Len(GroupOrder) : GroupOrder[n] = g
    BY <1>1, <1>2
  <2>3. DoneGroups(f, Len(GroupOrder)) = DOMAIN f
    BY <2>2 DEF DoneGroups
  <2> QED
    BY <2>1, <2>3
<1>4. ASSUME NEW n \in 1..Len(GroupOrder)
      PROVE  IF has_group(f, GroupOrder[n])
             THEN /\ GroupOrder[n] \notin DoneGroups(f, n - 1)
                  /\ DoneGroups(f, n) = DoneGroups(f, n - 1) \cup {GroupOrder[n]}
             ELSE DoneGroups(f, n) = DoneGroups(f, n - 1)
  <2>1. \A i \in 1..(n - 1) : i \in 1..Len(GroupOrder) /\ i # n
    BY <1>1
  <2>2. 1..n = (1..(n - 1)) \cup {n}
    BY <1>1
  <2>3. \A i \in 1..(n - 1) : GroupOrder[i] # GroupOrder[n]
    BY <1>1, <2>1, KeyfileAssumption DEF Distinct
  <2>4. DoneGroups(f, n) = DoneGroups(f, n - 1) \cup ({GroupOrder[n]} \cap DOMAIN f)
    BY <2>2 DEF DoneGroups
  <2>5. GroupOrder[n] \notin DoneGroups(f, n - 1)
    BY <2>3 DEF DoneGroups
  <2> QED
    BY <2>4, <2>5 DEF has_group
<1> QED
  BY <1>3, <1>4

\* A printed keyfile is read back group by group.
LEMMA FileReadBack ==
  ASSUME NEW f \in Keyfiles
  PROVE  /\ Load(PrintFile(f)) \in States /\ Load(PrintFile(f)).err = NoError
         /\ DOMAIN Load(PrintFile(f)).tmp = DOMAIN f
         /\ \A g \in DOMAIN f : SameGroup(Load(PrintFile(f)).tmp[g], f[g])
<1> DEFINE N == Len(GroupOrder)
<1>1. N \in Nat
  BY Orders
<1>2. PICK p \in [0..N -> Seq(AnyLine)] :
            /\ PrintFile(f) = p[N] /\ p[0] = <<>>
            /\ \A n \in 1..N :
                 p[n] = IF ~has_group(f, GroupOrder[n]) THEN p[n - 1]
                        ELSE (p[n - 1] \o Between(p[n - 1])) \o PrintGroup(f, GroupOrder[n])
  BY PrintFileIs
<1> DEFINE Good(n, r) == /\ Reads(StartState, p[n], r) /\ r.err = NoError /\ Pending(r) = <<>>
                         /\ DOMAIN r.tmp = DoneGroups(f, n)
                         /\ \A g \in DoneGroups(f, n) : SameGroup(r.tmp[g], f[g])
           S == {n \in 0..N : \E r \in States : Good(n, r)}
<1>3. 0 \in S
  <2>1. Good(0, StartState)
    BY <1>2, Starts, ReadsShort, DoneGroupsNext
  <2> HIDE DEF Good
  <2> QED
    BY <1>1, <2>1, Starts
<1>4. ASSUME NEW n \in 1..N, n - 1 \in S
      PROVE  n \in S
  <2>1. PICK q \in States : Good(n - 1, q)
    BY <1>4
  <2> DEFINE g == GroupOrder[n]
             x == p[n - 1]
  <2>2. n \in 0..N /\ n - 1 \in 0..N
    BY <1>1
  <2>3. x \in Seq(AnyLine)
    BY <2>2
  <2>4. CASE has_group(f, g)
    <3>1. g \in DOMAIN f
      BY <2>4 DEF has_group
    <3>2. g \notin DoneGroups(f, n - 1) /\ DoneGroups(f, n) = DoneGroups(f, n - 1) \cup {g}
      BY <2>4, DoneGroupsNext
    <3>3. p[n] = (x \o Between(x)) \o PrintGroup(f, g)
      BY <1>2, <2>4
    <3> HIDE DEF g, x
    <3>4. /\ Reads(StartState, x, q) /\ q.err = NoError /\ Pending(q) = <<>>
          /\ DOMAIN q.tmp = DoneGroups(f, n - 1)
          /\ \A y \in DoneGroups(f, n - 1) : SameGroup(q.tmp[y], f[y])
      BY <2>1 DEF x
    <3> HIDE DEF Good
    <3>5. /\ x \o Between(x) \in Seq(AnyLine)
          /\ \E h \in States : /\ Reads(StartState, x \o Between(x), h) /\ h.err = NoError
                               /\ Pending(h) = <<>> /\ h.tmp = q.tmp
      <4>1. CASE x = <<>>
        <5>1. x \o Between(x) = x
          BY <2>3, <4>1 DEF Between
        <5> QED
          BY <2>3, <3>4, <5>1
      <4>2. CASE x # <<>>
        <5> DEFINE l == [t |-> "empty"]
                   h == ReadOne(q, l)
        <5>1. l \in AnyLine /\ l.t = "empty" /\ Between(x) = <<l>>
          BY <4>2 DEF AnyLine, Between
        <5> HIDE DEF l
        <5>2. /\ h \in States /\ h.err = NoError /\ h.set = "none" /\ h.comment = <<>>
              /\ h.tmp = q.tmp
          BY <3>4, <5>1, LineRead
        <5>3. Reads(q, <<l>>, h) /\ <<l>> \in Seq(AnyLine)
          BY <5>1, <5>2, ReadsShort
        <5> HIDE DEF h
        <5>4. Pending(h) = <<>>
          BY <5>2 DEF Pending
        <5>5. x \o <<l>> \in Seq(AnyLine)
          BY <2>3, <5>3, ConcatProperties
        <5>6. Reads(StartState, x \o <<l>>, h)
          BY <2>3, <3>4, <5>3, ReadsBoth
        <5> QED
          BY <5>1, <5>2, <5>4, <5>5, <5>6
      <4> QED
        BY <4>1, <4>2
    <3>6. PICK h \in States : /\ Reads(StartState, x \o Between(x), h) /\ h.err = NoError
                              /\ Pending(h) = <<>> /\ h.tmp = q.tmp
      BY <3>5
    <3>7. g \notin DOMAIN h.tmp
      BY <3>2, <3>4, <3>6
    <3>8. PrintGroup(f, g) \in Seq(AnyLine)
      BY <3>1, <3>6, <3>7, GroupReadBack
    <3>9. PICK r \in States :
              /\ Reads(h, PrintGroup(f, g), r) /\ r.err = NoError /\ Pending(r) = <<>>
              /\ DOMAIN r.tmp = DOMAIN h.tmp \cup {g}
              /\ \A y \in DOMAIN h.tmp : r.tmp[y] = h.tmp[y]
              /\ SameGroup(r.tmp[g], f[g])
      BY <3>1, <3>6, <3>7, GroupReadBack
    <3>10. Reads(StartState, (x \o Between(x)) \o PrintGroup(f, g), r)
      <4> DEFINE y == x \o Between(x)
      <4> HIDE DEF y
      <4>1. y \in Seq(AnyLine) /\ Reads(StartState, y, h)
        BY <3>5, <3>6 DEF y
      <4>2. Reads(StartState, y \o PrintGroup(f, g), r)
        BY <3>8, <3>9, <4>1, ReadsBoth
      <4> QED
        BY <4>2 DEF y
    <3>11. /\ DOMAIN r.tmp = DoneGroups(f, n)
           /\ \A y \in DoneGroups(f, n) : SameGroup(r.tmp[y], f[y])
      BY <3>2, <3>4, <3>6, <3>9
    <3>12. Good(n, r)
      BY <3>3, <3>9, <3>10, <3>11 DEF Good
    <3> QED
      BY <2>2, <3>12
  <2>5. CASE ~has_group(f, g)
    <3>1. DoneGroups(f, n) = DoneGroups(f, n - 1)
      BY <2>5, DoneGroupsNext
    <3>2. p[n] = p[n - 1]
      BY <1>2, <2>5
    <3>3. Good(n, q)
      BY <2>1, <3>1, <3>2
    <3> HIDE DEF Good
    <3> QED
      BY <2>2, <3>3
  <2> QED
    BY <2>4, <2>5
<1>5. N \in S
  <2> HIDE DEF S
  <2>1. \A n \in 0..N : n \in S
    BY <1>1, <1>3, <1>4, UpTo
  <2> QED
    BY <1>1, <2>1
<1>6. PICK r \in States : Good(N, r)
  BY <1>5
<1>7. DoneGroups(f, N) = DOMAIN f
  BY DoneGroupsNext
<1>8. p[N] \in Seq(AnyLine)
  BY <1>1
<1>9. Load(PrintFile(f)) = r
  BY <1>2, <1>6, <1>8, ReadAllEnds DEF Load
<1> HIDE DEF N
<1> QED
  BY <1>6, <1>7, <1>9

\* Two keyfiles that say the same have the same content.
LEMMA SameContent ==
  ASSUME NEW f, NEW h, DOMAIN h = DOMAIN f, \A g \in DOMAIN f : SameGroup(h[g], f[g])
  PROVE  Content(h) = Content(f)
<1> DEFINE items(x, g) == [k \in DOMAIN x[g].items |->
                             [value |-> x[g].items[k].value,
                              comment |-> Trimmed(x[g].items[k].comment)]]
           group(x, g) == [comment |-> Trimmed(x[g].comment), items |-> items(x, g)]
<1>1. Content(h) = [g \in DOMAIN h |-> group(h, g)] /\ Content(f) = [g \in DOMAIN f |-> group(f, g)]
  BY DEF Content
<1>2. ASSUME NEW g \in DOMAIN f
      PROVE  group(h, g) = group(f, g)
  <2>1. Trimmed(h[g].comment) = Trimmed(f[g].comment) /\ SameItems(h[g].items, f[g].items)
    BY DEF SameGroup
  <2>2. items(h, g) = items(f, g)
    BY <2>1 DEF SameItems, SameItem
  <2> QED
    BY <2>1, <2>2
<1> HIDE DEF group
<1> QED
  BY <1>1, <1>2

\* operator += makes a keyfile of two.
LEMMA MergeTyped ==
  ASSUME NEW f \in Keyfiles, NEW m \in Keyfiles
  PROVE  Merge(f, m) \in Keyfiles
<1> DEFINE both(g) == [k \in DOMAIN f[g].items \cup DOMAIN m[g].items |->
                         IF k \in DOMAIN m[g].items THEN m[g].items[k] ELSE f[g].items[k]]
           group(g) == IF g \notin DOMAIN m THEN f[g]
                       ELSE IF g \notin DOMAIN f THEN m[g]
                       ELSE [f[g] EXCEPT !.items = both(g)]
<1>1. Merge(f, m) = [g \in DOMAIN f \cup DOMAIN m |-> group(g)]
  BY DEF Merge
<1>2. /\ DOMAIN f \subseteq Groups /\ \A g \in DOMAIN f : f[g] \in GroupData
      /\ DOMAIN m \subseteq Groups /\ \A g \in DOMAIN m : m[g] \in GroupData
  BY KeyfilesAre
<1>3. ASSUME NEW g \in DOMAIN f \cap DOMAIN m
      PROVE  [f[g] EXCEPT !.items = both(g)] \in GroupData
  <2>1. /\ DOMAIN f[g].items \subseteq Keys /\ DOMAIN m[g].items \subseteq Keys
        /\ \A k \in DOMAIN f[g].items : f[g].items[k] \in Items
        /\ \A k \in DOMAIN m[g].items : m[g].items[k] \in Items
    BY GroupForm
  <2>2. DOMAIN both(g) \subseteq Keys /\ both(g) \in [DOMAIN both(g) -> Items]
    BY <2>1
  <2> HIDE DEF both
  <2>3. both(g) \in ItemMaps
    BY <2>2, ItemMapsAre
  <2>4. f[g] \in GroupData
    BY <1>2
  <2> QED
    BY <2>3, <2>4 DEF GroupData
<1> HIDE DEF both
<1>4. \A g \in DOMAIN f \cup DOMAIN m : group(g) \in GroupData
  BY <1>2, <1>3
<1> HIDE DEF group
<1>5. DOMAIN Merge(f, m) \subseteq Groups /\ Merge(f, m) \in [DOMAIN Merge(f, m) -> GroupData]
  BY <1>1, <1>2, <1>4
<1> QED
  BY <1>5, KeyfilesAre

\* Without a group, or without a key, it is a keyfile.
LEMMA RemoveTyped ==
  ASSUME NEW f \in Keyfiles, NEW g, NEW k
  PROVE  remove_group(f, g) \in Keyfiles /\ remove_key(f, g, k) \in Keyfiles
<1>1. DOMAIN f \subseteq Groups /\ f \in [DOMAIN f -> GroupData]
  BY KeyfilesAre
<1>2. remove_group(f, g) \in Keyfiles
  <2>1. DOMAIN remove_group(f, g) \subseteq Groups
        /\ remove_group(f, g) \in [DOMAIN remove_group(f, g) -> GroupData]
    BY <1>1 DEF remove_group
  <2> QED
    BY <2>1, KeyfilesAre
<1>3. CASE g \notin DOMAIN f
  BY <1>2, <1>3 DEF remove_key, has_group
<1>4. CASE g \in DOMAIN f
  <2> DEFINE m == [x \in DOMAIN f[g].items \ {k} |-> f[g].items[x]]
             h == [f EXCEPT ![g].items = m]
  <2>1. DOMAIN f[g].items \subseteq Keys /\ \A x \in DOMAIN f[g].items : f[g].items[x] \in Items
    BY <1>4, GroupForm
  <2>2. DOMAIN m \subseteq Keys /\ m \in [DOMAIN m -> Items]
    BY <2>1
  <2>3. remove_key(f, g, k) = h
    BY <1>4 DEF remove_key, has_group
  <2> HIDE DEF m
  <2>4. m \in ItemMaps
    BY <2>2, ItemMapsAre
  <2>5. f[g] \in GroupData
    BY <1>1, <1>4
  <2>6. [f[g] EXCEPT !.items = m] \in GroupData
    BY <2>4, <2>5 DEF GroupData
  <2>7. DOMAIN h = DOMAIN f /\ h = [x \in DOMAIN f |-> h[x]]
        /\ h[g] = [f[g] EXCEPT !.items = m] /\ \A x \in DOMAIN f : x # g => h[x] = f[x]
    BY <1>1, <1>4
  <2> HIDE DEF h
  <2>8. \A x \in DOMAIN f : h[x] \in GroupData
    BY <1>1, <2>6, <2>7
  <2>9. h \in [DOMAIN h -> GroupData] /\ DOMAIN h \subseteq Groups
    BY <1>1, <2>7, <2>8
  <2>10. h \in Keyfiles
    BY <2>9, KeyfilesAre
  <2> QED
    BY <1>2, <2>3, <2>10
<1> QED
  BY <1>3, <1>4

\* What is read into is always a keyfile.
KeyfileTyped == kf \in Keyfiles

\* So it is after every step.
LEMMA KeyfileStays ==
  ASSUME KeyInv, KeyfileTyped, [KeyfileNext]_keyfile_vars
  PROVE  KeyfileTyped'
<1>1. ASSUME NEW l \in Line, GetLine(l)
      PROVE  KeyfileTyped'
  BY <1>1 DEF GetLine, KeyfileTyped
<1>2. CASE EndOfFile
  <2>1. kf \in Keyfiles /\ state.tmp \in Keyfiles /\ kf' = Merge(kf, state.tmp)
    BY <1>2 DEF EndOfFile, KeyInv, HasRead, States, KeyfileTyped
  <2> QED
    BY <2>1, MergeTyped DEF KeyfileTyped
<1>3. ASSUME NEW g \in Groups, RemoveGroup(g)
      PROVE  KeyfileTyped'
  BY <1>3, RemoveTyped DEF RemoveGroup, KeyfileTyped
<1>4. ASSUME NEW g \in Groups, NEW k \in Keys, RemoveKey(g, k)
      PROVE  KeyfileTyped'
  BY <1>4, RemoveTyped DEF RemoveKey, KeyfileTyped
<1>5. ASSUME NEW g \in Groups, NEW p \in Priorities, UseGroup(g, p)
      PROVE  KeyfileTyped'
  BY <1>5 DEF UseGroup, KeyfileTyped
<1>6. CASE UNCHANGED keyfile_vars
  BY <1>6 DEF keyfile_vars, KeyfileTyped
<1> QED
  BY <1>1, <1>2, <1>3, <1>4, <1>5, <1>6 DEF KeyfileNext

\* keyfile: operator<< prints what operator>> reads, whatever the keyfile holds
\* after it was read and edited.
THEOREM PrintedAreReadBack == KeyfileSpec => []PrintedIsReadBack
<1>1. KeyfileInit => KeyfileTyped
  BY EarlierAreKeyfiles, KeyfileAssumption DEF KeyfileInit, KeyfileTyped
<1>2. KeyInv /\ KeyfileTyped /\ [KeyfileNext]_keyfile_vars => KeyfileTyped'
  BY KeyfileStays
<1>3. KeyfileTyped => PrintedIsReadBack
  <2> SUFFICES ASSUME KeyfileTyped
               PROVE  PrintedIsReadBack
    OBVIOUS
  <2> DEFINE again == Load(PrintFile(kf))
  <2>1. kf \in Keyfiles
    BY DEF KeyfileTyped
  <2>2. again.err = NoError /\ DOMAIN again.tmp = DOMAIN kf
        /\ \A g \in DOMAIN kf : SameGroup(again.tmp[g], kf[g])
    BY <2>1, FileReadBack
  <2> HIDE DEF again
  <2>3. Content(again.tmp) = Content(kf)
    BY <2>2, SameContent
  <2> QED
    BY <2>2, <2>3 DEF PrintedIsReadBack, again
<1> QED
  BY <1>1, <1>2, <1>3, KeyInvHolds, PTL DEF KeyfileSpec

-----------------------------------------------------------------------------
(* Values. *)

Plain == {x \in Fields : ~Blank(x)}

\* The value "" is one empty field.
LEMMA EmptyValue == <<"">> \in Values /\ Len(<<"">>) = 1 /\ Blank(<<"">>[1])
<1>1. "" \in Fields
  BY KeyfileAssumption
<1>2. <<"">> \in Seq(Fields)
  <2>1. \A x \in Fields : <<x>> \in Seq(Fields)
    OBVIOUS
  <2> QED
    BY <1>1, <2>1
<1>3. <<"">> # <<>> /\ Len(<<"">>) = 1 /\ <<"">>[1] = ""
  OBVIOUS
<1>4. <<"">> \in Values
  BY <1>2, <1>3 DEF Values
<1> QED
  BY <1>3, <1>4 DEF Blank

\* What is in a sequence that gets one more.
LEMMA OneMore ==
  ASSUME NEW S, NEW x \in Seq(S), NEW e \in S
  PROVE  ToSet(Append(x, e)) = ToSet(x) \cup {e}
<1> DEFINE y == Append(x, e)
<1>1. Len(x) \in Nat /\ DOMAIN x = 1..Len(x) /\ DOMAIN y = 1..(Len(x) + 1)
  OBVIOUS
<1>2. (\A i \in 1..Len(x) : y[i] = x[i]) /\ y[Len(x) + 1] = e
  OBVIOUS
<1>3. 1..(Len(x) + 1) = (1..Len(x)) \cup {Len(x) + 1}
  BY <1>1
<1> HIDE DEF y
<1>4. {y[i] : i \in DOMAIN y} = {x[i] : i \in DOMAIN x} \cup {e}
  BY <1>1, <1>2, <1>3
<1> QED
  BY <1>4 DEF ToSet, y

\* A value is a sequence of fields that is not empty.
LEMMA ValueForm ==
  ASSUME NEW v \in Values
  PROVE  v \in Seq(Fields) /\ Len(v) \in Nat /\ Len(v) # 0 /\ DOMAIN v = 1..Len(v)
BY DEF Values

\* split_string goes from field to field.
LEMMA SplitIs ==
  ASSUME NEW v \in Values
  PROVE  \E p \in [0..Len(v) -> Seq(Plain)] :
            /\ split_string(v) = p[Len(v)] /\ p[0] = <<>>
            /\ \A n \in 1..Len(v) :
                 p[n] = IF Blank(v[n]) THEN p[n - 1] ELSE Append(p[n - 1], v[n])
<1> DEFINE N == Len(v)
           V == Seq(Plain)
           Step(x, n) == IF Blank(v[n]) THEN x ELSE Append(x, v[n])
           Is(p) == p = [n \in 0..N |-> IF n = 0 THEN <<>> ELSE Step(p[n - 1], n)]
           t == [x \in V \X (1..N) |-> Step(x[1], x[2])]
<1>1. N \in Nat /\ \A n \in 1..N : v[n] \in Fields
  BY ValueForm
<1>2. split_string(v) = (CHOOSE p : Is(p))[N]
  BY DEF split_string, Blank
<1>3. \A x \in V, n \in 1..N : Step(x, n) \in V
  <2> TAKE x \in V, n \in 1..N
  <2>1. CASE Blank(v[n])
    BY <2>1
  <2>2. CASE ~Blank(v[n])
    <3>1. v[n] \in Plain
      BY <1>1, <2>2 DEF Plain
    <3>2. Append(x, v[n]) \in V
      BY <3>1, AppendProperties
    <3> QED
      BY <2>2, <3>2
  <2> QED
    BY <2>1, <2>2
<1> HIDE DEF Step, N
<1>4. <<>> \in V /\ t \in [V \X (1..N) -> V]
  BY <1>3
<1> HIDE DEF V
<1>5. PICK p \in [0..N -> V] : p[0] = <<>> /\ \A n \in 1..N : p[n] = t[<<p[n - 1], n>>]
  <2> DEFINE u == <<>>
  <2> HIDE DEF t, u
  <2>1. IsLoop(N, V, u, t)
    BY <1>1, <1>4 DEF u, IsLoop
  <2>2. HasResult(N, V, u, t)
    BY <2>1, LoopRuns
  <2> QED
    BY <2>2 DEF u, HasResult
<1>6. \A n \in 1..N : p[n] = Step(p[n - 1], n)
  <2> TAKE n \in 1..N
  <2>1. p[n - 1] \in V
    BY <1>1
  <2>2. p[n] = t[<<p[n - 1], n>>]
    <3> HIDE DEF t
    <3> QED
      BY <1>5
  <2> QED
    BY <2>1, <2>2
<1> HIDE DEF t
<1>7. Is(p)
  BY <1>1, <1>5, <1>6
<1> DEFINE q == CHOOSE p1 : Is(p1)
<1>8. Is(q)
  BY <1>7
<1> HIDE DEF q
<1>9. q = p
  <2> DEFINE S == {n \in 0..N : q[n] = p[n]}
  <2>1. 0 \in S
    BY <1>1, <1>7, <1>8
  <2>2. ASSUME NEW n \in 1..N, n - 1 \in S
        PROVE  n \in S
    <3>1. n \in 0..N /\ n # 0
      BY <1>1
    <3>2. q[n] = Step(q[n - 1], n) /\ p[n] = Step(p[n - 1], n)
      BY <1>7, <1>8, <3>1
    <3> QED
      BY <2>2, <3>1, <3>2
  <2>3. \A n \in 0..N : n \in S
    <3> HIDE DEF S
    <3> QED
      BY <1>1, <2>1, <2>2, UpTo
  <2> QED
    BY <1>7, <1>8, <2>3
<1>10. split_string(v) = p[N]
  BY <1>2, <1>9 DEF q
<1> QED
  BY <1>5, <1>6, <1>10 DEF Step, N, V

\* split_string leaves fields that are not empty.
LEMMA SplitTyped ==
  ASSUME NEW v \in Values
  PROVE  split_string(v) \in Seq(Plain)
<1>1. PICK p \in [0..Len(v) -> Seq(Plain)] : split_string(v) = p[Len(v)]
  BY SplitIs
<1>2. Len(v) \in 0..Len(v)
  BY ValueForm
<1> QED
  BY <1>1, <1>2

\* A list that is stored is the list that is read.
LEMMA ListBack ==
  ASSUME NEW l \in Seq(Plain)
  PROVE  set_list_value(l) \in Values /\ split_string(set_list_value(l)) = l
<1>1. CASE l = <<>>
  <2> DEFINE v == <<"">>
  <2>1. v \in Values /\ Len(v) = 1 /\ Blank(v[1]) /\ set_list_value(l) = v
    BY <1>1, EmptyValue DEF set_list_value
  <2> HIDE DEF v
  <2>2. PICK p \in [0..Len(v) -> Seq(Plain)] :
            /\ split_string(v) = p[Len(v)] /\ p[0] = <<>>
            /\ \A n \in 1..Len(v) :
                 p[n] = IF Blank(v[n]) THEN p[n - 1] ELSE Append(p[n - 1], v[n])
    BY <2>1, SplitIs
  <2>3. p[1] = p[1 - 1] /\ p[1 - 1] = p[0]
    BY <2>1, <2>2
  <2> QED
    BY <1>1, <2>1, <2>2, <2>3
<1>2. CASE l # <<>>
  <2>1. set_list_value(l) = l
    BY <1>2 DEF set_list_value
  <2>2. l \in Seq(Fields)
    <3>1. Plain \subseteq Fields
      BY DEF Plain
    <3> QED
      BY <3>1, SeqMonotonic
  <2>3. l \in Values
    BY <1>2, <2>2 DEF Values
  <2>4. PICK p \in [0..Len(l) -> Seq(Plain)] :
            /\ split_string(l) = p[Len(l)] /\ p[0] = <<>>
            /\ \A n \in 1..Len(l) :
                 p[n] = IF Blank(l[n]) THEN p[n - 1] ELSE Append(p[n - 1], l[n])
    BY <2>3, SplitIs
  <2>5. Len(l) \in Nat /\ \A n \in 1..Len(l) : ~Blank(l[n])
    BY DEF Plain
  <2> DEFINE S == {n \in 0..Len(l) : p[n] = SubSeq(l, 1, n)}
  <2>6. 0 \in S
    <3>1. SubSeq(l, 1, 0) = <<>>
      BY FirstLines
    <3> QED
      BY <2>4, <2>5, <3>1
  <2>7. ASSUME NEW n \in 1..Len(l), n - 1 \in S
        PROVE  n \in S
    <3>1. SubSeq(l, 1, n) = Append(SubSeq(l, 1, n - 1), l[n])
      BY FirstLines
    <3>2. p[n] = Append(p[n - 1], l[n])
      BY <2>4, <2>5
    <3>3. n \in 0..Len(l)
      BY <2>5
    <3> QED
      BY <2>7, <3>1, <3>2, <3>3
  <2>8. Len(l) \in S
    <3> HIDE DEF S
    <3>1. \A n \in 0..Len(l) : n \in S
      BY <2>5, <2>6, <2>7, UpTo
    <3> QED
      BY <2>5, <3>1
  <2>9. SubSeq(l, 1, Len(l)) = l
    BY FirstLines
  <2> QED
    BY <2>1, <2>3, <2>4, <2>8, <2>9
<1> QED
  BY <1>1, <1>2

\* The fields of a set among the first n.
Sorted(s, n) == {x \in s : \E i \in 1..n : FieldOrder[i] = x}

\* A set that is stored is the set that is read.
LEMMA SetBack ==
  ASSUME NEW s \in SUBSET Plain
  PROVE  set_set_value(s) \in Values /\ ToSet(split_string(set_set_value(s))) = s
<1> DEFINE N == Len(FieldOrder)
           V == Seq(Plain)
           Step(x, n) == IF FieldOrder[n] \in s THEN Append(x, FieldOrder[n]) ELSE x
           Is(p) == p = [n \in 0..N |-> IF n = 0 THEN <<>> ELSE Step(p[n - 1], n)]
           t == [x \in V \X (1..N) |-> Step(x[1], x[2])]
<1>1. N \in Nat /\ \A x \in Fields : \E n \in 1..N : FieldOrder[n] = x
  BY Orders
<1>2. set_set_value(s) = set_list_value((CHOOSE p : Is(p))[N])
  BY DEF set_set_value
<1>3. \A x \in V, n \in 1..N : Step(x, n) \in V
  <2> TAKE x \in V, n \in 1..N
  <2>1. CASE FieldOrder[n] \in s
    <3>1. Append(x, FieldOrder[n]) \in V
      BY <2>1, AppendProperties
    <3> QED
      BY <2>1, <3>1
  <2>2. CASE FieldOrder[n] \notin s
    BY <2>2
  <2> QED
    BY <2>1, <2>2
<1> HIDE DEF Step, N
<1>4. <<>> \in V /\ t \in [V \X (1..N) -> V]
  BY <1>3
<1>5. PICK p \in [0..N -> V] : p[0] = <<>> /\ \A n \in 1..N : p[n] = t[<<p[n - 1], n>>]
  <2> DEFINE u == <<>>
  <2> HIDE DEF t, u, V
  <2>1. IsLoop(N, V, u, t)
    BY <1>1, <1>4 DEF u, IsLoop
  <2>2. HasResult(N, V, u, t)
    BY <2>1, LoopRuns
  <2> QED
    BY <2>2 DEF u, HasResult
<1> HIDE DEF V
<1>6. \A n \in 1..N : p[n] = Step(p[n - 1], n)
  <2> TAKE n \in 1..N
  <2>1. p[n - 1] \in V
    BY <1>1
  <2>2. p[n] = t[<<p[n - 1], n>>]
    <3> HIDE DEF t
    <3> QED
      BY <1>5
  <2> QED
    BY <2>1, <2>2
<1> HIDE DEF t
<1>7. Is(p)
  BY <1>1, <1>5, <1>6
<1> DEFINE q == CHOOSE p1 : Is(p1)
<1>8. Is(q)
  BY <1>7
<1> HIDE DEF q
<1>9. q = p
  <2> DEFINE S == {n \in 0..N : q[n] = p[n]}
  <2>1. 0 \in S
    BY <1>1, <1>7, <1>8
  <2>2. ASSUME NEW n \in 1..N, n - 1 \in S
        PROVE  n \in S
    <3>1. n \in 0..N /\ n # 0
      BY <1>1
    <3>2. q[n] = Step(q[n - 1], n) /\ p[n] = Step(p[n - 1], n)
      BY <1>7, <1>8, <3>1
    <3> QED
      BY <2>2, <3>1, <3>2
  <2>3. \A n \in 0..N : n \in S
    <3> HIDE DEF S
    <3> QED
      BY <1>1, <2>1, <2>2, UpTo
  <2> QED
    BY <1>7, <1>8, <2>3
<1>10. set_set_value(s) = set_list_value(p[N])
  BY <1>2, <1>9 DEF q
<1>11. ToSet(p[N]) = s
  <2> DEFINE S == {n \in 0..N : ToSet(p[n]) = Sorted(s, n)}
  <2>1. 0 \in S
    <3>1. Sorted(s, 0) = {} /\ ToSet(<<>>) = {}
      BY DEF Sorted, ToSet
    <3>2. p[0] = <<>>
      BY <1>5
    <3>3. ToSet(p[0]) = Sorted(s, 0)
      BY <3>1, <3>2
    <3>4. 0 \in 0..N
      BY <1>1
    <3> QED
      BY <3>3, <3>4
  <2>2. ASSUME NEW n \in 1..N, n - 1 \in S
        PROVE  n \in S
    <3>1. n \in 0..N /\ n - 1 \in 0..N /\ 1..n = (1..(n - 1)) \cup {n}
      BY <1>1
    <3>2. p[n - 1] \in Seq(Plain)
      BY <3>1 DEF V
    <3>3. Sorted(s, n) = Sorted(s, n - 1) \cup ({FieldOrder[n]} \cap s)
      BY <3>1 DEF Sorted
    <3>4. CASE FieldOrder[n] \in s
      <4>1. p[n] = Append(p[n - 1], FieldOrder[n])
        BY <1>6, <3>4 DEF Step
      <4>2. ToSet(Append(p[n - 1], FieldOrder[n])) = ToSet(p[n - 1]) \cup {FieldOrder[n]}
        BY <3>2, <3>4, OneMore
      <4>3. ToSet(p[n - 1]) = Sorted(s, n - 1)
        BY <2>2
      <4>4. ToSet(p[n]) = Sorted(s, n)
        BY <3>3, <3>4, <4>1, <4>2, <4>3
      <4> QED
        BY <3>1, <4>4
    <3>5. CASE FieldOrder[n] \notin s
      <4>1. p[n] = p[n - 1]
        BY <1>6, <3>5 DEF Step
      <4>2. ToSet(p[n]) = Sorted(s, n)
        BY <2>2, <3>3, <3>5, <4>1
      <4> QED
        BY <3>1, <4>2
    <3> QED
      BY <3>4, <3>5
  <2>3. N \in S
    <3> HIDE DEF S
    <3>1. \A n \in 0..N : n \in S
      BY <1>1, <2>1, <2>2, UpTo
    <3> QED
      BY <1>1, <3>1
  <2>4. Sorted(s, N) = s
    <3>1. s \subseteq Fields
      BY DEF Plain
    <3> QED
      BY <1>1, <3>1 DEF Sorted
  <2> QED
    BY <2>3, <2>4
<1>12. p[N] \in Seq(Plain)
  BY <1>1 DEF V
<1>13. set_list_value(p[N]) \in Values /\ split_string(set_list_value(p[N])) = p[N]
  BY <1>12, ListBack
<1> QED
  BY <1>10, <1>11, <1>13

-----------------------------------------------------------------------------
(* Objects. *)

\* What a key of an object may hold.
Fits(k, x) ==
    /\ KeyType[k] = "bool" => x \in BOOLEAN
    /\ KeyType[k] = "string" => x \in Values
    /\ KeyType[k] = "list" => x \in Seq(Plain)
    /\ KeyType[k] = "set" => x \in SUBSET Plain

Objects == {o \in [Keys -> BOOLEAN \cup Values \cup Seq(Plain) \cup SUBSET Plain] :
              \A k \in Keys : Fits(k, o[k])}

\* An object is a function of the keys.
LEMMA ObjectsAre ==
  ASSUME NEW o
  PROVE  o \in Objects <=> o = [k \in Keys |-> o[k]] /\ \A k \in Keys : Fits(k, o[k])
<1> DEFINE U == BOOLEAN \cup Values \cup Seq(Plain) \cup SUBSET Plain
<1>1. \A k \in Keys : KeyType[k] \in {"bool", "string", "list", "set"}
  BY KeyfileAssumption
<1>2. ASSUME NEW k \in Keys, NEW x, Fits(k, x)
      PROVE  x \in U
  <2>1. CASE KeyType[k] = "bool"
    BY <1>2, <2>1 DEF Fits
  <2>2. CASE KeyType[k] = "string"
    BY <1>2, <2>2 DEF Fits
  <2>3. CASE KeyType[k] = "list"
    BY <1>2, <2>3 DEF Fits
  <2>4. CASE KeyType[k] = "set"
    BY <1>2, <2>4 DEF Fits
  <2> QED
    BY <1>1, <2>1, <2>2, <2>3, <2>4
<1>3. Objects = {y \in [Keys -> U] : \A k \in Keys : Fits(k, y[k])}
  BY DEF Objects
<1> HIDE DEF U
<1> QED
  BY <1>2, <1>3

\* What an object starts with fits.
LEMMA DefaultFits ==
  ASSUME NEW k \in Keys
  PROVE  Fits(k, Default(k))
<1>1. KeyType[k] \in {"bool", "string", "list", "set"}
  BY KeyfileAssumption
<1>2. CASE KeyType[k] = "bool"
  BY <1>2 DEF Fits, Default
<1>3. CASE KeyType[k] = "string"
  BY <1>3, EmptyValue DEF Fits, Default
<1>4. CASE KeyType[k] = "list"
  BY <1>4 DEF Fits, Default
<1>5. CASE KeyType[k] = "set"
  BY <1>5 DEF Fits, Default
<1> QED
  BY <1>1, <1>2, <1>3, <1>4, <1>5

\* What is made of a value fits.
LEMMA FromValueFits ==
  ASSUME NEW k \in Keys, NEW v \in Values
  PROVE  Fits(k, FromValue(k, v))
<1>1. KeyType[k] \in {"bool", "string", "list", "set"}
  BY KeyfileAssumption
<1>2. split_string(v) \in Seq(Plain)
  BY SplitTyped
<1>3. CASE KeyType[k] = "bool"
  <2>1. FromValue(k, v) = parse_bool(v)
    BY <1>3 DEF FromValue, get_value
  <2>2. parse_bool(v) \in BOOLEAN
    BY DEF parse_bool
  <2> QED
    BY <1>3, <2>1, <2>2 DEF Fits
<1>4. CASE KeyType[k] = "string"
  <2>1. FromValue(k, v) = v
    BY <1>4 DEF FromValue, get_value
  <2> QED
    BY <1>4, <2>1 DEF Fits
<1>5. CASE KeyType[k] = "list"
  <2>1. FromValue(k, v) = split_string(v)
    BY <1>5 DEF FromValue, get_list_value
  <2> QED
    BY <1>2, <1>5, <2>1 DEF Fits
<1>6. CASE KeyType[k] = "set"
  <2>1. FromValue(k, v) = ToSet(split_string(v))
    BY <1>6 DEF FromValue, get_set_value
  <2>2. \A x \in Seq(Plain) : ToSet(x) \in SUBSET Plain
    BY DEF ToSet
  <2> QED
    BY <1>2, <1>6, <2>1, <2>2 DEF Fits
<1> QED
  BY <1>1, <1>3, <1>4, <1>5, <1>6

\* What is written for what an object holds is read as that again.
LEMMA ToValueBack ==
  ASSUME NEW k \in Keys, NEW x, Fits(k, x)
  PROVE  /\ ToValue(k, x) \in Values /\ Parsable(k, ToValue(k, x))
         /\ FromValue(k, ToValue(k, x)) = x
<1>1. KeyType[k] \in {"bool", "string", "list", "set"}
  BY KeyfileAssumption
<1>2. CASE KeyType[k] = "bool"
  <2>1. x \in BOOLEAN
    BY <1>2 DEF Fits
  <2>2. ToValue(k, x) = IF x THEN <<"true">> ELSE <<"false">>
    BY <1>2 DEF ToValue
  <2>3. <<"true">> \in Values /\ <<"false">> \in Values
    <3>1. "true" \in Fields /\ "false" \in Fields
      BY KeyfileAssumption
    <3>2. \A y \in Fields : <<y>> \in Seq(Fields) /\ <<y>> # <<>>
      OBVIOUS
    <3> QED
      BY <3>1, <3>2 DEF Values
  <2>4. \A v : FromValue(k, v) = parse_bool(v)
    BY <1>2 DEF FromValue, get_value
  <2>5. ParsesAsBool(<<"true">>) /\ ParsesAsBool(<<"false">>)
    BY DEF ParsesAsBool
  <2>6. parse_bool(<<"true">>) = TRUE /\ parse_bool(<<"false">>) = FALSE
    BY DEF parse_bool
  <2>7. CASE x = TRUE
    BY <1>2, <2>2, <2>3, <2>4, <2>5, <2>6, <2>7 DEF Parsable
  <2>8. CASE x = FALSE
    BY <1>2, <2>2, <2>3, <2>4, <2>5, <2>6, <2>8 DEF Parsable
  <2> QED
    BY <2>1, <2>7, <2>8
<1>3. CASE KeyType[k] = "string"
  <2>1. ToValue(k, x) = x /\ x \in Values
    BY <1>3 DEF ToValue, Fits
  <2>2. FromValue(k, x) = x
    BY <1>3 DEF FromValue, get_value
  <2> QED
    BY <1>3, <2>1, <2>2 DEF Parsable
<1>4. CASE KeyType[k] = "list"
  <2>1. ToValue(k, x) = set_list_value(x) /\ x \in Seq(Plain)
    BY <1>4 DEF ToValue, Fits
  <2>2. set_list_value(x) \in Values /\ split_string(set_list_value(x)) = x
    BY <2>1, ListBack
  <2>3. \A v : FromValue(k, v) = split_string(v)
    BY <1>4 DEF FromValue, get_list_value
  <2> QED
    BY <1>4, <2>1, <2>2, <2>3 DEF Parsable
<1>5. CASE KeyType[k] = "set"
  <2>1. ToValue(k, x) = set_set_value(x) /\ x \in SUBSET Plain
    BY <1>5 DEF ToValue, Fits
  <2>2. set_set_value(x) \in Values /\ ToSet(split_string(set_set_value(x))) = x
    BY <2>1, SetBack
  <2>3. \A v : FromValue(k, v) = ToSet(split_string(v))
    BY <1>5 DEF FromValue, get_set_value
  <2> QED
    BY <1>5, <2>1, <2>2, <2>3 DEF Parsable
<1> QED
  BY <1>1, <1>2, <1>3, <1>4, <1>5

\* What setting an object from a group comes to.
Outcomes == [object: Objects,
             err: {NoError} \cup [code: {"PASSTHROUGH_LGK", "PASSTHROUGH_GK"}, line: Nat]]

\* An object with a key set.
With(o, k, x) == [o EXCEPT ![k] = x]

\* It is an object.
LEMMA ObjectSet ==
  ASSUME NEW o \in Objects, NEW k \in Keys, NEW x, Fits(k, x)
  PROVE  /\ With(o, k, x) \in Objects /\ With(o, k, x)[k] = x
         /\ \A y \in Keys : y # k => With(o, k, x)[y] = o[y]
<1> DEFINE h == With(o, k, x)
<1>1. o = [y \in Keys |-> o[y]] /\ \A y \in Keys : Fits(y, o[y])
  BY ObjectsAre
<1>2. DOMAIN o = Keys
  BY <1>1
<1>3. h = [y \in Keys |-> h[y]] /\ h[k] = x /\ \A y \in Keys : y # k => h[y] = o[y]
  BY <1>2 DEF With
<1> HIDE DEF h
<1>4. \A y \in Keys : Fits(y, h[y])
  BY <1>1, <1>3
<1>5. h \in Objects
  BY <1>3, <1>4, ObjectsAre
<1> QED
  BY <1>3, <1>5 DEF h

\* get_object_value leaves an object.
LEMMA GetValueTyped ==
  ASSUME NEW f \in Keyfiles, NEW g, NEW k \in Keys, NEW p, NEW r \in Outcomes
  PROVE  get_object_value(f, g, k, p, r) \in Outcomes
<1> DEFINE e == Passthrough(f, g, k)
           x == FromValue(k, f[g].items[k].value)
<1>1. e \in [code: {"PASSTHROUGH_LGK", "PASSTHROUGH_GK"}, line: Nat]
  <2>1. get_line(f, g, k) \in Nat
    <3>1. CASE has_key(f, g, k)
      <4>1. g \in DOMAIN f /\ k \in DOMAIN f[g].items
        BY <3>1 DEF has_key, has_group
      <4>2. f[g].items[k] \in Items
        BY <4>1, GroupForm
      <4> QED
        BY <3>1, <4>2 DEF get_line, Items
    <3>2. CASE ~has_key(f, g, k)
      BY <3>2 DEF get_line
    <3> QED
      BY <3>1, <3>2
  <2> QED
    BY <2>1 DEF Passthrough, Err
<1>2. r.object \in Objects
  BY DEF Outcomes
<1>3. [r EXCEPT !.err = e] \in Outcomes
  <2> HIDE DEF e
  <2> QED
    BY <1>1 DEF Outcomes
<1>4. ASSUME has_key(f, g, k)
      PROVE  [r EXCEPT !.object[k] = x] \in Outcomes
  <2>1. g \in DOMAIN f /\ k \in DOMAIN f[g].items
    BY <1>4 DEF has_key, has_group
  <2>2. f[g].items[k].value \in Values
    BY <2>1, GroupForm
  <2>3. Fits(k, x)
    BY <2>2, FromValueFits
  <2> HIDE DEF x
  <2>4. [r.object EXCEPT ![k] = x] \in Objects
    BY <1>2, <2>3, ObjectSet DEF With
  <2>5. [r EXCEPT !.object[k] = x] = [r EXCEPT !.object = [r.object EXCEPT ![k] = x]]
    BY DEF Outcomes
  <2>6. [r EXCEPT !.object = [r.object EXCEPT ![k] = x]] \in Outcomes
    <3> DEFINE y == [r.object EXCEPT ![k] = x]
    <3> HIDE DEF y
    <3>1. [r EXCEPT !.object = y] \in Outcomes
      BY <2>4 DEF Outcomes, y
    <3> QED
      BY <3>1 DEF y
  <2> QED
    BY <2>5, <2>6
<1> DEFINE failed == [r EXCEPT !.err = e]
           good == [r EXCEPT !.object[k] = x]
           out == get_object_value(f, g, k, p, r)
<1>5. out = failed \/ out = r \/ (has_key(f, g, k) /\ out = good)
  BY DEF get_object_value
<1> HIDE DEF failed, good, out
<1> QED
  BY <1>3, <1>4, <1>5 DEF failed, good, out

\* GetObject goes from key to key.
LEMMA GetObjectIs ==
  ASSUME NEW f \in Keyfiles, NEW g, NEW p
  PROVE  /\ GetObject(f, g, p) \in Outcomes
         /\ \E a \in [0..Len(KeyOrder) -> Outcomes] :
              /\ GetObject(f, g, p) = a[Len(KeyOrder)] /\ a[0].err = NoError
              /\ \A n \in 1..Len(KeyOrder) :
                   a[n] = IF a[n - 1].err # NoError THEN a[n - 1]
                          ELSE get_object_value(f, g, KeyOrder[n], p[KeyOrder[n]], a[n - 1])
<1> DEFINE N == Len(KeyOrder)
           V == Outcomes
           z == [object |-> [k \in Keys |-> Default(k)], err |-> NoError]
           Step(x, n) == IF x.err # NoError THEN x
                         ELSE get_object_value(f, g, KeyOrder[n], p[KeyOrder[n]], x)
           Is(a) == a = [n \in 0..N |-> IF n = 0 THEN z ELSE Step(a[n - 1], n)]
           t == [x \in V \X (1..N) |-> Step(x[1], x[2])]
<1>1. N \in Nat /\ \A n \in 1..N : KeyOrder[n] \in Keys
  BY Orders
<1>2. GetObject(f, g, p) = (CHOOSE a : Is(a))[N]
  BY DEF GetObject
<1>3. \A x \in V, n \in 1..N : Step(x, n) \in V
  BY <1>1, GetValueTyped
<1>a. z \in V /\ z.err = NoError
  <2> DEFINE o == [k \in Keys |-> Default(k)]
  <2>1. o = [k \in Keys |-> o[k]] /\ \A k \in Keys : o[k] = Default(k)
    OBVIOUS
  <2> HIDE DEF o
  <2>2. o \in Objects
    BY <2>1, ObjectsAre, DefaultFits
  <2> QED
    BY <2>2 DEF o, Outcomes
<1> HIDE DEF Step, N, z
<1>4. z \in V /\ t \in [V \X (1..N) -> V]
  BY <1>3, <1>a
<1> HIDE DEF V
<1>5. PICK a \in [0..N -> V] : a[0] = z /\ \A n \in 1..N : a[n] = t[<<a[n - 1], n>>]
  <2> HIDE DEF t, z
  <2>1. IsLoop(N, V, z, t)
    BY <1>1, <1>4 DEF IsLoop
  <2>2. HasResult(N, V, z, t)
    BY <2>1, LoopRuns
  <2> QED
    BY <2>2 DEF HasResult
<1>6. \A n \in 1..N : a[n] = Step(a[n - 1], n)
  <2> TAKE n \in 1..N
  <2>1. a[n - 1] \in V
    BY <1>1
  <2>2. a[n] = t[<<a[n - 1], n>>]
    <3> HIDE DEF t
    <3> QED
      BY <1>5
  <2> QED
    BY <2>1, <2>2
<1> HIDE DEF t, z
<1>7. Is(a)
  BY <1>1, <1>5, <1>6
<1> DEFINE q == CHOOSE b : Is(b)
<1>8. Is(q)
  BY <1>7
<1> HIDE DEF q
<1>9. q = a
  <2> DEFINE S == {n \in 0..N : q[n] = a[n]}
  <2>1. 0 \in S
    BY <1>1, <1>7, <1>8
  <2>2. ASSUME NEW n \in 1..N, n - 1 \in S
        PROVE  n \in S
    <3>1. n \in 0..N /\ n # 0
      BY <1>1
    <3>2. q[n] = Step(q[n - 1], n) /\ a[n] = Step(a[n - 1], n)
      BY <1>7, <1>8, <3>1
    <3> QED
      BY <2>2, <3>1, <3>2
  <2>3. \A n \in 0..N : n \in S
    <3> HIDE DEF S
    <3> QED
      BY <1>1, <2>1, <2>2, UpTo
  <2> QED
    BY <1>7, <1>8, <2>3
<1>10. GetObject(f, g, p) = a[N]
  BY <1>2, <1>9 DEF q
<1>11. a[N] \in V
  BY <1>1
<1> QED
  BY <1>11, <1>a, <1>5, <1>6, <1>10 DEF Step, N, V

\* A keyfile that holds the values of an object in a group.
Stores(f, g, o) ==
    \A k \in Keys : has_key(f, g, k) /\ f[g].items[k].value = ToValue(k, o[k])

\* The object that is set from the values of an object is that object.
LEMMA StoredIsSet ==
  ASSUME NEW f \in Keyfiles, NEW g, NEW o \in Objects, Stores(f, g, o),
         \A k \in Keys : KeyType[k] = "string" => o[k] \notin Refused
  PROVE  GetObject(f, g, [k \in Keys |-> "OPTIONAL"]).object = o
<1> DEFINE N == Len(KeyOrder)
           p == [k \in Keys |-> "OPTIONAL"]
<1>1. /\ N \in Nat /\ \A n \in 1..N : KeyOrder[n] \in Keys
      /\ \A k \in Keys : \E n \in 1..N : KeyOrder[n] = k
  BY Orders
<1>2. \A k \in Keys : p[k] = "OPTIONAL"
  OBVIOUS
<1> HIDE DEF p
<1>3. PICK a \in [0..N -> Outcomes] :
            /\ GetObject(f, g, p) = a[N] /\ a[0].err = NoError
            /\ \A n \in 1..N :
                 a[n] = IF a[n - 1].err # NoError THEN a[n - 1]
                        ELSE get_object_value(f, g, KeyOrder[n], p[KeyOrder[n]], a[n - 1])
  BY GetObjectIs
<1> HIDE DEF N
<1> DEFINE S == {n \in 0..N : /\ a[n].err = NoError
                              /\ \A i \in 1..n : a[n].object[KeyOrder[i]] = o[KeyOrder[i]]}
<1>4. 0 \in S
  BY <1>1, <1>3
<1>5. ASSUME NEW n \in 1..N, n - 1 \in S
      PROVE  n \in S
  <2> DEFINE k == KeyOrder[n]
             r == a[n - 1]
             v == f[g].items[k].value
  <2>1. /\ n \in 0..N /\ n - 1 \in 0..N /\ r \in Outcomes /\ k \in Keys
        /\ r.err = NoError /\ \A i \in 1..(n - 1) : r.object[KeyOrder[i]] = o[KeyOrder[i]]
    BY <1>1, <1>5
  <2>2. a[n] = get_object_value(f, g, k, "OPTIONAL", r)
    BY <1>2, <1>3, <2>1
  <2> HIDE DEF k, r
  <2>3. has_key(f, g, k) /\ v = ToValue(k, o[k])
    BY <2>1 DEF Stores
  <2>4. Fits(k, o[k])
    BY <2>1, ObjectsAre
  <2>5. v \in Values /\ Parsable(k, v) /\ FromValue(k, v) = o[k]
    BY <2>1, <2>3, <2>4, ToValueBack
  <2>6. ~(KeyType[k] = "string" /\ v \in Refused)
    <3>1. KeyType[k] = "string" => v = o[k]
      BY <2>3 DEF ToValue
    <3> QED
      BY <2>1, <3>1
  <2>7. check_priority(f, g, k, "OPTIONAL", TRUE) = NoError
    BY DEF check_priority
  <2>8. a[n] = [r EXCEPT !.object[k] = o[k]]
    <3>1. (has_key(f, g, k) /\ Parsable(k, v)) = TRUE
      BY <2>3, <2>5
    <3>2. get_object_value(f, g, k, "OPTIONAL", r) = [r EXCEPT !.object[k] = FromValue(k, v)]
      BY <2>6, <2>7, <3>1 DEF get_object_value
    <3> QED
      BY <2>2, <2>5, <3>2
  <2>9. r.object \in Objects
    BY <2>1 DEF Outcomes
  <2>10. /\ With(r.object, k, o[k])[k] = o[k]
         /\ \A y \in Keys : y # k => With(r.object, k, o[k])[y] = r.object[y]
    BY <2>1, <2>4, <2>9, ObjectSet
  <2>11. a[n].err = NoError /\ a[n].object = With(r.object, k, o[k])
    BY <2>1, <2>8 DEF Outcomes, With
  <2>12. ASSUME NEW i \in 1..n
         PROVE  a[n].object[KeyOrder[i]] = o[KeyOrder[i]]
    <3>1. CASE KeyOrder[i] = k
      BY <2>10, <2>11, <3>1
    <3>2. CASE KeyOrder[i] # k
      <4>1. i \in 1..(n - 1) /\ i \in 1..N
        BY <1>1, <3>2 DEF k
      <4>2. KeyOrder[i] \in Keys /\ r.object[KeyOrder[i]] = o[KeyOrder[i]]
        BY <1>1, <2>1, <4>1
      <4> QED
        BY <2>10, <2>11, <3>2, <4>2
    <3> QED
      BY <3>1, <3>2
  <2> QED
    BY <2>1, <2>11, <2>12
<1>6. N \in S
  <2> HIDE DEF S
  <2>1. \A n \in 0..N : n \in S
    BY <1>1, <1>4, <1>5, UpTo
  <2> QED
    BY <1>1, <2>1
<1>7. \A k \in Keys : a[N].object[k] = o[k]
  BY <1>1, <1>6
<1>8. a[N].object \in Objects
  <2>1. a[N] \in Outcomes
    BY <1>1
  <2> QED
    BY <2>1 DEF Outcomes
<1>9. a[N].object = [k \in Keys |-> a[N].object[k]] /\ o = [k \in Keys |-> o[k]]
  BY <1>8, ObjectsAre
<1>10. a[N].object = o
  BY <1>7, <1>9
<1> QED
  BY <1>3, <1>10 DEF p

\* SetObject goes from key to key.
LEMMA SetObjectIs ==
  ASSUME NEW g \in Groups, NEW o \in Objects
  PROVE  \E a \in [0..Len(KeyOrder) -> Keyfiles] :
            /\ SetObject(g, o) = a[Len(KeyOrder)]
            /\ \A n \in 1..Len(KeyOrder) :
                 a[n] = set_value(a[n - 1], g, KeyOrder[n], ToValue(KeyOrder[n], o[KeyOrder[n]]),
                                  <<>>, 0)
<1> DEFINE N == Len(KeyOrder)
           V == Keyfiles
           z == EmptyKeyfile
           Step(x, n) == set_value(x, g, KeyOrder[n], ToValue(KeyOrder[n], o[KeyOrder[n]]), <<>>, 0)
           Is(a) == a = [n \in 0..N |-> IF n = 0 THEN z ELSE Step(a[n - 1], n)]
           t == [x \in V \X (1..N) |-> Step(x[1], x[2])]
<1>1. N \in Nat /\ \A n \in 1..N : KeyOrder[n] \in Keys
  BY Orders
<1>2. SetObject(g, o) = (CHOOSE a : Is(a))[N]
  BY DEF SetObject
<1>3. \A x \in V, n \in 1..N : Step(x, n) \in V
  <2> TAKE x \in V, n \in 1..N
  <2>1. KeyOrder[n] \in Keys
    BY <1>1
  <2>2. Fits(KeyOrder[n], o[KeyOrder[n]])
    BY <2>1, ObjectsAre
  <2>3. ToValue(KeyOrder[n], o[KeyOrder[n]]) \in Values
    BY <2>1, <2>2, ToValueBack
  <2> QED
    BY <2>1, <2>3, NoComment, SetValueTyped
<1>a. z \in V
  BY KeyfilesAre DEF EmptyKeyfile
<1> HIDE DEF Step, N, z
<1>4. z \in V /\ t \in [V \X (1..N) -> V]
  BY <1>3, <1>a
<1> HIDE DEF V
<1>5. PICK a \in [0..N -> V] : a[0] = z /\ \A n \in 1..N : a[n] = t[<<a[n - 1], n>>]
  <2> HIDE DEF t, z
  <2>1. IsLoop(N, V, z, t)
    BY <1>1, <1>4 DEF IsLoop
  <2>2. HasResult(N, V, z, t)
    BY <2>1, LoopRuns
  <2> QED
    BY <2>2 DEF HasResult
<1>6. \A n \in 1..N : a[n] = Step(a[n - 1], n)
  <2> TAKE n \in 1..N
  <2>1. a[n - 1] \in V
    BY <1>1
  <2>2. a[n] = t[<<a[n - 1], n>>]
    <3> HIDE DEF t
    <3> QED
      BY <1>5
  <2> QED
    BY <2>1, <2>2
<1> HIDE DEF t, z
<1>7. Is(a)
  BY <1>1, <1>5, <1>6
<1> DEFINE q == CHOOSE b : Is(b)
<1>8. Is(q)
  BY <1>7
<1> HIDE DEF q
<1>9. q = a
  <2> DEFINE S == {n \in 0..N : q[n] = a[n]}
  <2>1. 0 \in S
    BY <1>1, <1>7, <1>8
  <2>2. ASSUME NEW n \in 1..N, n - 1 \in S
        PROVE  n \in S
    <3>1. n \in 0..N /\ n # 0
      BY <1>1
    <3>2. q[n] = Step(q[n - 1], n) /\ a[n] = Step(a[n - 1], n)
      BY <1>7, <1>8, <3>1
    <3> QED
      BY <2>2, <3>1, <3>2
  <2>3. \A n \in 0..N : n \in S
    <3> HIDE DEF S
    <3> QED
      BY <1>1, <2>1, <2>2, UpTo
  <2> QED
    BY <1>7, <1>8, <2>3
<1>10. SetObject(g, o) = a[N]
  BY <1>2, <1>9 DEF q
<1> QED
  BY <1>6, <1>10 DEF Step, N, V

\* An object is stored as a keyfile that holds its values.
LEMMA ObjectIsStored ==
  ASSUME NEW g \in Groups, NEW o \in Objects
  PROVE  SetObject(g, o) \in Keyfiles /\ Stores(SetObject(g, o), g, o)
<1> DEFINE N == Len(KeyOrder)
           Val(k) == ToValue(k, o[k])
           Has(f, k) == has_key(f, g, k) /\ f[g].items[k].value = Val(k)
<1>1. /\ N \in Nat /\ \A n \in 1..N : KeyOrder[n] \in Keys
      /\ \A k \in Keys : \E n \in 1..N : KeyOrder[n] = k
  BY Orders
<1>2. PICK a \in [0..N -> Keyfiles] :
            /\ SetObject(g, o) = a[N]
            /\ \A n \in 1..N : a[n] = set_value(a[n - 1], g, KeyOrder[n], Val(KeyOrder[n]), <<>>, 0)
  BY SetObjectIs
<1> HIDE DEF N
<1>3. \A k \in Keys : Val(k) \in Values
  BY ObjectsAre, ToValueBack
<1> HIDE DEF Val
<1> DEFINE S == {n \in 0..N : \A i \in 1..n : Has(a[n], KeyOrder[i])}
<1>4. 0 \in S
  BY <1>1
<1>5. ASSUME NEW n \in 1..N, n - 1 \in S
      PROVE  n \in S
  <2> DEFINE f == a[n - 1]
             k == KeyOrder[n]
             m == set_group(f, g, <<>>, 0)
             h == set_value(m, g, k, Val(k), <<>>, 0)
  <2>1. /\ n \in 0..N /\ n - 1 \in 0..N /\ f \in Keyfiles /\ k \in Keys
        /\ \A i \in 1..(n - 1) : Has(f, KeyOrder[i])
    BY <1>1, <1>5
  <2>2. a[n] = set_value(f, g, k, Val(k), <<>>, 0)
    BY <1>2
  <2> HIDE DEF f, k
  <2>3. Val(k) \in Values /\ <<>> \in Comments /\ 0 \in Nat
    BY <1>3, <2>1, NoComment
  <2>4. m \in Keyfiles /\ g \in DOMAIN m /\ a[n] = h
    BY <2>1, <2>2, <2>3, SetValueTyped
  <2>5. ASSUME NEW x, Has(f, x)
        PROVE  Has(m, x)
    BY <2>5 DEF set_group, has_key
  <2> HIDE DEF m
  <2>6. /\ DOMAIN h = DOMAIN m
        /\ DOMAIN h[g].items = DOMAIN m[g].items \cup {k}
        /\ h[g].items[k] = Item(Val(k), <<>>, 0)
        /\ \A x \in DOMAIN m[g].items : x # k => h[g].items[x] = m[g].items[x]
    BY <2>1, <2>3, <2>4, SetValueIs
  <2> HIDE DEF h
  <2>7. Has(h, k)
    BY <2>4, <2>6 DEF has_key, has_group, Item
  <2>8. ASSUME NEW x, Has(m, x)
        PROVE  Has(h, x)
    <3>1. CASE x = k
      BY <2>7, <3>1
    <3>2. CASE x # k
      BY <2>6, <2>8, <3>2 DEF has_key, has_group
    <3> QED
      BY <3>1, <3>2
  <2>9. ASSUME NEW i \in 1..n
        PROVE  Has(h, KeyOrder[i])
    <3> HIDE DEF Has
    <3>1. CASE i = n
      BY <2>7, <3>1 DEF k
    <3>2. CASE i # n
      <4>1. i \in 1..(n - 1)
        BY <1>1, <3>2
      <4> QED
        BY <2>1, <2>5, <2>8, <4>1
    <3> QED
      BY <3>1, <3>2
  <2> HIDE DEF Has
  <2> QED
    BY <2>1, <2>4, <2>9
<1>6. N \in S
  <2> HIDE DEF S
  <2>1. \A n \in 0..N : n \in S
    BY <1>1, <1>4, <1>5, UpTo
  <2> QED
    BY <1>1, <2>1
<1>7. \A k \in Keys : Has(a[N], k)
  <2> HIDE DEF Has
  <2> QED
    BY <1>1, <1>6
<1>8. a[N] \in Keyfiles
  BY <1>1
<1> QED
  BY <1>2, <1>7, <1>8 DEF Stores, Val

\* What a stored object is set from is a keyfile that holds its values.
LEMMA StoredIsRead ==
  ASSUME NEW g \in Groups, NEW o \in Objects
  PROVE  LET f == Load(PrintFile(SetObject(g, o))).tmp
         IN  f \in Keyfiles /\ Stores(f, g, o)
<1> DEFINE m == SetObject(g, o)
           f == Load(PrintFile(m)).tmp
<1>1. m \in Keyfiles /\ Stores(m, g, o)
  BY ObjectIsStored
<1> HIDE DEF m
<1>2. /\ Load(PrintFile(m)) \in States /\ DOMAIN f = DOMAIN m
      /\ \A x \in DOMAIN m : SameGroup(f[x], m[x])
  BY <1>1, FileReadBack
<1>3. f \in Keyfiles
  BY <1>2 DEF States
<1> HIDE DEF f
<1>4. ASSUME NEW k \in Keys
      PROVE  has_key(f, g, k) /\ f[g].items[k].value = ToValue(k, o[k])
  <2>1. g \in DOMAIN m /\ k \in DOMAIN m[g].items /\ m[g].items[k].value = ToValue(k, o[k])
    BY <1>1 DEF Stores, has_key, has_group
  <2>2. SameItems(f[g].items, m[g].items)
    BY <1>2, <2>1 DEF SameGroup
  <2> QED
    BY <1>2, <2>1, <2>2 DEF SameItems, SameItem, has_key, has_group
<1>5. Stores(f, g, o)
  BY <1>4 DEF Stores
<1> QED
  BY <1>3, <1>5 DEF f, m

\* What a group was used for.
UsedObject == phase = "used" => wanted \in Groups /\ result \in Outcomes

\* keyfile: an object that was set from whatever key file is, once it is stored, printed
\* and read again, the same object, unless it holds a value its method throws on.
THEOREM ObjectsSurvive == KeyfileSpec => []ObjectSurvives
<1>1. KeyfileInit => KeyfileTyped /\ UsedObject
  BY EarlierAreKeyfiles, KeyfileAssumption DEF KeyfileInit, KeyfileTyped, UsedObject
<1>2. KeyInv /\ KeyfileTyped /\ [KeyfileNext]_keyfile_vars => KeyfileTyped'
  BY KeyfileStays
<1>3. KeyfileTyped /\ UsedObject /\ [KeyfileNext]_keyfile_vars => UsedObject'
  <2> SUFFICES ASSUME KeyfileTyped, UsedObject, [KeyfileNext]_keyfile_vars
               PROVE  UsedObject'
    OBVIOUS
  <2>1. ASSUME NEW l \in Line, GetLine(l)
        PROVE  UsedObject'
    BY <2>1 DEF GetLine, UsedObject
  <2>2. CASE EndOfFile
    BY <2>2 DEF EndOfFile, UsedObject
  <2>3. ASSUME NEW g \in Groups, RemoveGroup(g)
        PROVE  UsedObject'
    BY <2>3 DEF RemoveGroup, UsedObject
  <2>4. ASSUME NEW g \in Groups, NEW k \in Keys, RemoveKey(g, k)
        PROVE  UsedObject'
    BY <2>4 DEF RemoveKey, UsedObject
  <2>5. ASSUME NEW g \in Groups, NEW p \in Priorities, UseGroup(g, p)
        PROVE  UsedObject'
    BY <2>5, GetObjectIs DEF UseGroup, UsedObject, KeyfileTyped
  <2>6. CASE UNCHANGED keyfile_vars
    BY <2>6 DEF keyfile_vars, UsedObject
  <2> QED
    BY <2>1, <2>2, <2>3, <2>4, <2>5, <2>6 DEF KeyfileNext
<1>4. UsedObject => ObjectSurvives
  <2> SUFFICES ASSUME UsedObject, phase = "used",
                      \A k \in Keys : KeyType[k] = "string" => result.object[k] \notin Refused
               PROVE  GetObject(Load(PrintFile(SetObject(wanted, result.object))).tmp, wanted,
                                [k \in Keys |-> "OPTIONAL"]).object = result.object
    BY DEF ObjectSurvives
  <2> DEFINE o == result.object
             f == Load(PrintFile(SetObject(wanted, o))).tmp
  <2>1. wanted \in Groups /\ o \in Objects
    BY DEF UsedObject, Outcomes
  <2>2. f \in Keyfiles /\ Stores(f, wanted, o)
    BY <2>1, StoredIsRead
  <2> HIDE DEF f
  <2>3. GetObject(f, wanted, [k \in Keys |-> "OPTIONAL"]).object = o
    BY <2>1, <2>2, StoredIsSet
  <2> QED
    BY <2>3 DEF f
<1> QED
  BY <1>1, <1>2, <1>3, <1>4, KeyInvHolds, PTL DEF KeyfileSpec
=============================================================================
