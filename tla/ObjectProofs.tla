---------------------------- MODULE ObjectProofs ----------------------------
(***************************************************************************)
(* Proofs about ChrootObject, for any definitions, sessions and users.     *)
(***************************************************************************)
EXTENDS ChrootObject, TLAPS

Values == Seq(Strings)

\* The keys the operators name are members.
LEMMA FieldNames ==
    /\ \A k \in {"name", "mount-location", "device", "mount-device", "file", "location",
                 "union-type", "lvm-snapshot-device", "btrfs-source-subvolume",
                 "btrfs-snapshot-directory", "zfs-dataset", "zfs-clone-name",
                 "custom-session-purgeable", "source-clone", "original-name",
                 "root-users", "root-groups", "directory", "file-repack"} : k \in Fields
    /\ \A k \in Lists : SourceList(k) \in Fields
BY DEF Fields, Lists, SourceLists, SourceList

\* Values of no, one and two strings, and a path with its last part removed or
\* parts added.
LEMMA ValueTypes ==
    ASSUME NEW a \in Strings, NEW b \in Strings, NEW p \in Values
    PROVE  /\ <<>> \in Values /\ <<a>> \in Values /\ <<a, b>> \in Values
           /\ Append(p, a) \in Values /\ p \o <<a, b>> \in Values /\ Dirname(p) \in Values
<1>1. <<a, b>> \in Seq(Strings)
  OBVIOUS
<1>2. p \o <<a, b>> \in Seq(Strings)
  BY <1>1 DEF Values
<1>3. Dirname(p) \in Seq(Strings)
  <2>1. Len(p) > 1 => SubSeq(p, 1, Len(p) - 1) \in Seq(Strings)
    BY DEF Values
  <2> QED  BY <2>1 DEF Values, Dirname
<1> QED  BY <1>1, <1>2, <1>3 DEF Values

\* The values the code itself sets.
LEMMA ConstantValues ==
    /\ None \in Values /\ True \in Values /\ False \in Values /\ <<>> \in Values
    /\ <<"default">> \in Values
    /\ <<"/", "overlay">> \in Values /\ <<"/", "underlay">> \in Values
    /\ ChrootName \in Values /\ <<"dummy-session-name">> \in Values
<1>1. \A a, b \in Strings : <<a>> \in Values /\ <<a, b>> \in Values
  BY DEF Values
<1>2. <<>> \in Values
  BY DEF Values
<1> QED  BY <1>1, <1>2, StringAssumption DEF None, True, False, ChrootName

\* chroot::create makes a complete object.
LEMMA CreateType ==
    ASSUME NEW type \in Types, NEW name \in Values
    PROVE  Create(type, name) \in Objects
<1>1. InitialFacets(type) \in SUBSET Facets
  BY DEF Facets, Types, InitialFacets, BaseFacets, PlainFacets, DirectoryFacets, FileFacets, LoopbackFacets,
         BlockDeviceBaseFacets, BlockDeviceFacets, LvmFacets, BtrfsFacets, ZfsFacets
<1>2. Create(type, name).val \in [Fields -> Values]
  BY ConstantValues DEF Create
<1> QED  BY <1>1, <1>2 DEF Create, Objects, Values

\* The copy constructors make a complete object of the same type and facets.
LEMMA CopyType ==
    ASSUME NEW o \in Objects
    PROVE  Copy(o) \in Objects /\ Copy(o).type = o.type /\ Copy(o).facets = o.facets
BY ConstantValues DEF Copy, Objects, Values

\* clone_session_setup sets every member to a value.
LEMMA SessionValueType ==
    ASSUME NEW o \in Objects, NEW id \in Strings, NEW alias \in Values,
           NEW user \in Values, NEW root, NEW k \in Fields
    PROVE  SessionValue(o, id, alias, user, root, k) \in Values
<1>1. \A j \in Fields : o.val[j] \in Values
  BY DEF Objects, Values
<1>2. {"schroot", "@", "/", "mount"} \subseteq Strings
  BY StringAssumption
<1>3. \A p \in Values : /\ Append(p, id) \in Values /\ p \o <<"schroot", id>> \in Values
                        /\ p \o <<"@", id>> \in Values /\ Dirname(p) \in Values
  BY <1>2, ValueTypes
<1>4. SnapshotDevice(o, id) \in Values /\ CloneName(o, id) \in Values
  BY <1>1, <1>3, FieldNames DEF SnapshotDevice, CloneName
<1>5. MountDevice(o, id) \in Values
  BY <1>1, <1>4, FieldNames DEF MountDevice
<1>6. /\ Append(o.val["btrfs-snapshot-directory"], id) \in Values
      /\ o.val["zfs-dataset"] \o <<"@", id>> \in Values
      /\ UnionDirectory(o.val[k], id) \in Values
  BY <1>1, <1>3, FieldNames DEF UnionDirectory
<1>7. <<id>> \in Values /\ <<"/", "mount", id>> \in Values /\ <<>> \in Values
  BY <1>2, ConstantValues DEF Values
<1> HIDE DEF Values
<1> QED  BY <1>1, <1>4, <1>5, <1>6, <1>7, FieldNames DEF SessionValue

\* clone_session makes a complete object that is a session and has no sessions
\* or source of its own.
LEMMA CloneSessionType ==
    ASSUME NEW o \in Objects, NEW id \in Strings, NEW alias \in Values,
           NEW user \in Values, NEW root
    PROVE  LET s == CloneSession(o, id, alias, user, root) IN
           /\ s \in Objects /\ s.type = o.type
           /\ s.facets = (o.facets \ {"session-clonable", "source-clonable"}) \cup {"session"}
<1> DEFINE c == Copy(o)
           v == [k \in Fields |-> SessionValue(Copy(o), id, alias, user, root, k)]
<1>1. v \in [Fields -> Seq(Strings)]
  BY CopyType, SessionValueType DEF Values
<1>2. "session" \in Facets
  BY DEF Facets
<1>3. c \in Objects /\ c.type = o.type /\ c.facets = o.facets
  BY CopyType
<1>4. CloneSession(o, id, alias, user, root) =
        [c EXCEPT !.facets = (@ \ {"session-clonable", "source-clonable"}) \cup {"session"},
                  !.parentSource = "source" \in o.facets, !.val = v]
  BY DEF CloneSession
<1> HIDE DEF c, v
<1>5. ("source" \in o.facets) \in BOOLEAN
  OBVIOUS
<1> QED  BY <1>1, <1>2, <1>3, <1>4, <1>5 DEF Objects

\* clone_source makes a complete object without union and source of its own.
LEMMA CloneSourceType ==
    ASSUME NEW o \in Objects
    PROVE  /\ CloneSource(o) \in Objects
           /\ CloneSource(o).facets = (o.facets \ {"union", "source-clonable"}) \cup {"source"}
           /\ CloneSource(o).original = FALSE
           /\ o.type # "plain" => CloneSource(o).type # "plain"
<1>1. \A j \in Fields : o.val[j] \in Values /\ Copy(o).val[j] \in Values
  BY CopyType DEF Objects, Values
<1>2. CloneSource(o).val \in [Fields -> Values]
  <2>1. SourceDirectory(o) \in Values /\ SourceRepack(o) \in Values
    BY <1>1, ConstantValues, FieldNames DEF SourceDirectory, SourceRepack
  <2>2. \A k \in Lists : o.val[SourceList(k)] \in Values
    BY <1>1, FieldNames
  <2> QED  BY <1>1, <2>1, <2>2, CopyType DEF CloneSource, Objects
<1>3. "source" \in Facets
  BY DEF Facets
<1>4. /\ SourceType(o.type) \in Types
      /\ o.type # "plain" => SourceType(o.type) # "plain"
  BY DEF SourceType, Types, Objects
<1> QED  BY <1>2, <1>3, <1>4, CopyType DEF CloneSource, Objects, Values

\* Which facets give an object the flags that let it be cloned.
LEMMA CloningFlags ==
    ASSUME NEW o
    PROVE  /\ "create" \in SessionFlags(o) => "session-clonable" \in o.facets
           /\ "clone" \in SessionFlags(o) => "source-clonable" \in o.facets /\ ~IsSession(o)
<1>1. /\ TypeFlags(o) \subseteq {"purge"} /\ UnionFlags(o) \subseteq {"purge"}
      /\ SessionFacetFlags(o) \subseteq {"source"}
      /\ SourceClonableFlags(o) = IF IsSession(o) THEN {} ELSE {"clone"}
  BY DEF TypeFlags, SnapshotFlags, CustomFlags, UnionFlags, SessionFacetFlags,
         SourceClonableFlags
<1>2. ASSUME NEW f \in o.facets
      PROVE  /\ "create" \in FacetFlags(o, f) => f = "session-clonable"
             /\ "clone" \in FacetFlags(o, f) => f = "source-clonable" /\ ~IsSession(o)
  BY <1>1 DEF FacetFlags
<1> QED  BY <1>1, <1>2 DEF SessionFlags

\* What get_keyfile writes is a group that names the type.
LEMMA GetKeyfileType ==
    ASSUME NEW o \in Objects
    PROVE  IsGroup(GetKeyfile(o)) /\ GetKeyfile(o)["type"][1] = o.type
<1>1. o.type \in Types /\ o.facets \subseteq Facets
  BY DEF Objects
<1>2. LvmKeys(IsSession(o)) \subseteq Fields \cup OtherKeys
  BY DEF LvmKeys, Fields
<1>3. TypeKeys(o) \subseteq Fields \cup OtherKeys
  BY <1>1, <1>2 DEF TypeKeys, DirectoryKeys, FileKeys, LoopbackKeys, BlockDeviceKeys,
                    BtrfsKeys, ZfsKeys, CustomKeys, Fields, OtherKeys, Types
<1>4. \A f \in o.facets : FacetKeys(o, f) \subseteq Fields \cup OtherKeys
  BY DEF FacetKeys, MountableKeys, UnionKeys, SourceClonableKeys, SessionKeys, Fields
<1>5. /\ ChrootKeys(IsSession(o)) \subseteq Fields \cup {"type"}
      /\ "type" \in ChrootKeys(IsSession(o)) /\ "type" \in OtherKeys
  BY DEF ChrootKeys, Fields, OtherKeys
<1>6. KeysWritten(o) \subseteq Fields \cup OtherKeys /\ "type" \in KeysWritten(o)
  BY <1>3, <1>4, <1>5 DEF KeysWritten
<1>7. "custom-session-cloneable" \notin KeysWritten(o)
      /\ "custom-source-cloneable" \notin KeysWritten(o)
  <2>1. {"custom-session-cloneable", "custom-source-cloneable"} \cap Fields = {}
    BY DEF Fields, Lists, SourceLists, SourceList
  <2>2. {"custom-session-cloneable", "custom-source-cloneable"} \cap TypeKeys(o) = {}
    BY <1>1 DEF TypeKeys, DirectoryKeys, FileKeys, LoopbackKeys, BlockDeviceKeys,
                LvmKeys, BtrfsKeys, ZfsKeys, CustomKeys, Types
  <2>3. \A f \in o.facets : FacetKeys(o, f) \subseteq Fields
    BY DEF FacetKeys, MountableKeys, UnionKeys, SourceClonableKeys, SessionKeys, Fields
  <2> QED  BY <1>5, <2>1, <2>2, <2>3 DEF KeysWritten
<1>8. \A j \in Fields : o.val[j] \in Values
  BY DEF Objects, Values
<1>9. <<o.type>> \in Values
  BY <1>1, StringAssumption DEF Values
<1>10. \A k \in KeysWritten(o) : GetKeyfile(o)[k] \in Values
  BY <1>6, <1>7, <1>8, <1>9, FieldNames DEF GetKeyfile, OtherKeys
<1>11. DOMAIN GetKeyfile(o) = KeysWritten(o) /\ GetKeyfile(o)["type"] = <<o.type>>
  BY <1>6 DEF GetKeyfile
<1>12. GetKeyfile(o) \in [KeysWritten(o) -> Values]
  BY <1>10 DEF GetKeyfile
<1> QED  BY <1>1, <1>6, <1>11, <1>12 DEF IsGroup, Values

\* set_keyfile refuses the file or makes a complete object of the same type.
\* Only set_union_type and the setters of chroot_custom change its facets.
LEMMA SetKeyfileType ==
    ASSUME NEW o \in Objects, NEW kf, IsGroup(kf), SetKeyfile(o, kf) # Refused
    PROVE  LET s == SetKeyfile(o, kf) IN
           /\ s \in Objects /\ s.type = o.type
           /\ s.facets \subseteq o.facets \cup {"source-clonable"}
           /\ o.facets \ {"source-clonable", "session-clonable"} \subseteq s.facets
<1> DEFINE p == SetFacets(o, kf)
<1>1. /\ p \in Objects /\ p.type = o.type
      /\ p.facets \subseteq o.facets \cup {"source-clonable"}
      /\ o.facets \ {"source-clonable", "session-clonable"} \subseteq p.facets
  <2>1. "source-clonable" \in Facets
    BY DEF Facets
  <2>2. o.facets \in SUBSET Facets
    BY DEF Objects
  <2>3. p = o \/ \E F \in SUBSET Facets :
          /\ p = [o EXCEPT !.facets = F]
          /\ F \subseteq o.facets \cup {"source-clonable"}
          /\ o.facets \ {"source-clonable", "session-clonable"} \subseteq F
    <3>1. CASE o.type = "custom"
      <4> DEFINE F == (o.facets \ ((IF Given(kf, "custom-session-cloneable", False)
                                     THEN {"session-clonable"} ELSE {})
                                  \cup (IF Given(kf, "custom-source-cloneable", False)
                                          THEN {"source-clonable"} ELSE {})))
                      \cup (IF Given(kf, "custom-source-cloneable", True)
                              THEN {"source-clonable"} ELSE {})
      <4>1. p = [o EXCEPT !.facets = F]
        BY <3>1 DEF SetFacets
      <4>2. F \in SUBSET Facets /\ F \subseteq o.facets \cup {"source-clonable"}
            /\ o.facets \ {"source-clonable", "session-clonable"} \subseteq F
        BY <2>1, <2>2
      <4> QED  BY <4>1, <4>2
    <3>2. CASE o.type # "custom"
      BY <2>1, <2>2, <3>2 DEF SetFacets
    <3> QED  BY <3>1, <3>2
  <2> QED  BY <2>3 DEF Objects
<1> HIDE DEF p
<1>2. \A k \in DOMAIN kf : kf[k] \in Values
  BY DEF IsGroup, Values
<1>3. \A k \in Fields : p.val[k] \in Values
  BY <1>1 DEF Objects, Values
<1>4. /\ SetValues(p, kf) \in Objects
      /\ SetValues(p, kf).type = p.type /\ SetValues(p, kf).facets = p.facets
  <2> DEFINE given == KeysRead(p, kf) \cap DOMAIN kf
  <2>1. \A k \in given : kf[k] \in Values
    BY <1>2
  <2> HIDE DEF given
  <2>2. SetValues(p, kf).val \in [Fields -> Values]
    BY <1>1, <1>2, <1>3, <2>1, FieldNames DEF SetValues, Objects, given
  <2> QED  BY <1>1, <2>2 DEF SetValues, Objects, Values
<1> QED  BY <1>1, <1>4 DEF SetKeyfile, p

\* load_keyfile makes of a session file of any type but plain a session that has
\* no sessions, and of a definition a chroot that is no session and, if plain, has
\* no sessions either.
LEMMA LoadKeyfileType ==
    ASSUME NEW ns \in {"chroot", "session"}, NEW name \in Values, NEW kf, IsGroup(kf),
           LoadKeyfile(ns, name, kf) # Refused
    PROVE  LET s == LoadKeyfile(ns, name, kf) IN
           /\ s \in Objects /\ s.type = kf["type"][1]
           /\ "session-clonable" \in s.facets => s.type # "plain"
           /\ ns = "chroot" => ~IsSession(s)
           /\ ns = "session" /\ s.type # "plain" =>
                IsSession(s) /\ "session-clonable" \notin s.facets
<1> DEFINE type == kf["type"][1]
           new == Create(type, name)
           t == Template(ns, name, kf)
<1>1. type \in Types
  BY DEF IsGroup
<1>2. /\ new \in Objects /\ new.type = type
      /\ "session" \notin new.facets
      /\ "session-clonable" \in new.facets <=> type # "plain"
  <2>1. new \in Objects
    BY <1>1, CreateType
  <2> QED  BY <1>1, <2>1 DEF Create, Types, InitialFacets, BaseFacets, PlainFacets, DirectoryFacets, FileFacets, LoopbackFacets,
         BlockDeviceBaseFacets, BlockDeviceFacets, LvmFacets, BtrfsFacets, ZfsFacets
<1>3. CASE ns = "session" /\ "session-clonable" \in new.facets
  <2> DEFINE c == CloneSession(new, "dummy-session-name", <<"dummy-session-name">>, <<>>, FALSE)
  <2>1. "dummy-session-name" \in Strings
    BY StringAssumption
  <2>2. /\ c \in Objects /\ c.type = type
        /\ c.facets = (new.facets \ {"session-clonable", "source-clonable"}) \cup {"session"}
    <3> HIDE DEF new, type
    <3>1. /\ new \in Objects /\ new.type = type
          /\ <<>> \in Values /\ <<"dummy-session-name">> \in Values
      BY <1>2, ConstantValues
    <3>2. \A root :
            LET s == CloneSession(new, "dummy-session-name", <<"dummy-session-name">>, <<>>, root)
            IN  /\ s \in Objects /\ s.type = type
                /\ s.facets = (new.facets \ {"session-clonable", "source-clonable"})
                                 \cup {"session"}
      BY <2>1, <3>1, CloneSessionType
    <3> QED  BY <3>2, Zenon
  <2>3. t = [c EXCEPT !.val["name"] = name]
    BY <1>3 DEF Template
  <2> HIDE DEF c, new, t, type
  <2>4. /\ t \in Objects /\ t.type = type /\ "session" \in t.facets
        /\ "session-clonable" \notin t.facets
    <3> DEFINE v == [c.val EXCEPT !["name"] = name]
    <3>1. v \in [Fields -> Seq(Strings)] /\ t = [c EXCEPT !.val = v]
      BY <2>2, <2>3 DEF Objects, Values
    <3> HIDE DEF v
    <3> QED  BY <2>2, <3>1 DEF Objects
  <2>5. SetKeyfile(t, kf) = LoadKeyfile(ns, name, kf)
    BY DEF LoadKeyfile, t
  <2> QED  BY <1>3, <2>4, <2>5, SetKeyfileType DEF IsSession, type
<1>4. CASE ~(ns = "session" /\ "session-clonable" \in new.facets)
  <2>1. t = new
    BY <1>4 DEF Template
  <2>2. SetKeyfile(new, kf) = LoadKeyfile(ns, name, kf)
    BY <2>1 DEF LoadKeyfile
  <2> HIDE DEF new
  <2> QED  BY <1>2, <1>4, <2>2, SetKeyfileType DEF IsSession
<1> QED  BY <1>3, <1>4

\* The source chroots of a complete object.
LEMMA SourceChrootsType ==
    ASSUME NEW o \in Objects
    PROVE  /\ SourceChroots(o) \subseteq Objects
           /\ IsSession(o) => SourceChroots(o) = {}
           /\ ("session-clonable" \in o.facets => o.type # "plain") =>
                \A s \in SourceChroots(o) :
                    /\ ~IsSession(s) /\ ~s.original
                    /\ s.facets \cap {"union", "source-clonable"} = {}
                    /\ "session-clonable" \in s.facets => s.type # "plain"
<1> DEFINE s == CloneSource(o)
<1>1. SourceChroots(o) = {} \/ (SourceChroots(o) = {s} /\ ~IsSession(o))
  BY DEF SourceChroots
<1>2. IsSession(o) => SourceChroots(o) = {}
  BY DEF SourceChroots, IsSession
<1>3. /\ s \in Objects /\ s.original = FALSE /\ (o.type # "plain" => s.type # "plain")
      /\ s.facets = (o.facets \ {"union", "source-clonable"}) \cup {"source"}
  BY CloneSourceType
<1> HIDE DEF s
<1>4. /\ ~s.original /\ s.facets \cap {"union", "source-clonable"} = {}
      /\ ~IsSession(o) => ~IsSession(s)
      /\ "session-clonable" \in s.facets => "session-clonable" \in o.facets
  BY <1>3 DEF IsSession
<1> QED  BY <1>1, <1>2, <1>3, <1>4

-----------------------------------------------------------------------------
\* A chroot that can have sessions is not a plain one.
MayBegin(o) == "session-clonable" \in o.facets => o.type # "plain"

\* The inductive invariant: which clones can be cloned, and that no plain chroot
\* has a session, whose file would make a chroot that is no session.
CloneInv ==
    /\ TypeOK
    /\ Object(chroot) => ~IsSession(chroot) /\ MayBegin(chroot)
    /\ \A s \in sources : /\ ~IsSession(s) /\ ~s.original /\ MayBegin(s)
                          /\ s.facets \cap {"union", "source-clonable"} = {}
    /\ \A i \in Ids : begun[i] # NoObject =>
         /\ IsSession(begun[i]) /\ "session-clonable" \notin begun[i].facets
         /\ file[i]["type"][1] # "plain"
    /\ \A i \in Ids : Object(again[i]) =>
         IsSession(again[i]) /\ "session-clonable" \notin again[i].facets

\* Types tell objects from what stands for none.
LEMMA NotObjects ==
    /\ NoObject \notin Objects /\ Refused \notin Objects /\ NoObject # Refused
    /\ ~Object(NoObject) /\ ~Object(Refused) /\ \A o \in Objects : Object(o)
BY DEF NoObject, Refused, Objects, Object, Types

\* session::run_impl begins a session from a chroot or a source chroot.
LEMMA BeginPreserves ==
    ASSUME CloneInv, NEW ns \in {"chroot", "source"}, NEW o \in Objects, MayBegin(o),
           NEW i \in Ids, NEW u \in Users, BeginSession(ns, o, i, u)
    PROVE  CloneInv'
<1>1. PICK root \in RootChoices(o, u) :
         /\ begun' = [begun EXCEPT ![i] = CloneSession(o, i, o.val["name"], <<u>>, root)]
         /\ file' = [file EXCEPT ![i] = GetKeyfile(CloneSession(o, i, o.val["name"], <<u>>, root))]
  BY DEF BeginSession
<1> DEFINE s == CloneSession(o, i, o.val["name"], <<u>>, root)
<1>2. /\ s \in Objects /\ s.type = o.type
      /\ s.facets = (o.facets \ {"session-clonable", "source-clonable"}) \cup {"session"}
  <2>1. i \in Strings /\ u \in Strings
    BY StringAssumption
  <2>2. o.val["name"] \in Values /\ <<u>> \in Values
    BY <2>1, FieldNames DEF Objects, Values
  <2> QED  BY <2>1, <2>2, CloneSessionType
<1>3. IsGroup(GetKeyfile(s)) /\ GetKeyfile(s)["type"][1] = s.type
  BY <1>2, GetKeyfileType
<1>4. s.type # "plain"
  BY <1>2, CloningFlags DEF BeginSession, MayBegin
<1> HIDE DEF s
<1>5. /\ begun' = [begun EXCEPT ![i] = s] /\ file' = [file EXCEPT ![i] = GetKeyfile(s)]
      /\ from' = [from EXCEPT ![i] = ns]
      /\ UNCHANGED <<def, chroot, sources, again>>
  BY <1>1 DEF BeginSession, s
<1>6. TypeOK'
  <2>1. s # NoObject
    BY <1>2, NotObjects
  <2>2. /\ (def \in Definitions)' /\ (chroot \in Objects \cup {NoObject, Refused})'
        /\ (sources \subseteq Objects)' /\ (again \in [Ids -> Objects \cup {NoObject, Refused}])'
    BY <1>5 DEF CloneInv, TypeOK
  <2>3. (from \in [Ids -> {"none", "chroot", "source"}])'
    BY <1>5 DEF CloneInv, TypeOK
  <2>4. (begun \in [Ids -> Objects \cup {NoObject}])'
    BY <1>2, <1>5 DEF CloneInv, TypeOK
  <2>5. (DOMAIN file = Ids)'
    BY <1>5 DEF CloneInv, TypeOK
  <2>6. ASSUME NEW j \in Ids
        PROVE  (IF begun[j] = NoObject THEN file[j] = NoFile ELSE IsGroup(file[j]))'
    <3>1. CASE j = i
      <4>1. begun'[i] = s /\ file'[i] = GetKeyfile(s)
        BY <1>5 DEF CloneInv, TypeOK
      <4> QED  BY <1>3, <2>1, <3>1, <4>1 DEF IsGroup
    <3>2. CASE j # i
      <4>1. begun'[j] = begun[j] /\ file'[j] = file[j]
        BY <1>5, <3>2 DEF CloneInv, TypeOK
      <4> QED  BY <4>1 DEF CloneInv, TypeOK, IsGroup
    <3> QED  BY <3>1, <3>2
  <2> QED  BY <2>2, <2>3, <2>4, <2>5, <2>6 DEF TypeOK
<1>7. \A j \in Ids : begun'[j] # NoObject =>
         /\ IsSession(begun'[j]) /\ "session-clonable" \notin begun'[j].facets
         /\ file'[j]["type"][1] # "plain"
  <2> SUFFICES ASSUME NEW j \in Ids, begun'[j] # NoObject
               PROVE  /\ IsSession(begun'[j]) /\ "session-clonable" \notin begun'[j].facets
                      /\ file'[j]["type"][1] # "plain"
    OBVIOUS
  <2>1. CASE j = i
    <3>1. begun'[i] = s /\ file'[i] = GetKeyfile(s)
      BY <1>5 DEF CloneInv, TypeOK
    <3> QED  BY <1>2, <1>3, <1>4, <2>1, <3>1 DEF IsSession
  <2>2. CASE j # i
    <3>1. begun'[j] = begun[j] /\ file'[j] = file[j]
      BY <1>5, <2>2 DEF CloneInv, TypeOK
    <3> QED  BY <3>1 DEF CloneInv, IsSession
  <2> QED  BY <2>1, <2>2
<1> QED  BY <1>5, <1>6, <1>7 DEF CloneInv, Object, IsSession, MayBegin

\* The object another process makes of a session file is a session with no
\* source chroot.
LEMMA ReloadPreserves ==
    ASSUME CloneInv, NEW i \in Ids, ReloadSession(i)
    PROVE  CloneInv'
<1> DEFINE s == LoadKeyfile("session", <<i>>, file[i])
<1>1. IsGroup(file[i]) /\ file[i]["type"][1] # "plain"
  <2>1. TypeOK /\ file[i] # NoFile
    BY DEF CloneInv, ReloadSession
  <2>2. begun[i] # NoObject /\ IsGroup(file[i])
    BY <2>1 DEF TypeOK
  <2> QED  BY <2>2 DEF CloneInv
<1>2. <<i>> \in Values
  BY StringAssumption DEF Values
<1>3. s # Refused => s \in Objects /\ IsSession(s) /\ "session-clonable" \notin s.facets
  BY <1>1, <1>2, LoadKeyfileType
<1>4. SourceChroots(s) = {}
  BY <1>3, SourceChrootsType, NotObjects DEF SourceChroots
<1>5. again' = [again EXCEPT ![i] = s] /\ UNCHANGED <<def, chroot, sources, from, begun, file>>
  BY <1>4 DEF ReloadSession
<1> HIDE DEF s
<1>6. TypeOK'
  <2>1. (again \in [Ids -> Objects \cup {NoObject, Refused}])'
    BY <1>3, <1>5 DEF CloneInv, TypeOK
  <2> QED  BY <1>5, <2>1 DEF CloneInv, TypeOK, IsGroup
<1>7. \A j \in Ids : again'[j] = IF j = i THEN s ELSE again[j]
  BY <1>5 DEF CloneInv, TypeOK
<1>8. \A j \in Ids : Object(again'[j]) =>
         IsSession(again'[j]) /\ "session-clonable" \notin again'[j].facets
  BY <1>3, <1>7, NotObjects DEF CloneInv
<1> QED  BY <1>5, <1>6, <1>8 DEF CloneInv, Object, IsSession, MayBegin

\* Loading the configuration.
LEMMA LoadPreserves ==
    ASSUME CloneInv, LoadConfig
    PROVE  CloneInv'
<1> DEFINE c == LoadKeyfile("chroot", ChrootName, def)
<1>1. IsGroup(def)
  BY DefinitionAssumption DEF CloneInv, TypeOK
<1>2. c # Refused => c \in Objects /\ ~IsSession(c) /\ MayBegin(c)
  BY <1>1, ConstantValues, LoadKeyfileType DEF MayBegin
<1>3. /\ SourceChroots(c) \subseteq Objects
      /\ \A s \in SourceChroots(c) : /\ ~IsSession(s) /\ ~s.original /\ MayBegin(s)
                                       /\ s.facets \cap {"union", "source-clonable"} = {}
  <2>1. CASE c = Refused
    BY <2>1, NotObjects DEF SourceChroots
  <2>2. CASE c # Refused
    BY <1>2, <2>2, SourceChrootsType DEF MayBegin
  <2> QED  BY <2>1, <2>2
<1>4. /\ chroot' = c /\ sources' = SourceChroots(c)
      /\ UNCHANGED <<def, from, begun, file, again>>
  BY DEF LoadConfig
<1> HIDE DEF c
<1>5. TypeOK'
  BY <1>2, <1>3, <1>4 DEF CloneInv, TypeOK, IsGroup
<1> QED  BY <1>2, <1>3, <1>4, <1>5, NotObjects DEF CloneInv, Object, IsSession, MayBegin

\* The session file is removed.
LEMMA EndPreserves ==
    ASSUME CloneInv, NEW i \in Ids, EndSession(i)
    PROVE  CloneInv'
<1>1. \A j \in Ids : /\ begun'[j] = IF j = i THEN NoObject ELSE begun[j]
                     /\ again'[j] = IF j = i THEN NoObject ELSE again[j]
                     /\ file'[j] = IF j = i THEN NoFile ELSE file[j]
  BY DEF EndSession, CloneInv, TypeOK
<1>2. UNCHANGED <<def, chroot, sources>>
  BY DEF EndSession
<1>3. TypeOK'
  <2>1. /\ (from \in [Ids -> {"none", "chroot", "source"}])'
        /\ (begun \in [Ids -> Objects \cup {NoObject}])'
        /\ (again \in [Ids -> Objects \cup {NoObject, Refused}])'
        /\ (DOMAIN file = Ids)'
    BY DEF EndSession, CloneInv, TypeOK
  <2> QED  BY <1>1, <1>2, <2>1 DEF CloneInv, TypeOK, IsGroup
<1> QED  BY <1>1, <1>2, <1>3, NotObjects DEF CloneInv, Object, IsSession, MayBegin

\* CloneInv holds in every state: for any definitions, sessions and users.
THEOREM CloneInvariance == Spec => []CloneInv
<1>1. Init => CloneInv
  BY NotObjects DEF Init, CloneInv, TypeOK
<1>2. CloneInv /\ [Next]_vars => CloneInv'
  <2> SUFFICES ASSUME CloneInv, [Next]_vars
               PROVE  CloneInv'
    OBVIOUS
  <2>1. TypeOK
    BY DEF CloneInv
  <2>2. CASE LoadConfig
    BY <2>2, LoadPreserves
  <2>3. ASSUME NEW i \in Ids, NEW u \in Users, Object(chroot),
               BeginSession("chroot", chroot, i, u)
        PROVE  CloneInv'
    <3>1. chroot \in Objects /\ MayBegin(chroot)
      BY <2>1, <2>3, NotObjects DEF CloneInv, TypeOK
    <3> QED  BY <2>3, <3>1, BeginPreserves
  <2>4. ASSUME NEW i \in Ids, NEW u \in Users, NEW o \in sources,
               BeginSession("source", o, i, u)
        PROVE  CloneInv'
    <3>1. o \in Objects /\ MayBegin(o)
      BY <2>1 DEF CloneInv, TypeOK
    <3> QED  BY <2>4, <3>1, BeginPreserves
  <2>5. ASSUME NEW i \in Ids, ReloadSession(i) PROVE CloneInv'
    BY <2>5, ReloadPreserves
  <2>6. ASSUME NEW i \in Ids, EndSession(i) PROVE CloneInv'
    BY <2>6, EndPreserves
  <2>7. CASE UNCHANGED vars
    BY <2>7 DEF vars, CloneInv, TypeOK, IsGroup, Object, IsSession, MayBegin
  <2> QED  BY <2>2, <2>3, <2>4, <2>5, <2>6, <2>7 DEF Next
<1> QED  BY <1>1, <1>2, PTL DEF Spec

\* Every chroot, session and source object is complete, and every session file is
\* a group that names its type, whatever the configuration defines.
THEOREM ObjectsTyped == Spec => []TypeOK
<1>1. CloneInv => TypeOK
  BY DEF CloneInv
<1> QED  BY <1>1, CloneInvariance, PTL

\* Cloning ends after one step, for chroots of every type and any session file
\* written for them: sessions have no sessions and no source chroots, and source
\* chroots no union and no source chroots.
THEOREM CloningEnds == Spec => []ClonesEnd
<1>1. CloneInv => ClonesEnd
  <2> SUFFICES ASSUME CloneInv PROVE ClonesEnd
    OBVIOUS
  <2>1. ASSUME NEW i \in Ids, NEW o \in SessionObjects(i)
        PROVE  IsSession(o) /\ "session-clonable" \notin o.facets
    <3>1. TypeOK
      BY DEF CloneInv
    <3>2. CASE o = begun[i]
      BY <3>2 DEF CloneInv, SessionObjects
    <3>3. CASE o = again[i]
      BY <3>1, <3>3, NotObjects DEF CloneInv, TypeOK, SessionObjects
    <3> QED  BY <3>2, <3>3 DEF SessionObjects
  <2>2. \A i \in Ids : \A o \in SessionObjects(i) :
           SessionFlags(o) \cap {"create", "clone"} = {}
    BY <2>1, CloningFlags
  <2> QED  BY <2>1, <2>2 DEF CloneInv, ClonesEnd
<1> QED  BY <1>1, CloneInvariance, PTL

-----------------------------------------------------------------------------
(***************************************************************************)
(* What the scripts and another process need of an object.                 *)
(***************************************************************************)
MountableTypes == {"loopback", "block-device", "lvm-snapshot", "zfs-snapshot"}
UnionTypes == {"directory", "loopback", "block-device"}
CopyingTypes == {"file", "lvm-snapshot", "btrfs-snapshot", "zfs-snapshot"}

\* The facets that are the type's own, and values that no setter refuses.
Placed(o) ==
    /\ "mountable" \in o.facets <=> o.type \in MountableTypes
    /\ "union" \in o.facets => o.type \in UnionTypes
    /\ o.val["location"] = <<>> \/ is_absname(o.val["location"])
    /\ o.type = "directory" => is_absname(o.val["directory"])
    /\ o.type \in {"file", "loopback"} => is_absname(o.val["file"])
    /\ o.type \in {"block-device", "lvm-snapshot"} => is_absname(o.val["device"])
    /\ "union" \in o.facets =>
         /\ o.val["union-type"]
              \in {<<"aufs">>, <<"overlay">>, <<"overlayfs">>, <<"unionfs">>, None}
         /\ is_absname(o.val["union-overlay-directory"])
         /\ is_absname(o.val["union-underlay-directory"])

\* A chroot or source chroot from which sessions are begun.
Sound(o) ==
    /\ Placed(o) /\ ~IsSession(o)
    /\ o.val["mount-location"] = <<>>
    /\ o.type = "btrfs-snapshot" => /\ is_absname(o.val["btrfs-source-subvolume"])
                                    /\ is_absname(o.val["btrfs-snapshot-directory"])

\* A session whose file another process can read.
Reloadable(s) ==
    /\ Placed(s) /\ IsSession(s) /\ s.type \in Types \ {"plain"}
    /\ s.facets \cap {"session-clonable", "source-clonable"} = {}
    /\ is_absname(s.val["mount-location"])
    /\ s.type = "lvm-snapshot" => is_absname(s.val["lvm-snapshot-device"])
    /\ s.type = "btrfs-snapshot" => is_absname(s.val["btrfs-snapshot-name"])

\* What the constructors give each type.
LEMMA InitialIs ==
    ASSUME NEW type \in Types
    PROVE  /\ "mountable" \in InitialFacets(type) <=> type \in MountableTypes
           /\ "union" \in InitialFacets(type) <=> type \in UnionTypes
           /\ "source-clonable" \in InitialFacets(type) <=> type \in CopyingTypes
           /\ "session-clonable" \in InitialFacets(type) <=> type # "plain"
           /\ "session" \notin InitialFacets(type) /\ "source" \notin InitialFacets(type)
BY DEF InitialFacets, Types, MountableTypes, UnionTypes, CopyingTypes, BaseFacets, PlainFacets,
       DirectoryFacets, FileFacets, LoopbackFacets, BlockDeviceBaseFacets, BlockDeviceFacets,
       LvmFacets, BtrfsFacets, ZfsFacets

\* The members that set_keyfile has no special rule for.
LEMMA SetValueIs ==
    ASSUME NEW o \in Objects, NEW kf, NEW k \in Fields
    PROVE  /\ k \in KeysRead(o, kf) \cap DOMAIN kf => SetValues(o, kf).val[k] = kf[k]
           /\ /\ k \notin KeysRead(o, kf) \cap DOMAIN kf
              /\ k \notin {"directory", "mount-device", "selected-name"}
              => SetValues(o, kf).val[k] = o.val[k]
           /\ /\ o.type = "directory" /\ "directory" \notin DOMAIN kf /\ "location" \in DOMAIN kf
              => SetValues(o, kf).val["directory"] = kf["location"]
           /\ /\ o.type \notin {"plain", "directory"}
              /\ "directory" \notin KeysRead(o, kf) \cap DOMAIN kf
              => SetValues(o, kf).val["directory"] = o.val["directory"]
<1> DEFINE given == KeysRead(o, kf) \cap DOMAIN kf
<1> DEFINE implied(j) ==
      CASE j = "directory" /\ o.type \in {"plain", "directory"} /\ "location" \in DOMAIN kf ->
             kf["location"]
        [] j = "mount-device" /\ o.type = "lvm-snapshot" /\ "lvm-snapshot-device" \in given ->
             kf["lvm-snapshot-device"]
        [] j = "mount-device" /\ o.type = "zfs-snapshot" /\ "zfs-clone-name" \in given ->
             IF "source" \in o.facets THEN o.val["zfs-dataset"] ELSE kf["zfs-clone-name"]
        [] j = "selected-name" /\ "original-name" \in given -> kf["original-name"]
        [] OTHER -> o.val[j]
<1> DEFINE v == [j \in Fields |-> IF j \in given THEN kf[j] ELSE implied(j)]
<1>1. SetValues(o, kf) = [o EXCEPT !.val = v]
  BY DEF SetValues
<1> HIDE DEF v
<1>2. SetValues(o, kf).val = v
  BY <1>1 DEF Objects
<1>3. "directory" \notin DOMAIN kf => "directory" \notin given
  OBVIOUS
<1> HIDE DEF given
<1>4. "directory" \in Fields
  BY FieldNames
<1>5. k \in given => v[k] = kf[k]
  BY DEF v
<1>6. k \notin given /\ k \notin {"directory", "mount-device", "selected-name"} => v[k] = o.val[k]
  BY DEF v
<1>7. /\ o.type = "directory" /\ "directory" \notin given /\ "location" \in DOMAIN kf
      => v["directory"] = kf["location"]
  BY <1>4 DEF v
<1>8. o.type \notin {"plain", "directory"} /\ "directory" \notin given
        => v["directory"] = o.val["directory"]
  BY <1>4 DEF v
<1> QED  BY <1>2, <1>3, <1>5, <1>6, <1>7, <1>8 DEF given

\* The keys that an object reads are those of the base class, of its type and of
\* its facets.
LEMMA KeysReadIs ==
    ASSUME NEW o, NEW kf, NEW k
    PROVE  k \in KeysRead(o, kf) <=>
             \/ k \in ChrootReads(IsSession(o)).required \cup ChrootReads(IsSession(o)).optional
             \/ k \in TypeReads(o, kf).required \cup TypeReads(o, kf).optional
             \/ \E f \in o.facets :
                  k \in FacetReads(o, f, kf).required \cup FacetReads(o, f, kf).optional
BY DEF KeysRead, AllReads

\* What was not refused.
LEMMA AcceptedIs ==
    ASSUME NEW o, NEW kf, ~Rejected(o, kf)
    PROVE  /\ ChrootReads(IsSession(o)).disallowed \cap DOMAIN kf = {}
           /\ TypeReads(o, kf).required \subseteq DOMAIN kf
           /\ ~TypeRefuses(o, kf)
           /\ \A f \in o.facets : ~FacetRefuses(kf, f)
BY DEF Rejected, AllReads

\* A path that was not refused is absolute.
LEMMA AbsoluteIs ==
    ASSUME NEW kf, NEW keys, ~Relative(kf, keys), NEW k \in keys \cap DOMAIN kf
    PROVE  is_absname(kf[k])
BY DEF Relative

\* SetFacets leaves everything but the facets for cloning alone.
LEMMA SetFacetsIs ==
    ASSUME NEW o \in Objects, NEW kf
    PROVE  LET p == SetFacets(o, kf) IN
           /\ p \in Objects /\ p.type = o.type /\ p.val = o.val
           /\ p.facets \ {"source-clonable", "session-clonable"}
                = o.facets \ {"source-clonable", "session-clonable"}
           /\ o.type \notin UnionTypes \cup {"custom"} /\ "union" \notin o.facets => p = o
<1> DEFINE p == SetFacets(o, kf)
<1>1. "source-clonable" \in Facets /\ o.facets \in SUBSET Facets
  BY DEF Facets, Objects
<1>2. CASE o.type = "custom"
  <2> DEFINE F == (o.facets \ ((IF Given(kf, "custom-session-cloneable", False)
                                 THEN {"session-clonable"} ELSE {})
                              \cup (IF Given(kf, "custom-source-cloneable", False)
                                      THEN {"source-clonable"} ELSE {})))
                  \cup (IF Given(kf, "custom-source-cloneable", True)
                          THEN {"source-clonable"} ELSE {})
  <2>1. p = [o EXCEPT !.facets = F]
    BY <1>2 DEF SetFacets
  <2>2. F \in SUBSET Facets /\ F \ {"source-clonable", "session-clonable"}
                                = o.facets \ {"source-clonable", "session-clonable"}
    BY <1>1
  <2> HIDE DEF F
  <2> QED  BY <1>2, <2>1, <2>2 DEF Objects
<1>3. CASE o.type # "custom"
  <2> DEFINE F == IF kf["union-type"] # None THEN o.facets \cup {"source-clonable"}
                  ELSE o.facets \ {"source-clonable"}
  <2>1. p = o \/ ("union" \in o.facets /\ p = [o EXCEPT !.facets = F])
    BY <1>3 DEF SetFacets
  <2>2. F \in SUBSET Facets /\ F \ {"source-clonable", "session-clonable"}
                                = o.facets \ {"source-clonable", "session-clonable"}
    BY <1>1
  <2> HIDE DEF F, p
  <2>3. CASE p = o
    BY <2>3 DEF p
  <2>4. CASE "union" \in o.facets /\ p = [o EXCEPT !.facets = F]
    BY <2>2, <2>4 DEF Objects, p
  <2> QED  BY <2>1, <2>3, <2>4
<1> QED  BY <1>2, <1>3

\* SetValues leaves everything but the members alone.
LEMMA SetValuesIs ==
    ASSUME NEW o \in Objects, NEW kf
    PROVE  /\ SetValues(o, kf).type = o.type /\ SetValues(o, kf).facets = o.facets
           /\ SetValues(o, kf).parentSource = o.parentSource
<1>1. \E v : SetValues(o, kf) = [o EXCEPT !.val = v]
  BY DEF SetValues
<1> QED  BY <1>1 DEF Objects

\* The members of an object that was just made.
LEMMA CreateIs ==
    ASSUME NEW type \in Types, NEW name
    PROVE  /\ Create(type, name).type = type
           /\ Create(type, name).facets = InitialFacets(type)
           /\ Create(type, name).val["location"] = <<>>
           /\ Create(type, name).val["mount-location"] = <<>>
           /\ Create(type, name).val["union-type"] = None
           /\ is_absname(Create(type, name).val["union-overlay-directory"])
           /\ is_absname(Create(type, name).val["union-underlay-directory"])
           /\ \A k \in {"directory", "file", "device", "btrfs-source-subvolume", "zfs-dataset"} :
                 Create(type, name).val[k] = <<>>
           /\ Create(type, name).val["file-repack"] = False
<1>1. {"location", "mount-location", "union-type", "union-overlay-directory",
       "union-underlay-directory", "directory", "file", "device", "btrfs-source-subvolume",
       "zfs-dataset", "file-repack"} \subseteq Fields
  BY DEF Fields
<1>2. <<"/", "overlay">>[1] = "/" /\ <<"/", "underlay">>[1] = "/"
      /\ <<"/", "overlay">> # <<>> /\ <<"/", "underlay">> # <<>>
  OBVIOUS
<1> QED  BY <1>1, <1>2 DEF Create, is_absname

\* What was read of a definition that was not refused is sound, and no source
\* chroot.
LEMMA ChrootIsSound ==
    ASSUME NEW kf, IsGroup(kf), LoadKeyfile("chroot", ChrootName, kf) # Refused
    PROVE  /\ Sound(LoadKeyfile("chroot", ChrootName, kf))
           /\ "source" \notin LoadKeyfile("chroot", ChrootName, kf).facets
<1> DEFINE T == kf["type"][1]
           t == Create(T, ChrootName)
           p == SetFacets(t, kf)
           c == SetValues(p, kf)
           V(k) == c.val[k]
<1>1. T \in Types
  BY DEF IsGroup
<1>2. /\ t \in Objects /\ t.type = T /\ t.facets = InitialFacets(T)
      /\ t.val["location"] = <<>> /\ t.val["mount-location"] = <<>>
      /\ t.val["union-type"] = None
      /\ is_absname(t.val["union-overlay-directory"])
      /\ is_absname(t.val["union-underlay-directory"])
  BY <1>1, CreateIs, CreateType, ConstantValues
<1>3. LoadKeyfile("chroot", ChrootName, kf) = SetKeyfile(t, kf)
  BY DEF LoadKeyfile, Template
<1>4. ~Rejected(t, kf) /\ LoadKeyfile("chroot", ChrootName, kf) = c
  BY <1>3 DEF SetKeyfile
<1> HIDE DEF t, T
<1>5. ~IsSession(t)
  BY <1>1, <1>2, InitialIs DEF IsSession
<1>6. /\ p \in Objects /\ p.type = T /\ p.val = t.val /\ ~IsSession(p)
      /\ \A f \in {"mountable", "union", "session", "source"} : f \in p.facets <=> f \in t.facets
  BY <1>2, <1>5, SetFacetsIs DEF IsSession
<1> HIDE DEF p
<1>7. c.type = T /\ c.facets = p.facets
  BY <1>6, SetValuesIs
<1>8. \A k \in Fields : /\ k \in KeysRead(p, kf) \cap DOMAIN kf => V(k) = kf[k]
                        /\ /\ k \notin KeysRead(p, kf) \cap DOMAIN kf
                           /\ k \notin {"directory", "mount-device", "selected-name"}
                           => V(k) = t.val[k]
  BY <1>6, SetValueIs
<1>9. T = "directory" /\ "directory" \notin DOMAIN kf /\ "location" \in DOMAIN kf
        => V("directory") = kf["location"]
  BY <1>6, SetValueIs, FieldNames
<1>10. /\ ChrootReads(IsSession(t)) = ChrootReads(FALSE)
       /\ ChrootReads(IsSession(p)) = ChrootReads(FALSE)
  BY <1>5, <1>6 DEF ChrootReads
<1>11. /\ ChrootReads(FALSE).disallowed \cap DOMAIN kf = {}
       /\ TypeReads(t, kf).required \subseteq DOMAIN kf
       /\ ~TypeRefuses(t, kf)
       /\ \A f \in t.facets : ~FacetRefuses(kf, f)
  BY <1>4, <1>10, AcceptedIs
<1>12. TypeReads(p, kf) = TypeReads(t, kf)
  BY <1>2, <1>5, <1>6 DEF TypeReads
<1>13. \A k : k \in TypeReads(t, kf).required \cup TypeReads(t, kf).optional => k \in KeysRead(p, kf)
  BY <1>12, KeysReadIs
<1> HIDE DEF c, V
<1>14. V("mount-location") = <<>>
  <2>1. "mount-location" \notin DOMAIN kf
    BY <1>11 DEF ChrootReads, Reads
  <2> QED  BY <1>2, <1>8, <2>1, FieldNames
<1>15. T = "directory" => is_absname(V("directory"))
  <2>1. SUFFICES ASSUME T = "directory" PROVE is_absname(V("directory"))
    OBVIOUS
  <2>2. /\ "directory" \in DOMAIN kf \/ "location" \in DOMAIN kf
        /\ "directory" \in TypeReads(t, kf).optional
    BY <1>2, <1>11, <2>1 DEF TypeReads, DirectoryReads, Reads
  <2>3. \A k \in {"directory", "location"} \cap DOMAIN kf : is_absname(kf[k])
    BY <1>2, <1>11, <2>1, AbsoluteIs DEF TypeRefuses, DirectoryRefuses
  <2> QED  BY <1>8, <1>9, <1>13, <2>1, <2>2, <2>3, FieldNames
<1>16. T \in {"file", "loopback"} => is_absname(V("file"))
  <2>1. SUFFICES ASSUME T \in {"file", "loopback"} PROVE is_absname(V("file"))
    OBVIOUS
  <2>2. "file" \in TypeReads(t, kf).required
    BY <1>2, <2>1 DEF TypeReads, FileReads, LoopbackReads, Reads
  <2>3. ~Relative(kf, {"file"})
    BY <1>2, <1>11, <2>1 DEF TypeRefuses, FileRefuses, LoopbackRefuses
  <2> QED  BY <1>8, <1>11, <1>13, <2>2, <2>3, AbsoluteIs, FieldNames
<1>17. T \in {"block-device", "lvm-snapshot"} => is_absname(V("device"))
  <2>1. SUFFICES ASSUME T \in {"block-device", "lvm-snapshot"} PROVE is_absname(V("device"))
    OBVIOUS
  <2>2. "device" \in TypeReads(t, kf).required
    BY <1>2, <1>5, <2>1 DEF TypeReads, BlockDeviceReads, LvmReads, Reads
  <2>3. ~Relative(kf, {"device"})
    BY <1>2, <1>11, <2>1 DEF TypeRefuses, BlockDeviceRefuses, LvmRefuses
  <2> QED  BY <1>8, <1>11, <1>13, <2>2, <2>3, AbsoluteIs, FieldNames
<1>18. T = "btrfs-snapshot" => \A k \in {"btrfs-source-subvolume", "btrfs-snapshot-directory"} :
                                   is_absname(V(k))
  <2>1. SUFFICES ASSUME T = "btrfs-snapshot",
                        NEW k \in {"btrfs-source-subvolume", "btrfs-snapshot-directory"}
                 PROVE is_absname(V(k))
    OBVIOUS
  <2>2. k \in TypeReads(t, kf).required
    BY <1>2, <1>5, <2>1 DEF TypeReads, BtrfsReads, Reads
  <2>3. is_absname(kf[k])
    BY <1>2, <1>11, <2>1, <2>2, AbsoluteIs DEF TypeRefuses, BtrfsRefuses
  <2> QED  BY <1>8, <1>11, <1>13, <2>2, <2>3, FieldNames
<1>19. V("location") = <<>> \/ is_absname(V("location"))
  <2>1. CASE "location" \in KeysRead(p, kf) \cap DOMAIN kf
    <3>1. T = "file" \/ "mountable" \in t.facets
      <4>1. "location" \notin ChrootReads(FALSE).required \cup ChrootReads(FALSE).optional
        BY DEF ChrootReads, Reads, Lists
      <4>2. "location" \in TypeReads(t, kf).required \cup TypeReads(t, kf).optional => T = "file"
        BY <1>1, <1>2, <1>5 DEF TypeReads, DirectoryReads, FileReads, LoopbackReads,
             BlockDeviceReads, LvmReads, BtrfsReads, ZfsReads, CustomReads, Reads, Types
      <4>3. \A f \in p.facets :
              "location" \in FacetReads(p, f, kf).required \cup FacetReads(p, f, kf).optional
                => f = "mountable"
        BY DEF FacetReads, UnionReads, SourceClonableReads, SessionReads, Reads,
               SourceLists, SourceList, Lists
      <4> QED  BY <1>6, <1>12, <1>10, <2>1, <4>1, <4>2, <4>3, KeysReadIs
    <3>2. Relative(kf, {"location"}) => kf["location"] = <<>>
      BY <1>2, <1>11, <3>1 DEF TypeRefuses, FileRefuses, FacetRefuses, MountableRefuses
    <3>3. kf["location"] = <<>> \/ is_absname(kf["location"])
      BY <2>1, <3>2, AbsoluteIs
    <3> QED  BY <1>8, <2>1, <3>3, FieldNames
  <2>2. CASE "location" \notin KeysRead(p, kf) \cap DOMAIN kf
    BY <1>2, <1>8, <2>2, FieldNames
  <2> QED  BY <2>1, <2>2
<1>20. ASSUME "union" \in p.facets
       PROVE  /\ V("union-type")
                   \in {<<"aufs">>, <<"overlay">>, <<"overlayfs">>, <<"unionfs">>, None}
              /\ is_absname(V("union-overlay-directory"))
              /\ is_absname(V("union-underlay-directory"))
  <2>1. ~UnionRefuses(kf)
    BY <1>6, <1>11, <1>20 DEF FacetRefuses
  <2>2. {"union-overlay-directory", "union-underlay-directory", "union-type"} \subseteq Fields
    BY DEF Fields
  <2>3. /\ "union-type" \in DOMAIN kf => kf["union-type"]
              \in {<<"aufs">>, <<"overlay">>, <<"overlayfs">>, <<"unionfs">>, None}
        /\ \A k \in {"union-overlay-directory", "union-underlay-directory"} \cap DOMAIN kf :
              is_absname(kf[k])
    BY <2>1, AbsoluteIs DEF UnionRefuses, UnionTypeRefused
  <2>4. \A k \in {"union-overlay-directory", "union-underlay-directory"} :
           V(k) = t.val[k] \/ (k \in DOMAIN kf /\ V(k) = kf[k])
    BY <1>8, <2>2
  <2>5. V("union-type") = t.val["union-type"]
        \/ ("union-type" \in DOMAIN kf /\ V("union-type") = kf["union-type"])
    BY <1>8, <2>2
  <2> QED  BY <1>2, <2>3, <2>4, <2>5
<1>21. /\ "mountable" \in p.facets <=> T \in MountableTypes
       /\ "union" \in p.facets <=> T \in UnionTypes
       /\ "source" \notin p.facets
  BY <1>1, <1>2, <1>6, InitialIs
<1> QED  BY <1>4, <1>6, <1>7, <1>14, <1>15, <1>16, <1>17, <1>18, <1>19, <1>20, <1>21
         DEF Sound, Placed, IsSession, V

\* What becomes of an absolute path is one.
LEMMA AbsolutePaths ==
    ASSUME NEW p \in Values, is_absname(p), NEW a \in Strings
    PROVE  is_absname(Append(p, a)) /\ is_absname(Dirname(p)) /\ Dirname(p) \in Values
<1>1. p \in Seq(Strings) /\ p # <<>> /\ p[1] = "/"
  BY DEF is_absname, Values
<1>2. Len(p) \in Nat /\ Len(p) >= 1
  BY <1>1
<1>3. is_absname(Append(p, a))
  BY <1>1, <1>2 DEF is_absname
<1>4. Len(p) > 1 => /\ SubSeq(p, 1, Len(p) - 1) # <<>>
                    /\ SubSeq(p, 1, Len(p) - 1)[1] = p[1]
                    /\ SubSeq(p, 1, Len(p) - 1) \in Seq(Strings)
  <2> SUFFICES ASSUME Len(p) > 1
               PROVE  /\ SubSeq(p, 1, Len(p) - 1) # <<>>
                      /\ SubSeq(p, 1, Len(p) - 1)[1] = p[1]
                      /\ SubSeq(p, 1, Len(p) - 1) \in Seq(Strings)
    OBVIOUS
  <2> DEFINE n == Len(p) - 1
             q == SubSeq(p, 1, n)
  <2>1. n \in Nat /\ n >= 1 /\ n <= Len(p)
    BY <1>2
  <2> HIDE DEF n
  <2>2. q \in Seq(Strings) /\ Len(q) = n /\ q[1] = p[1]
    BY <1>1, <1>2, <2>1
  <2> HIDE DEF q
  <2>3. q # <<>>
    BY <2>1, <2>2
  <2> QED  BY <2>2, <2>3 DEF n, q
<1> QED  BY <1>1, <1>3, <1>4 DEF is_absname, Dirname, Values

\* The members of a source chroot.
LEMMA CloneSourceIs ==
    ASSUME NEW o \in Objects
    PROVE  /\ CloneSource(o).type = SourceType(o.type)
           /\ CloneSource(o).facets = (o.facets \ {"union", "source-clonable"}) \cup {"source"}
           /\ \A k \in Fields \ (Lists \cup {"directory", "file-repack", "custom-session-purgeable"}) :
                CloneSource(o).val[k] = o.val[k]
           /\ CloneSource(o).val["directory"] = SourceDirectory(o)
           /\ CloneSource(o).val["file-repack"] = SourceRepack(o)
<1> DEFINE v == [k \in Fields |->
                   CASE k \in Lists -> o.val[SourceList(k)]
                     [] k = "directory" -> SourceDirectory(o)
                     [] k = "file-repack" -> SourceRepack(o)
                     [] OTHER -> Copy(o).val[k]]
<1>1. CloneSource(o) = [Copy(o) EXCEPT
                          !.type = SourceType(o.type),
                          !.facets = (@ \ {"union", "source-clonable"}) \cup {"source"},
                          !.original = FALSE, !.val = v]
  BY DEF CloneSource
<1>2. \A k \in Fields \ {"custom-session-purgeable"} : Copy(o).val[k] = o.val[k]
  BY DEF Copy, Objects
<1>3. /\ "directory" \in Fields /\ "directory" \notin Lists
      /\ "file-repack" \in Fields /\ "file-repack" \notin Lists
  BY FieldNames DEF Lists
<1>4. v["directory"] = SourceDirectory(o) /\ v["file-repack"] = SourceRepack(o)
  BY <1>3
<1>5. \A k \in Fields \ (Lists \cup {"directory", "file-repack", "custom-session-purgeable"}) :
        v[k] = o.val[k]
  BY <1>2
<1> HIDE DEF v
<1> QED  BY <1>1, <1>4, <1>5, CopyType DEF Objects

\* The source chroot of a sound chroot is sound.
LEMMA SourceIsSound ==
    ASSUME NEW o \in Objects, Sound(o)
    PROVE  Sound(CloneSource(o))
<1> DEFINE s == CloneSource(o)
<1>1. /\ s.type = SourceType(o.type)
      /\ s.facets = (o.facets \ {"union", "source-clonable"}) \cup {"source"}
      /\ s.val["directory"] = SourceDirectory(o)
      /\ \A k \in {"location", "mount-location", "file", "device"} : s.val[k] = o.val[k]
  BY CloneSourceIs, FieldNames DEF Lists
<1> HIDE DEF s
<1>2. /\ "union" \notin s.facets
      /\ "mountable" \in s.facets <=> "mountable" \in o.facets
      /\ "session" \in s.facets <=> "session" \in o.facets
  BY <1>1
<1>3. /\ s.type # "btrfs-snapshot"
      /\ s.type \in MountableTypes <=> o.type \in MountableTypes
      /\ s.type = "directory" => o.type \in {"directory", "btrfs-snapshot"}
      /\ s.type \in {"file", "loopback"} => s.type = o.type
      /\ s.type \in {"block-device", "lvm-snapshot"} => o.type \in {"block-device", "lvm-snapshot"}
  BY <1>1 DEF SourceType, MountableTypes, Objects, Types
<1>4. s.type = "directory" => is_absname(s.val["directory"])
  BY <1>1, <1>3 DEF SourceDirectory, Sound, Placed
<1> QED  BY <1>1, <1>2, <1>3, <1>4 DEF Sound, Placed, IsSession, s

\* The members of a new session.
LEMMA CloneSessionIs ==
    ASSUME NEW o \in Objects, NEW id, NEW alias, NEW user, NEW root
    PROVE  LET s == CloneSession(o, id, alias, user, root) IN
           /\ s.parentSource = ("source" \in o.facets)
           /\ \A k \in Fields : s.val[k] = SessionValue(Copy(o), id, alias, user, root, k)
           /\ \A k \in {"directory", "file", "location", "file-repack", "device", "union-type",
                        "zfs-dataset"} : s.val[k] = o.val[k]
           /\ s.val["name"] = <<id>>
           /\ "mountable" \in o.facets => s.val["mount-device"] = MountDevice(o, id)
           /\ o.type = "zfs-snapshot" /\ o.val["zfs-dataset"] # <<>> =>
                s.val["zfs-clone-name"] = CloneName(o, id)
           /\ o.val["mount-location"] = <<>> /\ o.type # "plain" =>
                s.val["mount-location"] = <<"/", "mount", id>>
           /\ o.type = "lvm-snapshot" /\ o.val["device"] # <<>> =>
                s.val["lvm-snapshot-device"] = SnapshotDevice(o, id)
           /\ o.type = "btrfs-snapshot" /\ o.val["btrfs-snapshot-directory"] # <<>> =>
                s.val["btrfs-snapshot-name"] = Append(o.val["btrfs-snapshot-directory"], id)
           /\ "union" \in o.facets =>
                \A k \in {"union-overlay-directory", "union-underlay-directory"} :
                   s.val[k] = Append(o.val[k], id)
<1> DEFINE c == Copy(o)
           s == CloneSession(o, id, alias, user, root)
           v == [k \in Fields |-> SessionValue(c, id, alias, user, root, k)]
<1>1. c \in Objects /\ c.type = o.type /\ c.facets = o.facets
  BY CopyType
<1>2. \A k \in Fields \ {"custom-session-purgeable"} : c.val[k] = o.val[k]
  BY DEF Copy, Objects
<1>3. s = [c EXCEPT !.facets = (@ \ {"session-clonable", "source-clonable"}) \cup {"session"},
                    !.parentSource = "source" \in o.facets, !.val = v]
  BY DEF CloneSession
<1> HIDE DEF c, v, s
<1>4. s.parentSource = ("source" \in o.facets) /\ s.val = v
  BY <1>1, <1>3 DEF Objects
<1>5. \A k \in Fields : s.val[k] = SessionValue(c, id, alias, user, root, k)
  BY <1>4 DEF v
<1>6. {"directory", "file", "location", "file-repack", "device", "union-type", "zfs-dataset",
       "name", "mount-device", "zfs-clone-name", "mount-location", "lvm-snapshot-device", "btrfs-snapshot-name",
       "btrfs-snapshot-directory", "union-overlay-directory", "union-underlay-directory"}
        \subseteq Fields
  BY DEF Fields
<1>7. \A k \in {"directory", "file", "location", "file-repack", "device", "union-type",
                "zfs-dataset"} : s.val[k] = o.val[k]
  BY <1>2, <1>5, <1>6 DEF SessionValue
<1>8. o.val["mount-location"] = <<>> /\ o.type # "plain" =>
        s.val["mount-location"] = <<"/", "mount", id>>
  BY <1>1, <1>2, <1>5, <1>6 DEF SessionValue
<1>9. o.type = "lvm-snapshot" /\ o.val["device"] # <<>> =>
        s.val["lvm-snapshot-device"] = SnapshotDevice(o, id)
  <2>1. SnapshotDevice(c, id) = SnapshotDevice(o, id)
    BY <1>2, <1>6 DEF SnapshotDevice
  <2>2. c.type = "lvm-snapshot" /\ c.val["device"] # <<>> =>
          SessionValue(c, id, alias, user, root, "lvm-snapshot-device") = SnapshotDevice(c, id)
    BY DEF SessionValue
  <2> QED  BY <1>1, <1>2, <1>5, <1>6, <2>1, <2>2
<1>10. o.type = "btrfs-snapshot" /\ o.val["btrfs-snapshot-directory"] # <<>> =>
        s.val["btrfs-snapshot-name"] = Append(o.val["btrfs-snapshot-directory"], id)
  <2>1. c.type = "btrfs-snapshot" /\ c.val["btrfs-snapshot-directory"] # <<>> =>
          SessionValue(c, id, alias, user, root, "btrfs-snapshot-name")
            = Append(c.val["btrfs-snapshot-directory"], id)
    BY DEF SessionValue
  <2> QED  BY <1>1, <1>2, <1>5, <1>6, <2>1
<1>11. "union" \in o.facets =>
        \A k \in {"union-overlay-directory", "union-underlay-directory"} :
           s.val[k] = Append(o.val[k], id)
  BY <1>1, <1>2, <1>5, <1>6 DEF SessionValue, UnionDirectory
<1>12. s.val["name"] = <<id>>
  BY <1>5, <1>6 DEF SessionValue
<1>13. "mountable" \in o.facets => s.val["mount-device"] = MountDevice(o, id)
  <2>1. SnapshotDevice(c, id) = SnapshotDevice(o, id) /\ CloneName(c, id) = CloneName(o, id)
    BY <1>2, <1>6 DEF SnapshotDevice, CloneName
  <2>2. MountDevice(c, id) = MountDevice(o, id)
    BY <1>1, <1>2, <1>6, <2>1 DEF MountDevice
  <2>3. "mountable" \in c.facets =>
          SessionValue(c, id, alias, user, root, "mount-device") = MountDevice(c, id)
    BY DEF SessionValue
  <2> QED  BY <1>1, <1>5, <1>6, <2>2, <2>3
<1>14. o.type = "zfs-snapshot" /\ o.val["zfs-dataset"] # <<>> =>
         s.val["zfs-clone-name"] = CloneName(o, id)
  <2>1. CloneName(c, id) = CloneName(o, id)
    BY <1>2, <1>6 DEF CloneName
  <2>2. c.type = "zfs-snapshot" /\ c.val["zfs-dataset"] # <<>> =>
          SessionValue(c, id, alias, user, root, "zfs-clone-name") = CloneName(c, id)
    BY DEF SessionValue
  <2> QED  BY <1>1, <1>2, <1>5, <1>6, <2>1, <2>2
<1> QED  BY <1>4, <1>5, <1>7, <1>8, <1>9, <1>10, <1>11, <1>12, <1>13, <1>14 DEF c, s

\* The file of a session begun from a sound chroot can be read.
LEMMA SessionIsReloadable ==
    ASSUME NEW o \in Objects, Sound(o), o.type # "plain", NEW id \in Strings,
           NEW alias \in Values, NEW user \in Values, NEW root
    PROVE  Reloadable(CloneSession(o, id, alias, user, root))
<1> DEFINE s == CloneSession(o, id, alias, user, root)
<1>1. /\ s \in Objects /\ s.type = o.type
      /\ s.facets = (o.facets \ {"session-clonable", "source-clonable"}) \cup {"session"}
  BY CloneSessionType
<1>2. /\ \A k \in {"directory", "file", "location", "device", "union-type"} : s.val[k] = o.val[k]
      /\ s.val["mount-location"] = <<"/", "mount", id>>
      /\ o.type = "lvm-snapshot" /\ o.val["device"] # <<>> =>
           s.val["lvm-snapshot-device"] = Append(Dirname(o.val["device"]), id)
      /\ o.type = "btrfs-snapshot" /\ o.val["btrfs-snapshot-directory"] # <<>> =>
           s.val["btrfs-snapshot-name"] = Append(o.val["btrfs-snapshot-directory"], id)
      /\ "union" \in o.facets =>
           \A k \in {"union-overlay-directory", "union-underlay-directory"} :
              s.val[k] = Append(o.val[k], id)
  BY CloneSessionIs DEF Sound, SnapshotDevice
<1> HIDE DEF s
<1>3. {"device", "btrfs-snapshot-directory", "union-overlay-directory",
       "union-underlay-directory"} \subseteq Fields
  BY DEF Fields
<1>4. /\ o.val["device"] \in Values /\ o.val["btrfs-snapshot-directory"] \in Values
      /\ o.val["union-overlay-directory"] \in Values /\ o.val["union-underlay-directory"] \in Values
  BY <1>3 DEF Objects, Values
<1>5. \A p \in Values : is_absname(p) => /\ p # <<>> /\ is_absname(Append(p, id))
                                         /\ is_absname(Dirname(p)) /\ Dirname(p) \in Values
  BY AbsolutePaths DEF is_absname
<1>6. is_absname(s.val["mount-location"])
  <2>1. <<"/", "mount", id>> # <<>> /\ <<"/", "mount", id>>[1] = "/"
    OBVIOUS
  <2> QED  BY <1>2, <2>1 DEF is_absname
<1>7. s.type = "lvm-snapshot" => is_absname(s.val["lvm-snapshot-device"])
  BY <1>1, <1>2, <1>4, <1>5 DEF Sound, Placed
<1>8. s.type = "btrfs-snapshot" => is_absname(s.val["btrfs-snapshot-name"])
  BY <1>1, <1>2, <1>4, <1>5 DEF Sound
<1>9. "union" \in s.facets => /\ is_absname(s.val["union-overlay-directory"])
                              /\ is_absname(s.val["union-underlay-directory"])
  BY <1>1, <1>2, <1>4, <1>5 DEF Sound, Placed
<1>10. /\ "mountable" \in s.facets <=> "mountable" \in o.facets
       /\ "union" \in s.facets <=> "union" \in o.facets
       /\ IsSession(s) /\ s.facets \cap {"session-clonable", "source-clonable"} = {}
  BY <1>1 DEF IsSession
<1>11. Placed(s)
  BY <1>1, <1>2, <1>9, <1>10 DEF Sound, Placed
<1> QED  BY <1>1, <1>6, <1>7, <1>8, <1>10, <1>11 DEF Reloadable, Objects, s

\* What is in the file of a session.
LEMMA WrittenIs ==
    ASSUME NEW s \in Objects, Reloadable(s)
    PROVE  /\ DOMAIN GetKeyfile(s) = KeysWritten(s)
           /\ \A k \in KeysWritten(s) \cap Fields : GetKeyfile(s)[k] = s.val[k]
           /\ \A k : k \in KeysWritten(s) <=>
                \/ k \in ChrootKeys(TRUE)
                \/ k \in TypeKeys(s)
                \/ "mountable" \in s.facets /\ k \in MountableKeys(TRUE)
                \/ "union" \in s.facets /\ k \in UnionKeys(s.val["union-type"] # None)
                \/ k \in SessionKeys
<1>1. "type" \notin Fields /\ "zfs-dataset-name" \notin Fields
  BY DEF Fields, Lists, SourceLists, SourceList
<1>2. /\ DOMAIN GetKeyfile(s) = KeysWritten(s)
      /\ \A k \in KeysWritten(s) \cap Fields : GetKeyfile(s)[k] = s.val[k]
  BY <1>1 DEF GetKeyfile
<1>3. IsSession(s) = TRUE
  BY DEF Reloadable, IsSession
<1>4. /\ ChrootKeys(IsSession(s)) = ChrootKeys(TRUE)
      /\ MountableKeys(IsSession(s)) = MountableKeys(TRUE)
  BY <1>3 DEF ChrootKeys, MountableKeys
<1>5. "union" \in s.facets => UnionKeys(UnionConfigured(s)) = UnionKeys(s.val["union-type"] # None)
  BY DEF UnionKeys, UnionConfigured
<1>6. \A f \in s.facets : FacetKeys(s, f) =
        IF f = "mountable" THEN MountableKeys(TRUE)
        ELSE IF f = "union" THEN UnionKeys(s.val["union-type"] # None)
        ELSE IF f = "session" THEN SessionKeys ELSE {}
  <2>1. "source-clonable" \notin s.facets
    BY DEF Reloadable
  <2> QED  BY <1>4, <1>5, <2>1 DEF FacetKeys
<1>7. "session" \in s.facets
  BY <1>3 DEF IsSession
<1>8. ASSUME NEW k
      PROVE  (\E f \in s.facets : k \in FacetKeys(s, f)) <=>
               \/ "mountable" \in s.facets /\ k \in MountableKeys(TRUE)
               \/ "union" \in s.facets /\ k \in UnionKeys(s.val["union-type"] # None)
               \/ k \in SessionKeys
  BY <1>6, <1>7
<1>9. \A k : k \in KeysWritten(s) <=> \/ k \in ChrootKeys(TRUE) \/ k \in TypeKeys(s)
                                      \/ \E f \in s.facets : k \in FacetKeys(s, f)
  BY <1>4 DEF KeysWritten
<1> QED  BY <1>2, <1>8, <1>9

\* The session that load_keyfile makes before it reads the file.
LEMMA TemplateIs ==
    ASSUME NEW kf, kf["type"][1] \in Types \ {"plain"}, NEW name \in Values
    PROVE  LET t == Template("session", name, kf) IN
           /\ t \in Objects /\ t.type = kf["type"][1]
           /\ t.facets = (InitialFacets(kf["type"][1]) \ {"session-clonable", "source-clonable"})
                           \cup {"session"}
           /\ t.val["union-type"] = None
<1> DEFINE type == kf["type"][1]
           new == Create(type, name)
           dummy == <<"dummy-session-name">>
           c == CloneSession(new, "dummy-session-name", dummy, <<>>, FALSE)
           t == Template("session", name, kf)
<1>1. /\ new \in Objects /\ new.type = type /\ new.facets = InitialFacets(type)
      /\ new.val["union-type"] = None /\ "session-clonable" \in new.facets
  BY CreateType, CreateIs, InitialIs
<1>2. t = [c EXCEPT !.val["name"] = name]
  BY <1>1 DEF Template
<1>3. dummy \in Values /\ <<>> \in Values /\ "dummy-session-name" \in Strings
  BY ConstantValues, StringAssumption
<1> HIDE DEF new, t, dummy
<1>4. \A root : LET s == CloneSession(new, "dummy-session-name", dummy, <<>>, root) IN
          /\ s \in Objects /\ s.type = new.type
          /\ s.facets = (new.facets \ {"session-clonable", "source-clonable"}) \cup {"session"}
          /\ s.val["union-type"] = new.val["union-type"]
  BY <1>1, <1>3, CloneSessionType, CloneSessionIs
<1>5. /\ c \in Objects /\ c.type = new.type
      /\ c.facets = (new.facets \ {"session-clonable", "source-clonable"}) \cup {"session"}
      /\ c.val["union-type"] = new.val["union-type"]
  BY <1>4, Zenon
<1> HIDE DEF c
<1>6. "name" \in Fields /\ "union-type" \in Fields
  BY FieldNames
<1> DEFINE v == [c.val EXCEPT !["name"] = name]
<1>7. v \in [Fields -> Seq(Strings)] /\ v["union-type"] = c.val["union-type"]
      /\ t = [c EXCEPT !.val = v]
  BY <1>2, <1>5, <1>6 DEF Objects, Values
<1> HIDE DEF v
<1> QED  BY <1>1, <1>5, <1>7 DEF Objects, t

\* The keys of another type or of another kind of object are not in the file.
LEMMA NotWritten ==
    ASSUME NEW s \in Objects, Reloadable(s)
    PROVE  /\ s.type = "directory" => "location" \notin KeysWritten(s)
           /\ {"btrfs-source-subvolume", "btrfs-snapshot-directory", "zfs-dataset",
               "zfs-snapshot-options", "custom-session-cloneable", "custom-source-cloneable"}
                \cap KeysWritten(s) = {}
           /\ "union-type" \in KeysWritten(s) => "union" \in s.facets
<1>1. IsSession(s) = TRUE /\ s.type \in Types
  BY DEF Reloadable, IsSession, Types
<1> DEFINE foreign == {"btrfs-source-subvolume", "btrfs-snapshot-directory", "zfs-dataset",
                       "zfs-snapshot-options", "custom-session-cloneable",
                       "custom-source-cloneable"}
<1>2. /\ foreign \cap TypeKeys(s) = {} /\ "union-type" \notin TypeKeys(s)
      /\ s.type = "directory" => "location" \notin TypeKeys(s)
  BY <1>1 DEF TypeKeys, DirectoryKeys, FileKeys, LoopbackKeys, BlockDeviceKeys, LvmKeys,
              BtrfsKeys, ZfsKeys, CustomKeys, Types
<1>3. /\ (foreign \cup {"location", "union-type"}) \cap (ChrootKeys(TRUE) \cup SessionKeys) = {}
      /\ (foreign \cup {"union-type"}) \cap MountableKeys(TRUE) = {}
  BY DEF ChrootKeys, SessionKeys, MountableKeys, Lists
<1>4. ASSUME NEW b \in BOOLEAN
      PROVE  (foreign \cup {"location"}) \cap UnionKeys(b) = {}
  BY DEF UnionKeys
<1>5. s.type = "directory" => "mountable" \notin s.facets
  BY DEF Reloadable, Placed, MountableTypes
<1>6. (s.val["union-type"] # None) \in BOOLEAN
  OBVIOUS
<1> QED  BY <1>2, <1>3, <1>4, <1>5, <1>6, WrittenIs

\* What a session of a type needs of its file, and what is written, are the
\* same keys.
LEMMA TypeReadsBack ==
    ASSUME NEW s \in Objects, Reloadable(s), NEW o, o.type = s.type, IsSession(o)
    PROVE  /\ TypeKeys(s) \cap Fields
                \subseteq TypeReads(o, GetKeyfile(s)).required \cup TypeReads(o, GetKeyfile(s)).optional
           /\ TypeReads(o, GetKeyfile(s)).required \subseteq KeysWritten(s)
           /\ TypeReads(o, GetKeyfile(s)).disallowed \cap KeysWritten(s) = {}
<1> DEFINE kf == GetKeyfile(s)
<1>1. IsSession(s) /\ s.type \in Types \ {"plain"}
  BY DEF Reloadable
<1>2. TypeKeys(s) \subseteq KeysWritten(s) /\ DOMAIN kf = KeysWritten(s)
  BY WrittenIs
<1> HIDE DEF kf
<1>3. CASE s.type = "directory"
  <2>1. "directory" \in KeysWritten(s) /\ "location" \notin KeysWritten(s)
    BY <1>2, <1>3, NotWritten DEF TypeKeys, DirectoryKeys
  <2>2. {"directory", "location"} \cap DOMAIN kf = {"directory"}
    BY <1>2, <2>1
  <2>3. DirectoryReads(kf) = Reads({}, {"directory"}, {})
    BY <2>2 DEF DirectoryReads
  <2>4. TypeReads(o, kf) = Reads({}, {"directory"}, {})
    BY <1>3, <2>3 DEF TypeReads
  <2>5. TypeKeys(s) = {"directory"}
    BY <1>3 DEF TypeKeys, DirectoryKeys
  <2> QED  BY <2>4, <2>5 DEF Reads, kf
<1>4. CASE s.type = "file"
  BY <1>1, <1>2, <1>4 DEF TypeKeys, FileKeys, TypeReads, FileReads, Reads, kf
<1>5. CASE s.type = "loopback"
  BY <1>1, <1>2, <1>5 DEF TypeKeys, LoopbackKeys, TypeReads, LoopbackReads, Reads, kf
<1>6. CASE s.type = "block-device"
  BY <1>1, <1>2, <1>6 DEF TypeKeys, BlockDeviceKeys, TypeReads, BlockDeviceReads, Reads, kf
<1>7. CASE s.type = "lvm-snapshot"
  BY <1>1, <1>2, <1>7 DEF TypeKeys, LvmKeys, TypeReads, LvmReads, Reads, kf
<1>8. CASE s.type = "btrfs-snapshot"
  BY <1>1, <1>2, <1>8, NotWritten DEF TypeKeys, BtrfsKeys, TypeReads, BtrfsReads, Reads, kf
<1>9. CASE s.type = "zfs-snapshot"
  BY <1>1, <1>2, <1>9, NotWritten DEF TypeKeys, ZfsKeys, TypeReads, ZfsReads, Reads, kf
<1>10. CASE s.type = "custom"
  BY <1>1, <1>2, <1>10, NotWritten DEF TypeKeys, CustomKeys, TypeReads, CustomReads, Reads, kf
<1> QED  BY <1>1, <1>3, <1>4, <1>5, <1>6, <1>7, <1>8, <1>9, <1>10 DEF Types

\* The same for the facets of a session without unions of its own.
LEMMA FacetReadsBack ==
    ASSUME NEW s \in Objects, Reloadable(s), NEW o, IsSession(o),
           o.val["union-type"] = None, "mountable" \in o.facets => "mountable" \in s.facets
    PROVE  LET kf == GetKeyfile(s) IN
           /\ MountableKeys(TRUE) \subseteq FacetReads(o, "mountable", kf).required
                                              \cup FacetReads(o, "mountable", kf).optional
           /\ \A b \in BOOLEAN :
                UnionKeys(b) \subseteq FacetReads(o, "union", kf).required
                                         \cup FacetReads(o, "union", kf).optional
           /\ SessionKeys \subseteq FacetReads(o, "session", kf).required
                                      \cup FacetReads(o, "session", kf).optional
           /\ \A f \in o.facets : /\ FacetReads(o, f, kf).required \subseteq KeysWritten(s)
                                  /\ FacetReads(o, f, kf).disallowed = {}
<1> DEFINE kf == GetKeyfile(s)
<1>1. "mountable" \in s.facets => {"mount-device"} \subseteq KeysWritten(s)
  BY WrittenIs DEF MountableKeys
<1>2. FacetReads(o, "mountable", kf) = Reads({"mount-device"}, {"location"}, {})
  BY DEF FacetReads, MountableReads
<1>3. FacetReads(o, "session", kf) = Reads({}, {"original-name", "selected-name"}, {})
  BY DEF FacetReads, SessionReads
<1>4. PICK R : FacetReads(o, "union", kf) =
                 Reads(R, {"union-type", "union-overlay-directory", "union-underlay-directory"}, {})
               /\ R \subseteq KeysWritten(s)
  <2> DEFINE type == IF "union-type" \in DOMAIN kf THEN kf["union-type"] ELSE o.val["union-type"]
             both == {"union-overlay-directory", "union-underlay-directory"}
             R == IF type # None THEN both ELSE {}
  <2>1. FacetReads(o, "union", kf) = UnionReads(IsSession(o), type)
    BY DEF FacetReads
  <2>2. UnionReads(IsSession(o), type) = Reads(R, {"union-type"} \cup both, {})
    BY DEF UnionReads
  <2>3. {"union-type"} \cup both
          = {"union-type", "union-overlay-directory", "union-underlay-directory"}
    OBVIOUS
  <2>4. type # None => "union" \in s.facets /\ s.val["union-type"] # None
    BY WrittenIs, NotWritten, FieldNames
  <2>5. "union" \in s.facets /\ s.val["union-type"] # None => both \subseteq KeysWritten(s)
    BY WrittenIs DEF UnionKeys
  <2> HIDE DEF type
  <2>6. R \subseteq KeysWritten(s)
    BY <2>4, <2>5
  <2> HIDE DEF R, both
  <2> QED  BY <2>1, <2>2, <2>6, <2>3
<1>5. \A f \in o.facets \ {"mountable", "session", "union"} :
        FacetReads(o, f, kf).required = {} /\ FacetReads(o, f, kf).disallowed = {}
  BY DEF FacetReads, SourceClonableReads, Reads
<1> HIDE DEF kf
<1>6. ASSUME NEW f \in o.facets
      PROVE  /\ FacetReads(o, f, kf).required \subseteq KeysWritten(s)
             /\ FacetReads(o, f, kf).disallowed = {}
  BY <1>1, <1>2, <1>3, <1>4, <1>5 DEF Reads
<1>7. MountableKeys(TRUE) = {"mount-device", "location"}
      /\ SessionKeys = {"original-name", "selected-name"}
      /\ \A b \in BOOLEAN : UnionKeys(b) \subseteq
            {"union-type", "union-overlay-directory", "union-underlay-directory"}
  BY DEF MountableKeys, SessionKeys, UnionKeys
<1>8. MountableKeys(TRUE) \subseteq FacetReads(o, "mountable", kf).required
                                      \cup FacetReads(o, "mountable", kf).optional
  <2>1. /\ FacetReads(o, "mountable", kf).required = {"mount-device"}
        /\ FacetReads(o, "mountable", kf).optional = {"location"}
    BY <1>2 DEF Reads
  <2> QED  BY <1>7, <2>1
<1>9. \A b \in BOOLEAN : UnionKeys(b) \subseteq FacetReads(o, "union", kf).required
                                                  \cup FacetReads(o, "union", kf).optional
  BY <1>4, <1>7 DEF Reads
<1>10. SessionKeys \subseteq FacetReads(o, "session", kf).required
                               \cup FacetReads(o, "session", kf).optional
  BY <1>3, <1>7 DEF Reads
<1> QED  BY <1>6, <1>8, <1>9, <1>10 DEF kf

\* The session that load_keyfile makes for the file of another.
LEMMA FreshSession ==
    ASSUME NEW s \in Objects, Reloadable(s), NEW name \in Values
    PROVE  LET t == Template("session", name, GetKeyfile(s)) IN
           /\ t \in Objects /\ t.type = s.type /\ IsSession(t)
           /\ t.val["union-type"] = None
           /\ "mountable" \in t.facets <=> "mountable" \in s.facets
           /\ "union" \in t.facets <=> s.type \in UnionTypes
           /\ t.facets \cap {"session-clonable", "source-clonable", "source"} = {}
<1>1. GetKeyfile(s)["type"][1] = s.type /\ s.type \in Types \ {"plain"}
  BY GetKeyfileType DEF Reloadable
<1>2. LET t == Template("session", name, GetKeyfile(s)) IN
      /\ t \in Objects /\ t.type = s.type /\ t.val["union-type"] = None
      /\ t.facets = (InitialFacets(s.type) \ {"session-clonable", "source-clonable"}) \cup {"session"}
  BY <1>1, TemplateIs
<1> DEFINE t == Template("session", name, GetKeyfile(s))
<1> HIDE DEF t
<1>3. /\ "mountable" \in InitialFacets(s.type) <=> s.type \in MountableTypes
      /\ "union" \in InitialFacets(s.type) <=> s.type \in UnionTypes
      /\ "source" \notin InitialFacets(s.type)
  BY <1>1, InitialIs
<1>4. "mountable" \in s.facets <=> s.type \in MountableTypes
  BY DEF Reloadable, Placed
<1>5. /\ t \in Objects /\ t.type = s.type /\ t.val["union-type"] = None
      /\ t.facets = (InitialFacets(s.type) \ {"session-clonable", "source-clonable"}) \cup {"session"}
  BY <1>2 DEF t
<1>6. IsSession(t)
  BY <1>5 DEF IsSession
<1>7. /\ "mountable" \in t.facets <=> "mountable" \in s.facets
      /\ "union" \in t.facets <=> s.type \in UnionTypes
      /\ t.facets \cap {"session-clonable", "source-clonable", "source"} = {}
  BY <1>3, <1>4, <1>5
<1> QED  BY <1>5, <1>6, <1>7 DEF t

\* The file of a session is not refused.
LEMMA SessionFileAccepted ==
    ASSUME NEW s \in Objects, Reloadable(s), NEW name \in Values
    PROVE  ~Rejected(Template("session", name, GetKeyfile(s)), GetKeyfile(s))
<1> DEFINE kf == GetKeyfile(s)
           t == Template("session", name, kf)
<1>1. /\ t \in Objects /\ t.type = s.type /\ IsSession(t) /\ t.val["union-type"] = None
      /\ "mountable" \in t.facets <=> "mountable" \in s.facets
      /\ "union" \in t.facets <=> s.type \in UnionTypes
      /\ t.facets \cap {"session-clonable", "source-clonable", "source"} = {}
  BY FreshSession
<1> HIDE DEF t
<1>2. /\ TypeReads(t, kf).required \subseteq KeysWritten(s)
      /\ TypeReads(t, kf).disallowed \cap KeysWritten(s) = {}
  BY <1>1, TypeReadsBack
<1>3. \A f \in t.facets : /\ FacetReads(t, f, kf).required \subseteq KeysWritten(s)
                          /\ FacetReads(t, f, kf).disallowed = {}
  BY <1>1, FacetReadsBack
<1>4. /\ DOMAIN kf = KeysWritten(s)
      /\ \A k \in KeysWritten(s) \cap Fields : kf[k] = s.val[k]
      /\ "mount-location" \in KeysWritten(s)
  BY WrittenIs DEF ChrootKeys
<1>5. /\ {"custom-session-cloneable", "custom-source-cloneable"} \cap KeysWritten(s) = {}
      /\ {"btrfs-source-subvolume", "btrfs-snapshot-directory"} \cap KeysWritten(s) = {}
      /\ s.type = "directory" => "location" \notin KeysWritten(s)
      /\ "union-type" \in KeysWritten(s) => "union" \in s.facets
  BY NotWritten
<1>6. \A k \in {"union-overlay-directory", "union-underlay-directory"} :
         k \in KeysWritten(s) => "union" \in s.facets
  <2>1. \A k \in {"union-overlay-directory", "union-underlay-directory"} :
          k \notin ChrootKeys(TRUE) /\ k \notin MountableKeys(TRUE) /\ k \notin SessionKeys
    BY DEF ChrootKeys, MountableKeys, SessionKeys, Lists
  <2>2. \A k \in {"union-overlay-directory", "union-underlay-directory"} : k \notin TypeKeys(s)
    BY DEF TypeKeys, DirectoryKeys, FileKeys, LoopbackKeys, BlockDeviceKeys, LvmKeys,
           BtrfsKeys, ZfsKeys, CustomKeys, Types, Objects
  <2> QED  BY <2>1, <2>2, WrittenIs
<1>7. {"mount-location", "location", "directory", "file", "device", "lvm-snapshot-device",
       "btrfs-snapshot-name", "union-type", "union-overlay-directory",
       "union-underlay-directory"} \subseteq Fields
  BY DEF Fields
<1> HIDE DEF kf
<1>8. \A r \in AllReads(t, kf) : r.required \subseteq DOMAIN kf /\ r.disallowed \cap DOMAIN kf = {}
  <2>1. ChrootReads(IsSession(t)).required = {"mount-location"}
        /\ ChrootReads(IsSession(t)).disallowed = {}
    BY <1>1 DEF ChrootReads, Reads
  <2> QED  BY <1>2, <1>3, <1>4, <2>1 DEF AllReads
<1>9. ~AddsPresentFacet(t, kf)
  BY <1>4, <1>5 DEF AddsPresentFacet, Given
<1>10. ~ChrootRefuses(kf)
  BY <1>4, <1>7 DEF ChrootRefuses, Relative, Reloadable
<1>11. ~TypeRefuses(t, kf)
  <2>1. CASE s.type = "directory"
    BY <1>1, <1>4, <1>5, <1>7, <2>1 DEF TypeRefuses, DirectoryRefuses, Relative, Reloadable, Placed
  <2>2. CASE s.type = "file"
    BY <1>1, <1>4, <1>7, <2>2 DEF TypeRefuses, FileRefuses, Relative, Reloadable, Placed
  <2>3. CASE s.type = "loopback"
    BY <1>1, <1>4, <1>7, <2>3 DEF TypeRefuses, LoopbackRefuses, Relative, Reloadable, Placed
  <2>4. CASE s.type = "block-device"
    BY <1>1, <1>4, <1>7, <2>4 DEF TypeRefuses, BlockDeviceRefuses, Relative, Reloadable, Placed
  <2>5. CASE s.type = "lvm-snapshot"
    BY <1>1, <1>4, <1>7, <2>5
       DEF TypeRefuses, LvmRefuses, BlockDeviceRefuses, Relative, Reloadable, Placed
  <2>6. CASE s.type = "btrfs-snapshot"
    BY <1>1, <1>4, <1>5, <1>7, <2>6 DEF TypeRefuses, BtrfsRefuses, Relative, Reloadable
  <2>7. CASE s.type \in {"zfs-snapshot", "custom"}
    BY <1>1, <2>7 DEF TypeRefuses
  <2>8. s.type \in Types \ {"plain"}
    BY DEF Reloadable
  <2> QED  BY <2>1, <2>2, <2>3, <2>4, <2>5, <2>6, <2>7, <2>8 DEF Types
<1>12. ~MountableRefuses(kf)
  BY <1>4, <1>7 DEF MountableRefuses, Relative, Reloadable, Placed
<1>13. ~UnionRefuses(kf)
  <2>1. ~UnionTypeRefused(kf)
    BY <1>4, <1>5, <1>7 DEF UnionTypeRefused, Reloadable, Placed
  <2>2. ~Relative(kf, {"union-overlay-directory", "union-underlay-directory"})
    BY <1>4, <1>6, <1>7 DEF Relative, Reloadable, Placed
  <2> QED  BY <2>1, <2>2 DEF UnionRefuses
<1>14. \A f \in t.facets : ~FacetRefuses(kf, f)
  BY <1>12, <1>13 DEF FacetRefuses
<1> QED  BY <1>8, <1>9, <1>10, <1>11, <1>14 DEF Rejected, t, kf

\* What another process makes of the file of a session.
LEMMA ReadBack ==
    ASSUME NEW s \in Objects, Reloadable(s), NEW name \in Values
    PROVE  LET a == LoadKeyfile("session", name, GetKeyfile(s)) IN
           /\ a \in Objects /\ a.type = s.type /\ IsSession(a)
           /\ "mountable" \in a.facets <=> "mountable" \in s.facets
           /\ "union" \in s.facets => "union" \in a.facets
           /\ "session-clonable" \notin a.facets /\ "source" \notin a.facets
           /\ \A k \in KeysWritten(s) \cap Fields : a.val[k] = s.val[k]
           /\ "union" \notin s.facets => a.val["union-type"] = None
<1> DEFINE kf == GetKeyfile(s)
           t == Template("session", name, kf)
           p == SetFacets(t, kf)
           a == SetValues(p, kf)
<1>1. /\ t \in Objects /\ t.type = s.type /\ IsSession(t) /\ t.val["union-type"] = None
      /\ "mountable" \in t.facets <=> "mountable" \in s.facets
      /\ "union" \in t.facets <=> s.type \in UnionTypes
      /\ t.facets \cap {"session-clonable", "source-clonable", "source"} = {}
  BY FreshSession
<1>2. LoadKeyfile("session", name, kf) = a
  BY SessionFileAccepted DEF LoadKeyfile, SetKeyfile
<1>3. DOMAIN kf = KeysWritten(s) /\ \A k \in KeysWritten(s) \cap Fields : kf[k] = s.val[k]
  BY WrittenIs
<1>4. {"custom-session-cloneable", "custom-source-cloneable"} \cap KeysWritten(s) = {}
      /\ ("union-type" \in KeysWritten(s) => "union" \in s.facets)
  BY NotWritten
<1>5. IsGroup(kf)
  BY GetKeyfileType
<1>6. /\ TypeKeys(s) \cap Fields \subseteq TypeReads(p, kf).required \cup TypeReads(p, kf).optional
      /\ p \in Objects /\ p.type = s.type /\ IsSession(p) /\ p.val = t.val
      /\ "mountable" \in p.facets <=> "mountable" \in s.facets
      /\ "union" \in p.facets <=> s.type \in UnionTypes
      /\ "source" \notin p.facets
  <2>1. /\ p \in Objects /\ p.type = t.type /\ p.val = t.val
        /\ p.facets \ {"source-clonable", "session-clonable"}
             = t.facets \ {"source-clonable", "session-clonable"}
    BY <1>1, SetFacetsIs
  <2> HIDE DEF t, p
  <2>2. \A f \in {"mountable", "union", "session", "source"} : f \in p.facets <=> f \in t.facets
    BY <2>1
  <2>3. IsSession(p)
    BY <1>1, <2>2 DEF IsSession
  <2> QED  BY <1>1, <2>1, <2>2, <2>3, TypeReadsBack
<1>7. "session-clonable" \notin p.facets
  <2> HIDE DEF t
  <2>1. t.facets \in SUBSET Facets
    BY <1>1 DEF Objects
  <2>2. p = t \/ p = [t EXCEPT !.facets = p.facets]
    BY <1>6 DEF SetFacets
  <2>3. p.facets \subseteq t.facets \cup {"source-clonable"}
    BY <1>1 DEF SetFacets, Objects
  <2> QED  BY <1>1, <2>3
<1> HIDE DEF t, p
<1>8. /\ a \in Objects /\ a.type = p.type /\ a.facets = p.facets
  <2>1. a # Refused
    <3>1. a.type = p.type /\ p.type \in Types
      BY <1>6, SetValuesIs DEF Objects
    <3>2. "refused" \notin Types /\ Refused.type = "refused"
      BY DEF Types, Refused
    <3> QED  BY <3>1, <3>2
  <2>2. a \in Objects
    BY <1>2, <1>5, <2>1, LoadKeyfileType
  <2> QED  BY <1>6, <2>2, SetValuesIs
<1>9. \A k \in Fields : /\ k \in KeysRead(p, kf) \cap DOMAIN kf => a.val[k] = kf[k]
                        /\ /\ k \notin KeysRead(p, kf) \cap DOMAIN kf
                           /\ k \notin {"directory", "mount-device", "selected-name"}
                           => a.val[k] = p.val[k]
  BY <1>6, SetValueIs
<1> HIDE DEF a
<1>10. ASSUME NEW k \in KeysWritten(s) \cap Fields
       PROVE  k \in KeysRead(p, kf)
  <2>1. CASE k \in TypeKeys(s)
    BY <1>6, <2>1, KeysReadIs
  <2>2. CASE k \in ChrootKeys(TRUE)
    <3>1. "type" \notin Fields
      BY DEF Fields, Lists, SourceLists, SourceList
    <3>2. k \in ChrootReads(IsSession(p)).required \cup ChrootReads(IsSession(p)).optional
      BY <1>6, <2>2, <3>1 DEF ChrootKeys, ChrootReads, Reads
    <3> QED  BY <3>2, KeysReadIs
  <2>3. /\ MountableKeys(TRUE) \subseteq FacetReads(p, "mountable", kf).required
                                           \cup FacetReads(p, "mountable", kf).optional
        /\ \A b \in BOOLEAN :
             UnionKeys(b) \subseteq FacetReads(p, "union", kf).required
                                      \cup FacetReads(p, "union", kf).optional
        /\ SessionKeys \subseteq FacetReads(p, "session", kf).required
                                   \cup FacetReads(p, "session", kf).optional
    BY <1>1, <1>6, FacetReadsBack
  <2>4. CASE "mountable" \in s.facets /\ k \in MountableKeys(TRUE)
    BY <1>6, <2>3, <2>4, KeysReadIs
  <2>5. CASE "union" \in s.facets /\ k \in UnionKeys(s.val["union-type"] # None)
    <3>1. "union" \in p.facets /\ (s.val["union-type"] # None) \in BOOLEAN
      BY <1>6, <2>5 DEF Reloadable, Placed
    <3> QED  BY <2>3, <2>5, <3>1, KeysReadIs
  <2>6. CASE k \in SessionKeys
    BY <1>6, <2>3, <2>6, KeysReadIs DEF IsSession
  <2> QED  BY <2>1, <2>2, <2>4, <2>5, <2>6, WrittenIs
<1>11. \A k \in KeysWritten(s) \cap Fields : a.val[k] = s.val[k]
  BY <1>3, <1>9, <1>10
<1>12. "union" \notin s.facets => a.val["union-type"] = None
  BY <1>1, <1>3, <1>4, <1>6, <1>9, FieldNames
<1>13. "union" \in s.facets => s.type \in UnionTypes
  BY DEF Reloadable, Placed
<1> QED  BY <1>2, <1>6, <1>7, <1>8, <1>11, <1>12, <1>13 DEF IsSession, kf

-----------------------------------------------------------------------------
(***************************************************************************)
(* The environments of two objects, compared layer by layer.               *)
(***************************************************************************)
\* The variables outside X have the same values.
Agree(e, f, X) ==
    \A v : v \notin X => /\ v \in DOMAIN e <=> v \in DOMAIN f
                         /\ v \in DOMAIN e => e[v] = f[v]

\* What is added to environments that agree leaves them in agreement.
LEMMA OverAgrees ==
    ASSUME NEW X, NEW e, NEW f, NEW g, NEW h, Agree(e, f, X), Agree(g, h, X)
    PROVE  Agree(Over(e, g), Over(f, h), X)
<1>1. \A v : v \in DOMAIN Over(e, g) <=> v \in DOMAIN e \/ v \in DOMAIN g
  BY DEF Over
<1>2. \A v : v \in DOMAIN Over(f, h) <=> v \in DOMAIN f \/ v \in DOMAIN h
  BY DEF Over
<1>3. \A v \in DOMAIN Over(e, g) : Over(e, g)[v] = IF v \in DOMAIN e THEN e[v] ELSE g[v]
  BY DEF Over
<1>4. \A v \in DOMAIN Over(f, h) : Over(f, h)[v] = IF v \in DOMAIN f THEN f[v] ELSE h[v]
  BY DEF Over
<1>5. SUFFICES ASSUME NEW v, v \notin X
               PROVE  /\ v \in DOMAIN Over(e, g) <=> v \in DOMAIN Over(f, h)
                      /\ v \in DOMAIN Over(e, g) => Over(e, g)[v] = Over(f, h)[v]
  BY DEF Agree
<1>6. /\ v \in DOMAIN e <=> v \in DOMAIN f
      /\ v \in DOMAIN e => e[v] = f[v]
      /\ v \in DOMAIN g <=> v \in DOMAIN h
      /\ v \in DOMAIN g => g[v] = h[v]
  BY <1>5 DEF Agree
<1> QED  BY <1>1, <1>2, <1>3, <1>4, <1>6

\* The flags of a session.
LEMMA PurgeFlag ==
    ASSUME NEW o, IsSession(o), "session-clonable" \notin o.facets
    PROVE  /\ "create" \notin SessionFlags(o) /\ "clone" \notin SessionFlags(o)
           /\ "purge" \in SessionFlags(o) <=>
                \/ o.type \in CopyingTypes
                \/ o.type = "custom" /\ o.val["custom-session-purgeable"] = True
                \/ "union" \in o.facets /\ o.val["union-type"] # None
<1>1. "create" \notin SessionFlags(o) /\ "clone" \notin SessionFlags(o)
  BY CloningFlags
<1>2. "purge" \in TypeFlags(o) <=> \/ o.type \in CopyingTypes
                                   \/ o.type = "custom" /\ o.val["custom-session-purgeable"] = True
  BY DEF TypeFlags, SnapshotFlags, CustomFlags, CopyingTypes
<1>3. "purge" \in UnionFlags(o) <=> "union" \in o.facets /\ o.val["union-type"] # None
  BY DEF UnionFlags, UnionConfigured
<1>4. \A f \in o.facets : "purge" \in FacetFlags(o, f) <=> f = "union" /\ "purge" \in UnionFlags(o)
  BY DEF FacetFlags, SourceClonableFlags, SessionFacetFlags
<1>5. "purge" \in SessionFlags(o) <=> \/ "purge" \in TypeFlags(o)
                                      \/ \E f \in o.facets : "purge" \in FacetFlags(o, f)
  BY DEF SessionFlags
<1> QED  BY <1>1, <1>2, <1>3, <1>4, <1>5

\* What a session that was read back has in common with the one that was
\* written.
Alike(a, s) ==
    /\ a.type = s.type /\ IsSession(a) /\ "session-clonable" \notin a.facets
    /\ "mountable" \in a.facets <=> "mountable" \in s.facets
    /\ "union" \in s.facets => "union" \in a.facets
    /\ \A k \in KeysWritten(s) \cap Fields : a.val[k] = s.val[k]
    /\ "union" \notin s.facets => a.val["union-type"] = None

\* The members in both files.
LEMMA AlikeMembers ==
    ASSUME NEW s \in Objects, Reloadable(s), NEW a, Alike(a, s)
    PROVE  /\ \A k \in Lists \cup {"name", "aliases", "profile", "mount-location",
                                   "original-name", "selected-name"} : a.val[k] = s.val[k]
           /\ \A k \in TypeKeys(s) \cap Fields : a.val[k] = s.val[k]
           /\ "mountable" \in s.facets => \A k \in {"location", "mount-device"} :
                                             a.val[k] = s.val[k]
           /\ "union" \in s.facets => a.val["union-type"] = s.val["union-type"]
           /\ UnionConfigured(s) =>
                \A k \in {"union-overlay-directory", "union-underlay-directory"} :
                   a.val[k] = s.val[k]
<1>1. Lists \cup {"name", "aliases", "profile", "mount-location", "original-name", "selected-name",
                  "location", "mount-device", "union-type", "union-overlay-directory",
                  "union-underlay-directory"} \subseteq Fields
  BY DEF Fields
<1>2. Lists \cup {"name", "aliases", "profile", "mount-location"} \subseteq ChrootKeys(TRUE)
  BY DEF ChrootKeys
<1>3. {"original-name", "selected-name"} \subseteq SessionKeys
  BY DEF SessionKeys
<1>4. {"location", "mount-device"} \subseteq MountableKeys(TRUE)
  BY DEF MountableKeys
<1>5. \A b \in BOOLEAN : "union-type" \in UnionKeys(b)
  BY DEF UnionKeys
<1>6. s.val["union-type"] # None =>
        {"union-overlay-directory", "union-underlay-directory"}
          \subseteq UnionKeys(s.val["union-type"] # None)
  BY DEF UnionKeys
<1>7. \A k \in Lists \cup {"name", "aliases", "profile", "mount-location",
                           "original-name", "selected-name"} : k \in KeysWritten(s)
  BY <1>2, <1>3, WrittenIs
<1>8. \A k \in TypeKeys(s) : k \in KeysWritten(s)
  BY WrittenIs
<1>9. "mountable" \in s.facets => \A k \in {"location", "mount-device"} : k \in KeysWritten(s)
  BY <1>4, WrittenIs
<1>10. "union" \in s.facets => "union-type" \in KeysWritten(s)
  <2>1. (s.val["union-type"] # None) \in BOOLEAN
    OBVIOUS
  <2> QED  BY <1>5, <2>1, WrittenIs
<1>11. UnionConfigured(s) => \A k \in {"union-overlay-directory", "union-underlay-directory"} :
                                k \in KeysWritten(s)
  BY <1>6, WrittenIs DEF UnionConfigured
<1> QED  BY <1>1, <1>7, <1>8, <1>9, <1>10, <1>11 DEF Alike

\* The variables whose values another process does not know, and that of the
\* union, which has a default.
Unknown(s) ==
    CreationVariables \cup {"CHROOT_SESSION_SOURCE", "CHROOT_UNION_TYPE"}
    \cup (IF "source" \in s.facets THEN {"CHROOT_ZFS_SNAPSHOT_NAME", "CHROOT_ZFS_CLONE_NAME"} ELSE {})

\* The base class.
LEMMA ChrootEnvAgrees ==
    ASSUME NEW s \in Objects, Reloadable(s), NEW a, Alike(a, s)
    PROVE  Agree(ChrootEnv(a), ChrootEnv(s), Unknown(s))
<1>1. a.type = s.type /\ a.val["name"] = s.val["name"] /\ a.val["profile"] = s.val["profile"]
      /\ a.val["mount-location"] = s.val["mount-location"]
  BY AlikeMembers DEF Alike
<1>2. GetPath(a) = GetPath(s)
  <2>1. CASE s.type \in {"directory", "btrfs-snapshot", "custom"}
    BY <1>1, <2>1 DEF GetPath
  <2>2. CASE s.type \in MountableTypes
    <3>1. a.val["location"] = s.val["location"]
      BY <2>2, AlikeMembers DEF Reloadable, Placed
    <3> QED  BY <1>1, <2>2, <3>1 DEF GetPath, MountableTypes
  <2>3. CASE s.type = "file"
    <3>1. "location" \in TypeKeys(s) \cap Fields
      BY <2>3, FieldNames DEF TypeKeys, FileKeys
    <3>2. a.val["location"] = s.val["location"]
      BY <3>1, AlikeMembers
    <3> QED  BY <1>1, <2>3, <3>2 DEF GetPath
  <2> QED  BY <2>1, <2>2, <2>3 DEF Reloadable, Types, MountableTypes
<1>3. /\ "create" \notin SessionFlags(a) /\ "create" \notin SessionFlags(s)
      /\ "clone" \notin SessionFlags(a) /\ "clone" \notin SessionFlags(s)
      /\ "purge" \in SessionFlags(a) <=> "purge" \in SessionFlags(s)
  <2>1. "session-clonable" \notin s.facets /\ IsSession(s)
    BY DEF Reloadable
  <2>2. s.type = "custom" =>
          a.val["custom-session-purgeable"] = s.val["custom-session-purgeable"]
    <3>1. s.type = "custom" => "custom-session-purgeable" \in TypeKeys(s) \cap Fields
      BY FieldNames DEF TypeKeys, CustomKeys
    <3> QED  BY <3>1, AlikeMembers
  <2>3. ("union" \in a.facets /\ a.val["union-type"] # None)
          <=> ("union" \in s.facets /\ s.val["union-type"] # None)
    BY AlikeMembers DEF Alike
  <2> QED  BY <2>1, <2>2, <2>3, PurgeFlag DEF Alike
<1>4. \A f \in {"create", "clone", "purge"} : Flag(a, f) = Flag(s, f)
  BY <1>3 DEF Flag
<1>5. DOMAIN ChrootEnv(a) = DOMAIN ChrootEnv(s)
  BY DEF ChrootEnv
<1>6. \A v \in DOMAIN ChrootEnv(a) : v # "CHROOT_SESSION_SOURCE" => ChrootEnv(a)[v] = ChrootEnv(s)[v]
  BY <1>1, <1>2, <1>4 DEF ChrootEnv
<1> QED  BY <1>5, <1>6 DEF Agree, Unknown

\* The types.
LEMMA TypeEnvAgrees ==
    ASSUME NEW s \in Objects, Reloadable(s), NEW a, Alike(a, s), "source" \notin a.facets
    PROVE  Agree(TypeEnv(a), TypeEnv(s), Unknown(s))
<1>1. a.type = s.type /\ s.type \in Types \ {"plain"} /\ IsSession(s)
  BY DEF Alike, Reloadable
<1>2. \A k \in TypeKeys(s) \cap Fields : a.val[k] = s.val[k]
  BY AlikeMembers
<1>3. {"directory", "file", "location", "file-repack", "device", "lvm-snapshot-device",
       "btrfs-snapshot-name", "zfs-snapshot-name", "zfs-clone-name"} \subseteq Fields
  BY DEF Fields
<1>4. \A v \in CreationVariables : v \in Unknown(s)
  BY DEF Unknown
<1>5. CASE s.type = "directory"
  <2>1. a.val["directory"] = s.val["directory"]
    BY <1>2, <1>3, <1>5 DEF TypeKeys, DirectoryKeys
  <2>2. TypeEnv(a) = TypeEnv(s)
    BY <1>1, <1>5, <2>1 DEF TypeEnv, DirectoryEnv
  <2> QED  BY <2>2 DEF Agree
<1>6. CASE s.type = "file"
  <2>1. /\ a.val["file"] = s.val["file"] /\ a.val["location"] = s.val["location"]
        /\ a.val["file-repack"] = s.val["file-repack"]
    BY <1>1, <1>2, <1>3, <1>6 DEF TypeKeys, FileKeys
  <2>2. TypeEnv(a) = TypeEnv(s)
    BY <1>1, <1>6, <2>1 DEF TypeEnv, FileEnv
  <2> QED  BY <2>2 DEF Agree
<1>7. CASE s.type = "loopback"
  <2>1. a.val["file"] = s.val["file"]
    BY <1>2, <1>3, <1>7 DEF TypeKeys, LoopbackKeys
  <2>2. TypeEnv(a) = TypeEnv(s)
    BY <1>1, <1>7, <2>1 DEF TypeEnv, LoopbackEnv
  <2> QED  BY <2>2 DEF Agree
<1>8. CASE s.type = "block-device"
  <2>1. a.val["device"] = s.val["device"]
    BY <1>2, <1>3, <1>8 DEF TypeKeys, BlockDeviceKeys
  <2>2. TypeEnv(a) = TypeEnv(s)
    BY <1>1, <1>8, <2>1 DEF TypeEnv, BlockDeviceEnv
  <2> QED  BY <2>2 DEF Agree
<1>9. CASE s.type = "lvm-snapshot"
  <2>1. /\ a.val["device"] = s.val["device"]
        /\ a.val["lvm-snapshot-device"] = s.val["lvm-snapshot-device"]
    BY <1>1, <1>2, <1>3, <1>9 DEF TypeKeys, LvmKeys
  <2>2. TypeEnv(a) = LvmEnv(a) /\ TypeEnv(s) = LvmEnv(s)
    BY <1>1, <1>9 DEF TypeEnv
  <2>3. "CHROOT_LVM_SNAPSHOT_OPTIONS" \in Unknown(s)
    BY <1>4 DEF CreationVariables
  <2>4. DOMAIN LvmEnv(a) = DOMAIN LvmEnv(s)
        /\ \A v \in DOMAIN LvmEnv(a) : v # "CHROOT_LVM_SNAPSHOT_OPTIONS" =>
             LvmEnv(a)[v] = LvmEnv(s)[v]
    BY <2>1 DEF LvmEnv
  <2> QED  BY <2>2, <2>3, <2>4 DEF Agree
<1>10. CASE s.type = "btrfs-snapshot"
  <2>1. a.val["btrfs-snapshot-name"] = s.val["btrfs-snapshot-name"]
    BY <1>1, <1>2, <1>3, <1>10 DEF TypeKeys, BtrfsKeys
  <2>2. TypeEnv(a) = BtrfsEnv(a) /\ TypeEnv(s) = BtrfsEnv(s)
    BY <1>1, <1>10 DEF TypeEnv
  <2>3. {"CHROOT_BTRFS_SOURCE_SUBVOLUME", "CHROOT_BTRFS_SNAPSHOT_DIRECTORY"} \subseteq Unknown(s)
    BY <1>4 DEF CreationVariables
  <2>4. DOMAIN BtrfsEnv(a) = DOMAIN BtrfsEnv(s)
        /\ \A v \in DOMAIN BtrfsEnv(a) :
             v \notin {"CHROOT_BTRFS_SOURCE_SUBVOLUME", "CHROOT_BTRFS_SNAPSHOT_DIRECTORY"} =>
               BtrfsEnv(a)[v] = BtrfsEnv(s)[v]
    BY <2>1 DEF BtrfsEnv
  <2> QED  BY <2>2, <2>3, <2>4 DEF Agree
<1>11. CASE s.type = "zfs-snapshot"
  <2>1. /\ a.val["zfs-snapshot-name"] = s.val["zfs-snapshot-name"]
        /\ a.val["zfs-clone-name"] = s.val["zfs-clone-name"]
    BY <1>1, <1>2, <1>3, <1>11 DEF TypeKeys, ZfsKeys
  <2>2. TypeEnv(a) = ZfsEnv(a) /\ TypeEnv(s) = ZfsEnv(s)
    BY <1>1, <1>11 DEF TypeEnv
  <2>3. {"CHROOT_ZFS_DATASET", "CHROOT_ZFS_SNAPSHOT_OPTIONS"} \subseteq Unknown(s)
    BY <1>4 DEF CreationVariables
  <2> DEFINE names == {"CHROOT_ZFS_SNAPSHOT_NAME", "CHROOT_ZFS_CLONE_NAME"}
  <2>4. "source" \in s.facets => names \subseteq Unknown(s)
    BY DEF Unknown
  <2>5. \A o : \A v \in DOMAIN ZfsEnv(o) :
          v \in names \cup {"CHROOT_ZFS_DATASET", "CHROOT_ZFS_SNAPSHOT_OPTIONS"}
    BY DEF ZfsEnv
  <2>6. /\ names \subseteq DOMAIN ZfsEnv(a)
        /\ "source" \notin s.facets => names \subseteq DOMAIN ZfsEnv(s)
    BY DEF ZfsEnv
  <2>7. ASSUME NEW v \in names, "source" \notin s.facets
        PROVE  ZfsEnv(a)[v] = ZfsEnv(s)[v]
    BY <2>1, <2>7 DEF ZfsEnv
  <2> QED  BY <2>2, <2>3, <2>4, <2>5, <2>6, <2>7 DEF Agree
<1>12. CASE s.type = "custom"
  BY <1>1, <1>12 DEF TypeEnv, Agree
<1> QED  BY <1>1, <1>5, <1>6, <1>7, <1>8, <1>9, <1>10, <1>11, <1>12 DEF Types

\* The facets.
LEMMA FacetEnvAgrees ==
    ASSUME NEW s \in Objects, Reloadable(s), NEW a, Alike(a, s)
    PROVE  \A f \in {"mountable", "session", "union"} :
             Agree(FacetEnv(a, f), FacetEnv(s, f), Unknown(s))
<1>1. Agree(FacetEnv(a, "mountable"), FacetEnv(s, "mountable"), Unknown(s))
  <2>1. "mountable" \in s.facets => MountableEnv(a) = MountableEnv(s)
    BY AlikeMembers DEF MountableEnv
  <2>2. FacetEnv(a, "mountable") = FacetEnv(s, "mountable")
    BY <2>1 DEF FacetEnv, Alike
  <2> QED  BY <2>2 DEF Agree
<1>2. Agree(FacetEnv(a, "session"), FacetEnv(s, "session"), Unknown(s))
  <2>1. a.val["original-name"] = s.val["original-name"]
        /\ a.val["selected-name"] = s.val["selected-name"]
    BY AlikeMembers
  <2>2. SessionEnv(a) = SessionEnv(s)
    BY <2>1 DEF SessionEnv
  <2>3. FacetEnv(a, "session") = FacetEnv(s, "session")
    BY <2>2 DEF FacetEnv, Alike, Reloadable, IsSession
  <2> QED  BY <2>3 DEF Agree
<1>3. Agree(FacetEnv(a, "union"), FacetEnv(s, "union"), Unknown(s))
  <2>1. CASE "union" \in s.facets
    <3>1. "union" \in a.facets /\ a.val["union-type"] = s.val["union-type"]
      BY <2>1, AlikeMembers DEF Alike
    <3>2. /\ UnionConfigured(a) <=> UnionConfigured(s)
          /\ UnionConfigured(s) =>
               /\ a.val["union-overlay-directory"] = s.val["union-overlay-directory"]
               /\ a.val["union-underlay-directory"] = s.val["union-underlay-directory"]
      BY <2>1, <3>1, AlikeMembers DEF UnionConfigured
    <3>3. UnionEnv(a) = UnionEnv(s)
      BY <3>1, <3>2 DEF UnionEnv
    <3>4. FacetEnv(a, "union") = FacetEnv(s, "union")
      BY <2>1, <3>1, <3>3 DEF FacetEnv
    <3> QED  BY <3>4 DEF Agree
  <2>2. CASE "union" \notin s.facets
    <3>1. ~UnionConfigured(a)
      BY <2>2 DEF UnionConfigured, Alike
    <3>2. DOMAIN FacetEnv(a, "union") \subseteq {"CHROOT_UNION_TYPE"}
      BY <3>1 DEF FacetEnv, UnionEnv, NoFile
    <3>3. DOMAIN FacetEnv(s, "union") = {}
      BY <2>2 DEF FacetEnv, NoFile
    <3> QED  BY <3>2, <3>3 DEF Agree, Unknown
  <2> QED  BY <2>1, <2>2
<1> QED  BY <1>1, <1>2, <1>3

\* The type of union as the scripts see it.
LEMMA UnionVariable ==
    ASSUME NEW o, o.type \in Types
    PROVE  Variable(SetupEnv(o), "CHROOT_UNION_TYPE")
             = IF "union" \in o.facets THEN o.val["union-type"] ELSE None
<1> DEFINE v == "CHROOT_UNION_TYPE"
<1>1. \A e, f : /\ v \in DOMAIN Over(e, f) <=> v \in DOMAIN e \/ v \in DOMAIN f
                /\ v \in DOMAIN e => Over(e, f)[v] = e[v]
  BY DEF Over
<1>2. v \notin DOMAIN ChrootEnv(o)
  BY DEF ChrootEnv
<1>3. v \notin DOMAIN TypeEnv(o)
  BY DEF TypeEnv, DirectoryEnv, FileEnv, LoopbackEnv, BlockDeviceEnv, LvmEnv, BtrfsEnv, ZfsEnv,
         NoFile, Types
<1>4. v \notin DOMAIN FacetEnv(o, "mountable") /\ v \notin DOMAIN FacetEnv(o, "session")
  BY DEF FacetEnv, MountableEnv, SessionEnv, NoFile
<1>5. IF "union" \in o.facets
        THEN v \in DOMAIN FacetEnv(o, "union") /\ FacetEnv(o, "union")[v] = o.val["union-type"]
        ELSE v \notin DOMAIN FacetEnv(o, "union")
  BY DEF FacetEnv, UnionEnv, NoFile
<1> DEFINE e == FacetEnv(o, "union")
           f == Over(FacetEnv(o, "session"),
                     Over(FacetEnv(o, "mountable"), Over(TypeEnv(o), ChrootEnv(o))))
<1>6. v \notin DOMAIN f
  BY <1>1, <1>2, <1>3, <1>4
<1>7. SetupEnv(o) = Over(e, f)
  BY DEF SetupEnv
<1> HIDE DEF e, f
<1>8. CASE "union" \in o.facets
  BY <1>1, <1>5, <1>7, <1>8 DEF Variable, e
<1>9. CASE "union" \notin o.facets
  BY <1>1, <1>5, <1>6, <1>7, <1>9 DEF Variable, e
<1> QED  BY <1>8, <1>9

\* The scripts get the same variables for a session and for what another process
\* reads of its file.
LEMMA SetupEnvAgrees ==
    ASSUME NEW s \in Objects, Reloadable(s), NEW a, Alike(a, s), "source" \notin a.facets,
           NEW v, v \notin Unknown(s) \ {"CHROOT_UNION_TYPE"}
    PROVE  Variable(SetupEnv(a), v) = Variable(SetupEnv(s), v)
<1>1. CASE v = "CHROOT_UNION_TYPE"
  <2>1. a.type \in Types /\ s.type \in Types
    BY DEF Alike, Objects
  <2>2. (IF "union" \in a.facets THEN a.val["union-type"] ELSE None)
          = (IF "union" \in s.facets THEN s.val["union-type"] ELSE None)
    BY AlikeMembers DEF Alike
  <2> QED  BY <1>1, <2>1, <2>2, UnionVariable
<1>2. CASE v # "CHROOT_UNION_TYPE"
  <2> DEFINE X == Unknown(s)
  <2>1. /\ Agree(ChrootEnv(a), ChrootEnv(s), X) /\ Agree(TypeEnv(a), TypeEnv(s), X)
        /\ Agree(FacetEnv(a, "mountable"), FacetEnv(s, "mountable"), X)
        /\ Agree(FacetEnv(a, "session"), FacetEnv(s, "session"), X)
        /\ Agree(FacetEnv(a, "union"), FacetEnv(s, "union"), X)
    BY ChrootEnvAgrees, TypeEnvAgrees, FacetEnvAgrees
  <2> HIDE DEF X
  <2>2. Agree(Over(TypeEnv(a), ChrootEnv(a)), Over(TypeEnv(s), ChrootEnv(s)), X)
    BY <2>1, OverAgrees
  <2>3. Agree(Over(FacetEnv(a, "mountable"), Over(TypeEnv(a), ChrootEnv(a))),
              Over(FacetEnv(s, "mountable"), Over(TypeEnv(s), ChrootEnv(s))), X)
    BY <2>1, <2>2, OverAgrees
  <2>4. Agree(Over(FacetEnv(a, "session"),
                   Over(FacetEnv(a, "mountable"), Over(TypeEnv(a), ChrootEnv(a)))),
              Over(FacetEnv(s, "session"),
                   Over(FacetEnv(s, "mountable"), Over(TypeEnv(s), ChrootEnv(s)))), X)
    BY <2>1, <2>3, OverAgrees
  <2>5. Agree(SetupEnv(a), SetupEnv(s), X)
    BY <2>1, <2>4, OverAgrees DEF SetupEnv
  <2>6. v \notin X
    BY <1>2 DEF X
  <2> QED  BY <1>2, <2>5, <2>6 DEF Agree, Variable
<1> QED  BY <1>1, <1>2

-----------------------------------------------------------------------------
(***************************************************************************)
(* The invariant for ReloadFaithful.                                       *)
(***************************************************************************)
SoundChroots == {o \in Objects : Sound(o)}
SessionsOnFile == {s \in Objects : Reloadable(s)}

\* The file of a session is what get_keyfile wrote for it, and what another
\* process has is what load_keyfile made of that file.
Filed(i) ==
    \/ begun[i] = NoObject /\ again[i] = NoObject
    \/ \E s \in SessionsOnFile :
         /\ begun[i] = s /\ file[i] = GetKeyfile(s)
         /\ "source" \in s.facets => from[i] = "source"
         /\ again[i] \in {NoObject, LoadKeyfile("session", <<i>>, GetKeyfile(s))}

FileInv ==
    /\ CloneInv
    /\ Object(chroot) => chroot \in SoundChroots /\ "source" \notin chroot.facets
    /\ sources \subseteq SoundChroots
    /\ \A i \in Ids : Filed(i)

\* A step that leaves a session's file and objects alone.
LEMMA FiledStays ==
    ASSUME NEW i \in Ids, Filed(i), begun'[i] = begun[i], file'[i] = file[i],
           from'[i] = from[i], again'[i] = again[i]
    PROVE  Filed(i)'
BY DEF Filed

\* A session is begun and its file written.
LEMMA BeginFiles ==
    ASSUME FileInv, NEW ns \in {"chroot", "source"}, NEW o \in SoundChroots, MayBegin(o),
           "source" \in o.facets => ns = "source",
           NEW i \in Ids, NEW u \in Users, BeginSession(ns, o, i, u), NEW j \in Ids
    PROVE  Filed(j)'
<1>1. PICK root \in RootChoices(o, u) :
         /\ begun' = [begun EXCEPT ![i] = CloneSession(o, i, o.val["name"], <<u>>, root)]
         /\ file' = [file EXCEPT ![i] = GetKeyfile(CloneSession(o, i, o.val["name"], <<u>>, root))]
  BY DEF BeginSession
<1> DEFINE s == CloneSession(o, i, o.val["name"], <<u>>, root)
<1>2. o \in Objects /\ Sound(o)
  BY DEF SoundChroots
<1>3. /\ i \in Strings /\ <<u>> \in Values /\ o.val["name"] \in Values
  BY <1>2, StringAssumption, FieldNames DEF Objects, Values
<1>4. o.type # "plain"
  BY CloningFlags DEF BeginSession, MayBegin
<1>5. /\ s \in Objects /\ Reloadable(s)
      /\ s.facets = (o.facets \ {"session-clonable", "source-clonable"}) \cup {"session"}
  BY <1>2, <1>3, <1>4, CloneSessionType, SessionIsReloadable
<1> HIDE DEF s
<1>6. /\ begun' = [begun EXCEPT ![i] = s] /\ file' = [file EXCEPT ![i] = GetKeyfile(s)]
      /\ from' = [from EXCEPT ![i] = ns] /\ again' = again /\ file[i] = NoFile
  BY <1>1 DEF BeginSession, s
<1>7. begun \in [Ids -> Objects \cup {NoObject}] /\ DOMAIN file = Ids /\ DOMAIN from = Ids
  BY DEF FileInv, CloneInv, TypeOK
<1>8. CASE j # i
  <2>1. begun'[j] = begun[j] /\ file'[j] = file[j] /\ from'[j] = from[j] /\ again'[j] = again[j]
    BY <1>6, <1>7, <1>8
  <2> QED  BY <2>1, FiledStays DEF FileInv
<1>9. CASE j = i
  <2>1. begun'[i] = s /\ file'[i] = GetKeyfile(s) /\ from'[i] = ns /\ again'[i] = again[i]
    BY <1>6, <1>7
  <2>2. begun[i] = NoObject
    <3>1. ~IsGroup(NoFile)
      BY DEF IsGroup, NoFile
    <3> QED  BY <1>6, <3>1 DEF FileInv, CloneInv, TypeOK
  <2>3. again[i] = NoObject
    <3>1. Filed(i)
      BY DEF FileInv
    <3>2. \A x \in SessionsOnFile : x # NoObject
      BY NotObjects DEF SessionsOnFile
    <3> QED  BY <2>2, <3>1, <3>2 DEF Filed
  <2>4. s \in SessionsOnFile /\ ("source" \in s.facets => ns = "source")
    BY <1>5 DEF SessionsOnFile
  <2> QED  BY <1>9, <2>1, <2>3, <2>4 DEF Filed
<1> QED  BY <1>8, <1>9

\* FileInv holds in every state.
THEOREM FileInvariance == Spec => []FileInv
<1>1. Init => FileInv
  <2> SUFFICES ASSUME Init PROVE FileInv
    OBVIOUS
  <2>1. CloneInv
    BY NotObjects DEF Init, CloneInv, TypeOK
  <2>2. \A i \in Ids : Filed(i)
    BY DEF Init, Filed
  <2> QED  BY <2>1, <2>2, NotObjects DEF Init, FileInv
<1>2. FileInv /\ CloneInv' /\ [Next]_vars => FileInv'
  <2> SUFFICES ASSUME FileInv, CloneInv', [Next]_vars
               PROVE  FileInv'
    OBVIOUS
  <2>1. TypeOK /\ CloneInv /\ \A i \in Ids : Filed(i)
    BY DEF FileInv, CloneInv
  <2>2. CASE LoadConfig
    <3> DEFINE c == LoadKeyfile("chroot", ChrootName, def)
    <3>1. IsGroup(def)
      BY <2>1, DefinitionAssumption DEF TypeOK
    <3>2. c # Refused => c \in SoundChroots /\ "source" \notin c.facets
      BY <3>1, ConstantValues, LoadKeyfileType, ChrootIsSound DEF SoundChroots
    <3>3. SourceChroots(c) \subseteq SoundChroots
      <4>1. CASE c = Refused
        BY <4>1, NotObjects DEF SourceChroots
      <4>2. CASE c # Refused
        <5>1. c \in Objects /\ Sound(c)
          BY <3>2, <4>2 DEF SoundChroots
        <5> HIDE DEF c
        <5>2. CloneSource(c) \in Objects /\ Sound(CloneSource(c))
          BY <5>1, CloneSourceType, SourceIsSound
        <5>3. SourceChroots(c) \subseteq {CloneSource(c)}
          BY DEF SourceChroots
        <5> QED  BY <5>2, <5>3 DEF SoundChroots
      <4> QED  BY <4>1, <4>2
    <3>4. /\ chroot' = c /\ sources' = SourceChroots(c)
          /\ UNCHANGED <<def, from, begun, file, again>>
      BY <2>2 DEF LoadConfig
    <3> HIDE DEF c
    <3>5. \A i \in Ids : Filed(i)'
      BY <2>1, <3>4, FiledStays
    <3>6. (Object(chroot) => chroot \in SoundChroots /\ "source" \notin chroot.facets)'
      BY <3>2, <3>4, NotObjects DEF Object
    <3> QED  BY <3>3, <3>4, <3>5, <3>6 DEF FileInv
  <2>3. ASSUME NEW i \in Ids, NEW u \in Users, Object(chroot),
               BeginSession("chroot", chroot, i, u)
        PROVE  FileInv'
    <3>1. chroot \in SoundChroots /\ MayBegin(chroot) /\ "source" \notin chroot.facets
      BY <2>1, <2>3 DEF FileInv, CloneInv
    <3>2. \A j \in Ids : Filed(j)'
      BY <2>3, <3>1, BeginFiles
    <3>3. chroot' = chroot /\ sources' = sources
      BY <2>3 DEF BeginSession
    <3> QED  BY <3>2, <3>3 DEF FileInv, Object
  <2>4. ASSUME NEW i \in Ids, NEW u \in Users, NEW o \in sources,
               BeginSession("source", o, i, u)
        PROVE  FileInv'
    <3>1. o \in SoundChroots /\ MayBegin(o)
      BY <2>1, <2>4 DEF FileInv, CloneInv
    <3>2. \A j \in Ids : Filed(j)'
      BY <2>4, <3>1, BeginFiles
    <3>3. chroot' = chroot /\ sources' = sources
      BY <2>4 DEF BeginSession
    <3> QED  BY <3>2, <3>3 DEF FileInv, Object
  <2>5. ASSUME NEW i \in Ids, ReloadSession(i) PROVE FileInv'
    <3> DEFINE a == LoadKeyfile("session", <<i>>, file[i])
    <3>1. PICK s \in SessionsOnFile :
            /\ begun[i] = s /\ file[i] = GetKeyfile(s)
            /\ "source" \in s.facets => from[i] = "source"
      <4>1. begun[i] # NoObject
        BY <2>1, <2>5 DEF ReloadSession, TypeOK
      <4> QED  BY <2>1, <4>1 DEF Filed
    <3>2. s \in Objects /\ Reloadable(s) /\ <<i>> \in Values
      BY StringAssumption DEF SessionsOnFile, Values
    <3>3. a \in Objects /\ IsSession(a)
      BY <3>1, <3>2, ReadBack
    <3>4. SourceChroots(a) = {}
      BY <3>3, SourceChrootsType
    <3>5. again' = [again EXCEPT ![i] = a] /\ UNCHANGED <<def, chroot, sources, from, begun, file>>
      BY <2>5, <3>4 DEF ReloadSession
    <3>6. a = LoadKeyfile("session", <<i>>, GetKeyfile(s))
      BY <3>1
    <3> HIDE DEF a
    <3>7. \A j \in Ids : again'[j] = IF j = i THEN a ELSE again[j]
      BY <2>1, <3>5 DEF TypeOK
    <3>8. ASSUME NEW j \in Ids PROVE Filed(j)'
      <4>1. CASE j = i
        BY <3>1, <3>5, <3>6, <3>7, <4>1 DEF Filed
      <4>2. CASE j # i
        BY <2>1, <3>5, <3>7, <4>2, FiledStays
      <4> QED  BY <4>1, <4>2
    <3> QED  BY <3>5, <3>8 DEF FileInv, Object
  <2>6. ASSUME NEW i \in Ids, EndSession(i) PROVE FileInv'
    <3>1. \A j \in Ids : /\ begun'[j] = IF j = i THEN NoObject ELSE begun[j]
                         /\ again'[j] = IF j = i THEN NoObject ELSE again[j]
                         /\ file'[j] = IF j = i THEN NoFile ELSE file[j]
                         /\ from'[j] = IF j = i THEN "none" ELSE from[j]
      BY <2>1, <2>6 DEF EndSession, TypeOK
    <3>2. chroot' = chroot /\ sources' = sources
      BY <2>6 DEF EndSession
    <3>3. ASSUME NEW j \in Ids PROVE Filed(j)'
      <4>1. CASE j = i
        BY <3>1, <4>1 DEF Filed
      <4>2. CASE j # i
        BY <2>1, <3>1, <4>2, FiledStays
      <4> QED  BY <4>1, <4>2
    <3> QED  BY <3>2, <3>3 DEF FileInv, Object
  <2>7. CASE UNCHANGED vars
    <3>1. \A j \in Ids : Filed(j)'
      BY <2>1, <2>7, FiledStays DEF vars
    <3> QED  BY <2>7, <3>1 DEF vars, FileInv, Object
  <2> QED  BY <2>2, <2>3, <2>4, <2>5, <2>6, <2>7 DEF Next
<1> QED  BY <1>1, <1>2, CloneInvariance, PTL DEF Spec

\* For any definition that is not refused, chroots of every type and any
\* sessions begun from them or from their source chroots: the session file is
\* never refused, and the session made of it gives the scripts the variables, and
\* the same users the right to enter, that the session had which was begun.
THEOREM ReloadsAreFaithful == Spec => []ReloadFaithful
<1>1. FileInv => ReloadFaithful
  <2> SUFFICES ASSUME FileInv, NEW i \in Ids, again[i] # NoObject
               PROVE  /\ Object(again[i])
                      /\ \A k \in Lists \cup {"name", "aliases"} : again[i].val[k] = begun[i].val[k]
                      /\ \A v \in (DOMAIN SetupEnv(again[i]) \cup DOMAIN SetupEnv(begun[i]))
                                    \ (CreationVariables \cup SourceVariables(i)) :
                           Variable(SetupEnv(again[i]), v) = Variable(SetupEnv(begun[i]), v)
    BY DEF ReloadFaithful
  <2>1. PICK s \in SessionsOnFile :
          /\ begun[i] = s
          /\ "source" \in s.facets => from[i] = "source"
          /\ again[i] = LoadKeyfile("session", <<i>>, GetKeyfile(s))
    BY DEF FileInv, Filed
  <2>2. s \in Objects /\ Reloadable(s) /\ <<i>> \in Values
    BY StringAssumption DEF SessionsOnFile, Values
  <2> DEFINE a == again[i]
  <2>3. a \in Objects /\ Alike(a, s) /\ "source" \notin a.facets
    BY <2>1, <2>2, ReadBack DEF Alike
  <2> HIDE DEF a
  <2>4. \A k \in Lists \cup {"name", "aliases"} : a.val[k] = s.val[k]
    BY <2>2, <2>3, AlikeMembers
  <2>5. Unknown(s) \ {"CHROOT_UNION_TYPE"} \subseteq CreationVariables \cup SourceVariables(i)
    BY <2>1 DEF Unknown, SourceVariables
  <2>6. \A v : v \notin CreationVariables \cup SourceVariables(i) =>
          Variable(SetupEnv(a), v) = Variable(SetupEnv(s), v)
    BY <2>2, <2>3, <2>5, SetupEnvAgrees
  <2> QED  BY <2>1, <2>3, <2>4, <2>6, NotObjects DEF a
<1> QED  BY <1>1, FileInvariance, PTL

-----------------------------------------------------------------------------
(***************************************************************************)
(* What is mounted, and whether it is the original.                        *)
(***************************************************************************)
\* The key of what a definition is about.
OriginalKeys == {"directory", "file", "device", "btrfs-source-subvolume", "zfs-dataset"}

OriginalKey(type) ==
    CASE type \in {"plain", "directory", "custom"} -> "directory"
      [] type \in {"file", "loopback"} -> "file"
      [] type \in {"block-device", "lvm-snapshot"} -> "device"
      [] type = "btrfs-snapshot" -> "btrfs-source-subvolume"
      [] type = "zfs-snapshot" -> "zfs-dataset"

\* A chroot made of a definition: it is about one thing, of which a snapshot has
\* another name, and has a source chroot if its sessions are copies.
Owns(c) ==
    /\ "source" \notin c.facets
    /\ \A k \in OriginalKeys \ {OriginalKey(c.type)} : c.val[k] = <<>>
    /\ c.type \notin {"plain", "custom"} => c.val[OriginalKey(c.type)] # <<>>
    /\ c.type \in {"lvm-snapshot", "btrfs-snapshot"} =>
         LET p == c.val[OriginalKey(c.type)] IN p[Len(p)] \notin Ids
    /\ c.type # "custom" =>
         ("source-clonable" \in c.facets <=> c.type \in CopyingTypes \/ UnionConfigured(c))
    /\ c.val["file-repack"] = False

\* Which keys of what it is about a chroot reads.
LEMMA OriginalKeysRead ==
    ASSUME NEW o \in Objects, ~IsSession(o), NEW kf, NEW k \in OriginalKeys \ {OriginalKey(o.type)}
    PROVE  k \notin KeysRead(o, kf)
<1>1. o.type \in Types
  BY DEF Objects
<1>2. ChrootReads(IsSession(o)).required \cup ChrootReads(IsSession(o)).optional
        = {"profile", "aliases"} \cup Lists
  BY DEF ChrootReads, Reads
<1>3. k \notin {"profile", "aliases"} \cup Lists
  BY DEF OriginalKeys, Lists
<1>4. \A f \in o.facets : k \notin FacetReads(o, f, kf).required \cup FacetReads(o, f, kf).optional
  BY DEF FacetReads, MountableReads, UnionReads, SourceClonableReads, SessionReads, Reads,
         SourceLists, SourceList, Lists, OriginalKeys
<1>5. k \notin TypeReads(o, kf).required \cup TypeReads(o, kf).optional
  <2>1. CASE o.type \in {"plain", "directory"}
    BY <2>1 DEF TypeReads, DirectoryReads, Reads, OriginalKeys, OriginalKey
  <2>2. CASE o.type \in {"file", "loopback"}
    BY <2>2 DEF TypeReads, FileReads, LoopbackReads, Reads, OriginalKeys, OriginalKey
  <2>3. CASE o.type \in {"block-device", "lvm-snapshot"}
    BY <2>3 DEF TypeReads, BlockDeviceReads, LvmReads, Reads, OriginalKeys, OriginalKey
  <2>4. CASE o.type \in {"btrfs-snapshot", "zfs-snapshot", "custom"}
    BY <2>4 DEF TypeReads, BtrfsReads, ZfsReads, CustomReads, Reads, OriginalKeys, OriginalKey
  <2> QED  BY <1>1, <2>1, <2>2, <2>3, <2>4 DEF Types
<1> QED  BY <1>2, <1>3, <1>4, <1>5, KeysReadIs

\* A chroot made of a definition is about what the definition says.
LEMMA ChrootOwns ==
    ASSUME NEW kf \in Definitions, LoadKeyfile("chroot", ChrootName, kf) # Refused
    PROVE  Owns(LoadKeyfile("chroot", ChrootName, kf))
<1> DEFINE T == kf["type"][1]
           t == Create(T, ChrootName)
           p == SetFacets(t, kf)
           c == SetValues(p, kf)
           V(k) == c.val[k]
<1>1. T \in Types /\ IsGroup(kf)
  BY DefinitionAssumption DEF IsGroup
<1>2. /\ t \in Objects /\ t.type = T /\ t.facets = InitialFacets(T)
      /\ t.val["union-type"] = None /\ t.val["file-repack"] = False
      /\ \A k \in OriginalKeys : t.val[k] = <<>>
  BY <1>1, CreateIs, CreateType, ConstantValues DEF OriginalKeys
<1>3. LoadKeyfile("chroot", ChrootName, kf) = SetKeyfile(t, kf)
  BY DEF LoadKeyfile, Template
<1>4. ~Rejected(t, kf) /\ LoadKeyfile("chroot", ChrootName, kf) = c
  BY <1>3 DEF SetKeyfile
<1>5. Sound(c) /\ "source" \notin c.facets
  BY <1>1, <1>4, ChrootIsSound
<1> HIDE DEF t, T
<1>6. ~IsSession(t)
  BY <1>1, <1>2, InitialIs DEF IsSession
<1>7. /\ p \in Objects /\ p.type = T /\ p.val = t.val /\ ~IsSession(p)
      /\ \A f \in {"mountable", "union"} : f \in p.facets <=> f \in t.facets
  BY <1>2, <1>6, SetFacetsIs DEF IsSession
<1>8. T # "custom" => ("source-clonable" \in p.facets <=>
        \/ T \in CopyingTypes
        \/ T \in UnionTypes /\ "union-type" \in DOMAIN kf /\ kf["union-type"] # None)
  <2>1. CASE "union" \in t.facets /\ "union-type" \in DOMAIN kf /\ T # "custom"
    <3>1. p = [t EXCEPT !.facets = IF kf["union-type"] # None THEN @ \cup {"source-clonable"}
                                                              ELSE @ \ {"source-clonable"}]
      BY <1>2, <2>1 DEF SetFacets
    <3>2. p.facets = IF kf["union-type"] # None THEN t.facets \cup {"source-clonable"}
                                                ELSE t.facets \ {"source-clonable"}
      BY <1>2, <3>1 DEF Objects
    <3>3. T \in UnionTypes /\ T \notin CopyingTypes
      BY <1>1, <1>2, <2>1, InitialIs DEF UnionTypes, CopyingTypes
    <3> QED  BY <2>1, <3>2, <3>3
  <2>2. CASE ~("union" \in t.facets /\ "union-type" \in DOMAIN kf) /\ T # "custom"
    <3>1. p = t
      BY <1>2, <2>2 DEF SetFacets
    <3> QED  BY <1>1, <1>2, <2>2, <3>1, InitialIs
  <2> QED  BY <2>1, <2>2
<1> HIDE DEF p
<1>9. c.type = T /\ c.facets = p.facets
  BY <1>7, SetValuesIs
<1>10. \A k \in Fields : /\ k \in KeysRead(p, kf) \cap DOMAIN kf => V(k) = kf[k]
                         /\ /\ k \notin KeysRead(p, kf) \cap DOMAIN kf
                            /\ k \notin {"directory", "mount-device", "selected-name"}
                            => V(k) = t.val[k]
  BY <1>7, SetValueIs
<1>11. T \notin {"plain", "directory"} /\ "directory" \notin KeysRead(p, kf)
         => V("directory") = t.val["directory"]
  BY <1>7, SetValueIs, FieldNames
<1>12. /\ TypeReads(t, kf).required \subseteq DOMAIN kf
       /\ TypeReads(t, kf).disallowed \cap DOMAIN kf = {}
  BY <1>4 DEF Rejected, AllReads
<1>13. TypeReads(p, kf) = TypeReads(t, kf)
  BY <1>2, <1>6, <1>7 DEF TypeReads
<1> HIDE DEF c, V
<1>14. OriginalKeys \subseteq Fields /\ {"union-type", "file-repack"} \subseteq Fields
  BY DEF OriginalKeys, Fields
<1>15. ASSUME NEW k \in OriginalKeys \ {OriginalKey(T)}
       PROVE  V(k) = <<>>
  <2>1. k \notin KeysRead(p, kf)
    BY <1>7, OriginalKeysRead
  <2>2. k = "directory" => T \notin {"plain", "directory"}
    BY DEF OriginalKey
  <2>3. k \notin {"mount-device", "selected-name"}
    BY DEF OriginalKeys
  <2> QED  BY <1>2, <1>10, <1>11, <1>14, <2>1, <2>2, <2>3
<1>16. ASSUME T \in {"lvm-snapshot", "btrfs-snapshot", "zfs-snapshot"}
       PROVE  OriginalKey(T) \in DOMAIN kf /\ V(OriginalKey(T)) = kf[OriginalKey(T)]
  <2>1. OriginalKey(T) \in TypeReads(t, kf).required /\ OriginalKey(T) \in OriginalKeys
    BY <1>2, <1>6, <1>16 DEF OriginalKey, OriginalKeys, TypeReads, LvmReads, BtrfsReads, ZfsReads, Reads
  <2>2. OriginalKey(T) \in KeysRead(p, kf)
    BY <1>13, <2>1, KeysReadIs
  <2> QED  BY <1>10, <1>12, <1>14, <2>1, <2>2
<1>17. T \notin {"plain", "custom"} => V(OriginalKey(T)) # <<>>
  <2>1. CASE T \in {"directory", "file", "loopback", "block-device", "lvm-snapshot", "btrfs-snapshot"}
    <3>1. is_absname(V(OriginalKey(T)))
      BY <1>5, <1>9, <2>1 DEF Sound, Placed, OriginalKey, V
    <3> QED  BY <3>1 DEF is_absname
  <2>2. CASE T = "zfs-snapshot"
    BY <1>16, <2>2, OriginalAssumption DEF OriginalKey
  <2> QED  BY <1>1, <2>1, <2>2 DEF Types
<1>18. T \in {"lvm-snapshot", "btrfs-snapshot"} =>
         V(OriginalKey(T))[Len(V(OriginalKey(T)))] \notin Ids
  <2>1. T \in {"lvm-snapshot", "btrfs-snapshot"} =>
          OriginalKey(T) \in {"device", "btrfs-source-subvolume"}
    BY DEF OriginalKey
  <2> QED  BY <1>16, <1>17, <2>1, OriginalAssumption
<1>19. V("union-type") = IF "union-type" \in KeysRead(p, kf) \cap DOMAIN kf
                           THEN kf["union-type"] ELSE None
  BY <1>2, <1>10, <1>14
<1>20. "union" \in p.facets => "union-type" \in KeysRead(p, kf)
  <2>1. "union-type" \in FacetReads(p, "union", kf).optional
    BY DEF FacetReads, UnionReads, Reads
  <2> QED  BY <2>1, KeysReadIs
<1>21. "union" \in p.facets <=> T \in UnionTypes
  BY <1>1, <1>2, <1>7, InitialIs
<1>22. T # "custom" =>
         ("source-clonable" \in p.facets <=>
            \/ T \in CopyingTypes
            \/ "union" \in p.facets /\ V("union-type") # None)
  BY <1>8, <1>19, <1>20, <1>21
<1>23. V("file-repack") = False
  <2>1. "file-repack" \notin KeysRead(p, kf) \cap DOMAIN kf
    <3>1. CASE T = "file"
      BY <1>2, <1>6, <1>12, <3>1 DEF TypeReads, FileReads, Reads
    <3>2. CASE T # "file"
      <4>1. "file-repack" \notin TypeReads(p, kf).required \cup TypeReads(p, kf).optional
        BY <1>1, <1>7, <3>2 DEF TypeReads, DirectoryReads, LoopbackReads,
             BlockDeviceReads, LvmReads, BtrfsReads, ZfsReads, CustomReads, Reads, Types
      <4>2. "file-repack" \notin ChrootReads(IsSession(p)).required \cup ChrootReads(IsSession(p)).optional
        BY DEF ChrootReads, Reads, Lists
      <4>3. \A f \in p.facets : "file-repack" \notin FacetReads(p, f, kf).required
                                                       \cup FacetReads(p, f, kf).optional
        BY DEF FacetReads, MountableReads, UnionReads, SourceClonableReads, SessionReads, Reads,
               SourceLists, SourceList, Lists
      <4> QED  BY <4>1, <4>2, <4>3, KeysReadIs
    <3> QED  BY <3>1, <3>2
  <2> QED  BY <1>2, <1>10, <1>14, <2>1
<1> QED  BY <1>4, <1>5, <1>9, <1>15, <1>17, <1>18, <1>22, <1>23 DEF Owns, UnionConfigured, V

\* What 10mount mounts, by the members of the session.
Mounted(o) ==
    CASE o.type = "directory" -> o.val["directory"]
      [] o.type = "file" -> <<"unpack">> \o o.val["name"]
      [] o.type = "loopback" -> o.val["file"]
      [] o.type = "btrfs-snapshot" -> o.val["btrfs-snapshot-name"]
      [] o.type = "zfs-snapshot" ->
           IF "source" \in o.facets THEN o.val["mount-device"] ELSE o.val["zfs-clone-name"]
      [] o.type \in {"block-device", "lvm-snapshot"} -> o.val["mount-device"]

\* MountSource reads these members from the environment.
LEMMA MountSourceIs ==
    ASSUME NEW o, o.type \in Types \ {"plain", "custom"},
           "mountable" \in o.facets <=> o.type \in MountableTypes
    PROVE  /\ MountSource(SetupEnv(o)) = Mounted(o)
           /\ o.type = "file" => SetupEnv(o)["CHROOT_FILE_REPACK"] = o.val["file-repack"]
<1> DEFINE C == ChrootEnv(o)
           T == TypeEnv(o)
           M == FacetEnv(o, "mountable")
           S == FacetEnv(o, "session")
           U == FacetEnv(o, "union")
           E == SetupEnv(o)
<1>1. \A e, f, v : /\ v \in DOMAIN Over(e, f) <=> v \in DOMAIN e \/ v \in DOMAIN f
                   /\ v \in DOMAIN e => Over(e, f)[v] = e[v]
                   /\ v \in DOMAIN f /\ v \notin DOMAIN e => Over(e, f)[v] = f[v]
  BY DEF Over
<1>2. /\ DOMAIN U \subseteq {"CHROOT_UNION_TYPE", "CHROOT_UNION_OVERLAY_DIRECTORY",
                             "CHROOT_UNION_UNDERLAY_DIRECTORY"}
      /\ DOMAIN S \subseteq {"CHROOT_NAME", "CHROOT_ALIAS"}
  BY DEF FacetEnv, UnionEnv, SessionEnv, NoFile
<1>3. /\ "mountable" \in o.facets =>
           /\ DOMAIN M = {"CHROOT_MOUNT_DEVICE", "CHROOT_LOCATION"}
           /\ M["CHROOT_MOUNT_DEVICE"] = o.val["mount-device"]
      /\ "mountable" \notin o.facets => DOMAIN M = {}
  BY DEF FacetEnv, MountableEnv, NoFile
<1>4. /\ {"CHROOT_TYPE", "SESSION_ID"} \subseteq DOMAIN C
      /\ C["CHROOT_TYPE"] = <<o.type>> /\ C["SESSION_ID"] = o.val["name"]
      /\ "CHROOT_ZFS_CLONE_NAME" \notin DOMAIN C
  BY DEF ChrootEnv
<1>5. {"CHROOT_TYPE", "SESSION_ID", "CHROOT_MOUNT_DEVICE"} \cap DOMAIN T = {}
  BY DEF TypeEnv, DirectoryEnv, FileEnv, LoopbackEnv, BlockDeviceEnv, LvmEnv, BtrfsEnv, ZfsEnv,
         NoFile, Types
<1>6. E = Over(U, Over(S, Over(M, Over(T, C))))
  BY DEF SetupEnv
<1> DEFINE Own == {"CHROOT_DIRECTORY", "CHROOT_FILE", "CHROOT_FILE_REPACK",
                   "CHROOT_BTRFS_SNAPSHOT_NAME", "CHROOT_ZFS_CLONE_NAME"}
<1>7. \A v \in Own : v \in DOMAIN T => E[v] = T[v] /\ v \in DOMAIN E
  <2> HIDE DEF C, T, M, S, U, E
  <2>1. ASSUME NEW v \in Own, v \in DOMAIN T
        PROVE  E[v] = T[v] /\ v \in DOMAIN E
    <3>1. v \notin DOMAIN U /\ v \notin DOMAIN S /\ v \notin DOMAIN M
      BY <1>2, <1>3
    <3>2. v \in DOMAIN Over(T, C) /\ Over(T, C)[v] = T[v]
      BY <1>1, <2>1
    <3>3. v \in DOMAIN Over(M, Over(T, C)) /\ Over(M, Over(T, C))[v] = T[v]
      BY <1>1, <3>1, <3>2
    <3>4. /\ v \in DOMAIN Over(S, Over(M, Over(T, C)))
          /\ Over(S, Over(M, Over(T, C)))[v] = T[v]
      BY <1>1, <3>1, <3>3
    <3> QED  BY <1>1, <1>6, <3>1, <3>4
  <2> QED  BY <2>1
<1>8. E["CHROOT_TYPE"] = <<o.type>> /\ E["SESSION_ID"] = o.val["name"]
  <2> HIDE DEF C, T, M, S, U, E
  <2>1. ASSUME NEW v \in {"CHROOT_TYPE", "SESSION_ID"}
        PROVE  E[v] = C[v]
    <3>1. v \notin DOMAIN U /\ v \notin DOMAIN S /\ v \notin DOMAIN M /\ v \notin DOMAIN T
      BY <1>2, <1>3, <1>5
    <3>2. v \in DOMAIN Over(T, C) /\ Over(T, C)[v] = C[v]
      BY <1>1, <1>4, <3>1
    <3>3. v \in DOMAIN Over(M, Over(T, C)) /\ Over(M, Over(T, C))[v] = C[v]
      BY <1>1, <3>1, <3>2
    <3>4. /\ v \in DOMAIN Over(S, Over(M, Over(T, C)))
          /\ Over(S, Over(M, Over(T, C)))[v] = C[v]
      BY <1>1, <3>1, <3>3
    <3> QED  BY <1>1, <1>6, <3>1, <3>4
  <2> QED  BY <1>4, <2>1
<1>9. "mountable" \in o.facets => E["CHROOT_MOUNT_DEVICE"] = o.val["mount-device"]
  <2> HIDE DEF C, T, M, S, U, E
  <2> DEFINE v == "CHROOT_MOUNT_DEVICE"
  <2>1. SUFFICES ASSUME "mountable" \in o.facets PROVE E[v] = M[v]
    BY <1>3
  <2>2. v \notin DOMAIN U /\ v \notin DOMAIN S /\ v \in DOMAIN M
    BY <1>2, <1>3, <2>1
  <2>3. v \in DOMAIN Over(M, Over(T, C)) /\ Over(M, Over(T, C))[v] = M[v]
    BY <1>1, <2>2
  <2>4. /\ v \in DOMAIN Over(S, Over(M, Over(T, C)))
        /\ Over(S, Over(M, Over(T, C)))[v] = M[v]
    BY <1>1, <2>2, <2>3
  <2> QED  BY <1>1, <1>6, <2>2, <2>4
<1>10. "CHROOT_ZFS_CLONE_NAME" \in DOMAIN E => "CHROOT_ZFS_CLONE_NAME" \in DOMAIN T
  <2> HIDE DEF C, T, M, S, U, E
  <2> DEFINE v == "CHROOT_ZFS_CLONE_NAME"
  <2>1. v \notin DOMAIN U /\ v \notin DOMAIN S /\ v \notin DOMAIN M
    BY <1>2, <1>3
  <2> QED  BY <1>1, <1>4, <1>6, <2>1
<1>11. <<o.type>>[1] = o.type
  OBVIOUS
<1> HIDE DEF E
<1>12. CASE o.type = "directory"
  <2>1. "CHROOT_DIRECTORY" \in DOMAIN T /\ T["CHROOT_DIRECTORY"] = o.val["directory"]
    BY <1>12 DEF TypeEnv, DirectoryEnv
  <2>2. E["CHROOT_DIRECTORY"] = o.val["directory"]
    BY <1>7, <2>1
  <2> QED  BY <1>8, <1>11, <1>12, <2>2 DEF MountSource, Mounted, E
<1>13. CASE o.type = "file"
  <2>1. "CHROOT_FILE_REPACK" \in DOMAIN T /\ T["CHROOT_FILE_REPACK"] = o.val["file-repack"]
    BY <1>13 DEF TypeEnv, FileEnv
  <2>2. E["CHROOT_FILE_REPACK"] = o.val["file-repack"]
    BY <1>7, <2>1
  <2> QED  BY <1>8, <1>11, <1>13, <2>2 DEF MountSource, Mounted, E
<1>14. CASE o.type = "loopback"
  <2>1. "CHROOT_FILE" \in DOMAIN T /\ T["CHROOT_FILE"] = o.val["file"]
    BY <1>14 DEF TypeEnv, LoopbackEnv
  <2>2. E["CHROOT_FILE"] = o.val["file"]
    BY <1>7, <2>1
  <2> QED  BY <1>8, <1>11, <1>14, <2>2 DEF MountSource, Mounted, E
<1>15. CASE o.type = "btrfs-snapshot"
  <2>1. /\ "CHROOT_BTRFS_SNAPSHOT_NAME" \in DOMAIN T
        /\ T["CHROOT_BTRFS_SNAPSHOT_NAME"] = o.val["btrfs-snapshot-name"]
    BY <1>15 DEF TypeEnv, BtrfsEnv
  <2>2. E["CHROOT_BTRFS_SNAPSHOT_NAME"] = o.val["btrfs-snapshot-name"]
    BY <1>7, <2>1
  <2> QED  BY <1>8, <1>11, <1>15, <2>2 DEF MountSource, Mounted, E
<1>16. CASE o.type = "zfs-snapshot"
  <2>1. T = ZfsEnv(o) /\ "mountable" \in o.facets
    BY <1>16 DEF TypeEnv, MountableTypes
  <2>2. CASE "source" \in o.facets
    <3>1. "CHROOT_ZFS_CLONE_NAME" \notin DOMAIN T
      BY <2>1, <2>2 DEF ZfsEnv
    <3>2. "CHROOT_ZFS_CLONE_NAME" \notin DOMAIN E
      BY <1>10, <3>1
    <3>3. MountSource(E) = E["CHROOT_MOUNT_DEVICE"]
      BY <1>8, <1>11, <1>16, <3>2 DEF MountSource
    <3> QED  BY <1>9, <1>16, <2>1, <2>2, <3>3 DEF Mounted, E
  <2>3. CASE "source" \notin o.facets
    <3>1. "CHROOT_ZFS_CLONE_NAME" \in DOMAIN T /\ T["CHROOT_ZFS_CLONE_NAME"] = o.val["zfs-clone-name"]
      BY <2>1, <2>3 DEF ZfsEnv
    <3>2. "CHROOT_ZFS_CLONE_NAME" \in DOMAIN E /\ E["CHROOT_ZFS_CLONE_NAME"] = o.val["zfs-clone-name"]
      BY <1>7, <3>1
    <3>3. MountSource(E) = E["CHROOT_ZFS_CLONE_NAME"]
      BY <1>8, <1>11, <1>16, <3>2 DEF MountSource
    <3> QED  BY <1>16, <2>3, <3>2, <3>3 DEF Mounted, E
  <2> QED  BY <2>2, <2>3
<1>17. CASE o.type \in {"block-device", "lvm-snapshot"}
  <2>1. "mountable" \in o.facets
    BY <1>17 DEF MountableTypes
  <2>2. MountSource(E) = E["CHROOT_MOUNT_DEVICE"]
    BY <1>8, <1>11, <1>17 DEF MountSource
  <2> QED  BY <1>9, <1>17, <2>1, <2>2 DEF Mounted, E
<1> QED  BY <1>12, <1>13, <1>14, <1>15, <1>16, <1>17 DEF Types

OriginalsOf(c) == {c.val[k] : k \in OriginalKeys} \ {<<>>}

\* Whether what is done in session o is done to the data of chroot c.
Writes(o, c) ==
    \/ Mounted(o) \in OriginalsOf(c) /\ ~UnionConfigured(o)
    \/ o.type = "file" /\ o.val["file-repack"] = True

\* A chroot is about one thing.
LEMMA OriginalsAre ==
    ASSUME NEW c, c.type \in Types \ {"plain", "custom"}, Owns(c)
    PROVE  OriginalsOf(c) = {c.val[OriginalKey(c.type)]}
<1>1. OriginalKey(c.type) \in OriginalKeys
  BY DEF OriginalKey, OriginalKeys, Types
<1>2. c.val[OriginalKey(c.type)] # <<>>
  BY DEF Owns
<1>3. \A k \in OriginalKeys : k = OriginalKey(c.type) \/ c.val[k] = <<>>
  BY DEF Owns
<1> QED  BY <1>1, <1>2, <1>3 DEF OriginalsOf

\* The names of snapshots differ from those of what they are snapshots of.
LEMMA NamesDiffer ==
    ASSUME NEW id \in Ids, NEW p \in Values, NEW q \in Values
    PROVE  /\ q[Len(q)] \notin Ids => Append(p, id) # q
           /\ p \o <<"schroot", id>> # p
           /\ is_absname(p) => <<"unpack">> \o <<id>> # p
<1>1. id \in Strings /\ p \in Seq(Strings) /\ q \in Seq(Strings) /\ {"schroot"} \subseteq Strings
  BY StringAssumption DEF Values
<1>2. Append(p, id)[Len(Append(p, id))] = id
  BY <1>1
<1>3. q[Len(q)] \notin Ids => Append(p, id) # q
  BY <1>2
<1>4. p \o <<"schroot", id>> # p
  <2>1. Len(p \o <<"schroot", id>>) = Len(p) + 2 /\ Len(p) \in Nat
    BY <1>1
  <2>2. Len(p) + 2 # Len(p)
    BY <2>1
  <2> QED  BY <2>1, <2>2
<1>5. is_absname(p) => <<"unpack">> \o <<id>> # p
  <2>1. (<<"unpack">> \o <<id>>)[1] = "unpack"
    OBVIOUS
  <2>2. "unpack" # "/"
    OBVIOUS
  <2> QED  BY <2>1, <2>2 DEF is_absname
<1> QED  BY <1>3, <1>4, <1>5

\* A session of a chroot changes the original unless the chroot has a source.
LEMMA ChrootSessionWrites ==
    ASSUME NEW c \in Objects, Sound(c), Owns(c), c.type \notin {"plain", "custom"},
           NEW id \in Ids, NEW alias \in Values, NEW user \in Values, NEW root
    PROVE  Writes(CloneSession(c, id, alias, user, root), c) <=> "source-clonable" \notin c.facets
<1> DEFINE s == CloneSession(c, id, alias, user, root)
           K == c.val[OriginalKey(c.type)]
<1>1. id \in Strings
  BY StringAssumption
<1>2. /\ s \in Objects /\ s.type = c.type
      /\ s.facets = (c.facets \ {"session-clonable", "source-clonable"}) \cup {"session"}
  BY <1>1, CloneSessionType
<1>3. /\ \A k \in {"directory", "file", "file-repack", "device", "union-type", "zfs-dataset"} :
           s.val[k] = c.val[k]
      /\ s.val["name"] = <<id>>
      /\ "mountable" \in c.facets => s.val["mount-device"] = MountDevice(c, id)
      /\ c.type = "zfs-snapshot" /\ c.val["zfs-dataset"] # <<>> =>
           s.val["zfs-clone-name"] = CloneName(c, id)
      /\ c.type = "btrfs-snapshot" /\ c.val["btrfs-snapshot-directory"] # <<>> =>
           s.val["btrfs-snapshot-name"] = Append(c.val["btrfs-snapshot-directory"], id)
  BY CloneSessionIs
<1> HIDE DEF s
<1>4. c.type \in Types \ {"plain", "custom"}
  BY DEF Objects
<1>5. OriginalsOf(c) = {K}
  BY <1>4, OriginalsAre
<1>6. UnionConfigured(s) <=> UnionConfigured(c)
  BY <1>2, <1>3 DEF UnionConfigured
<1>7. /\ "mountable" \in c.facets <=> c.type \in MountableTypes
      /\ "source" \notin s.facets
  BY <1>2 DEF Sound, Placed, Owns
<1>8. ~(s.type = "file" /\ s.val["file-repack"] = True)
  <2>1. False # True
    BY DEF True, False
  <2> QED  BY <1>3, <2>1 DEF Owns
<1>9. "source-clonable" \in c.facets <=> c.type \in CopyingTypes \/ UnionConfigured(c)
  BY DEF Owns
<1>10. K \in Values /\ c.val["btrfs-snapshot-directory"] \in Values /\ K # <<>>
  <2>1. OriginalKey(c.type) \in Fields /\ "btrfs-snapshot-directory" \in Fields
    BY <1>4, FieldNames DEF OriginalKey, Types
  <2> QED  BY <2>1 DEF Objects, Values, Owns
<1>11. Writes(s, c) <=> Mounted(s) = K /\ ~UnionConfigured(c)
  BY <1>5, <1>6, <1>8 DEF Writes
<1> HIDE DEF K
<1>12. CASE c.type \in {"directory", "loopback", "block-device"}
  <2>1. Mounted(s) = K
    <3>1. CASE c.type \in {"directory", "loopback"}
      BY <1>2, <1>3, <3>1 DEF Mounted, OriginalKey, K
    <3>2. CASE c.type = "block-device"
      BY <1>2, <1>3, <1>7, <3>2 DEF Mounted, OriginalKey, MountDevice, MountableTypes, K
    <3> QED  BY <1>12, <3>1, <3>2
  <2>2. c.type \notin CopyingTypes
    BY <1>12 DEF CopyingTypes
  <2> QED  BY <1>9, <1>11, <2>1, <2>2 DEF s
<1>13. CASE c.type \in CopyingTypes
  <2>1. Mounted(s) # K
    <3>1. CASE c.type = "file"
      <4>1. Mounted(s) = <<"unpack">> \o <<id>>
        BY <1>2, <1>3, <3>1 DEF Mounted
      <4>2. is_absname(K)
        BY <3>1 DEF Sound, Placed, OriginalKey, K
      <4> QED  BY <1>10, <4>1, <4>2, NamesDiffer
    <3>2. CASE c.type = "lvm-snapshot"
      <4>1. K = c.val["device"]
        BY <3>2 DEF OriginalKey, K
      <4>2. Mounted(s) = Append(Dirname(K), id)
        BY <1>2, <1>3, <1>7, <1>10, <3>2, <4>1
           DEF Mounted, MountDevice, SnapshotDevice, MountableTypes
      <4>3. K[Len(K)] \notin Ids
        BY <3>2 DEF Owns, K
      <4>4. Dirname(K) \in Values
        BY <1>1, <1>10, ValueTypes
      <4> QED  BY <1>10, <4>2, <4>3, <4>4, NamesDiffer
    <3>3. CASE c.type = "btrfs-snapshot"
      <4>1. c.val["btrfs-snapshot-directory"] # <<>>
        BY <3>3 DEF Sound, is_absname
      <4>2. Mounted(s) = Append(c.val["btrfs-snapshot-directory"], id)
        BY <1>2, <1>3, <3>3, <4>1 DEF Mounted
      <4>3. K[Len(K)] \notin Ids
        BY <3>3 DEF Owns, K
      <4> QED  BY <1>10, <4>2, <4>3, NamesDiffer
    <3>4. CASE c.type = "zfs-snapshot"
      <4>1. K = c.val["zfs-dataset"]
        BY <3>4 DEF OriginalKey, K
      <4>2. Mounted(s) = K \o <<"schroot", id>>
        BY <1>2, <1>3, <1>7, <1>10, <3>4, <4>1 DEF Mounted, CloneName
      <4> QED  BY <1>10, <4>2, NamesDiffer
    <3> QED  BY <1>13, <3>1, <3>2, <3>3, <3>4 DEF CopyingTypes
  <2> QED  BY <1>9, <1>11, <1>13, <2>1 DEF s
<1> QED  BY <1>4, <1>12, <1>13 DEF Types, CopyingTypes, s

\* A session of the source chroot changes the original; with the name of the
\* clone that a zfs-snapshot chroot would have had, it does not.
LEMMA SourceSessionWrites ==
    ASSUME NEW c \in Objects, Sound(c), Owns(c), c.type \notin {"plain", "custom"},
           NEW id \in Ids, NEW alias \in Values, NEW user \in Values, NEW root
    PROVE  LET s == CloneSession(CloneSource(c), id, alias, user, root) IN
           /\ Writes(s, c)
           /\ s.type = "zfs-snapshot" => s.val["zfs-clone-name"] \notin OriginalsOf(c)
<1> DEFINE x == CloneSource(c)
           s == CloneSession(x, id, alias, user, root)
           K == c.val[OriginalKey(c.type)]
<1>1. id \in Strings
  BY StringAssumption
<1>2. /\ x \in Objects /\ x.type = SourceType(c.type)
      /\ x.facets = (c.facets \ {"union", "source-clonable"}) \cup {"source"}
      /\ \A k \in {"file", "device", "zfs-dataset"} : x.val[k] = c.val[k]
      /\ x.val["directory"] = SourceDirectory(c) /\ x.val["file-repack"] = SourceRepack(c)
  BY CloneSourceType, CloneSourceIs, FieldNames DEF Lists
<1> HIDE DEF x
<1>3. /\ s \in Objects /\ s.type = x.type
      /\ s.facets = (x.facets \ {"session-clonable", "source-clonable"}) \cup {"session"}
  BY <1>1, <1>2, CloneSessionType
<1>4. /\ \A k \in {"directory", "file", "file-repack", "device", "zfs-dataset"} : s.val[k] = x.val[k]
      /\ "mountable" \in x.facets => s.val["mount-device"] = MountDevice(x, id)
      /\ x.type = "zfs-snapshot" /\ x.val["zfs-dataset"] # <<>> =>
           s.val["zfs-clone-name"] = CloneName(x, id)
  BY <1>2, CloneSessionIs
<1> HIDE DEF s
<1>5. c.type \in Types \ {"plain", "custom"}
  BY DEF Objects
<1>6. OriginalsOf(c) = {K}
  BY <1>5, OriginalsAre
<1>7. ~UnionConfigured(s) /\ "source" \in s.facets /\ "source" \in x.facets
  BY <1>2, <1>3 DEF UnionConfigured
<1>8. "mountable" \in x.facets <=> c.type \in MountableTypes
  BY <1>2 DEF Sound, Placed
<1>9. K \in Values /\ K # <<>>
  <2>1. OriginalKey(c.type) \in Fields
    BY <1>5, FieldNames DEF OriginalKey, Types
  <2> QED  BY <2>1 DEF Objects, Values, Owns
<1> HIDE DEF K
<1>10. CASE c.type = "file"
  <2>1. s.type = "file" /\ s.val["file-repack"] = True
    BY <1>2, <1>3, <1>4, <1>10 DEF SourceType, SourceRepack
  <2> QED  BY <2>1 DEF Writes, s, x
<1>11. CASE c.type \in {"directory", "btrfs-snapshot"}
  <2>1. s.type = "directory" /\ s.val["directory"] = K
    BY <1>2, <1>3, <1>4, <1>11 DEF SourceType, SourceDirectory, OriginalKey, K
  <2>2. Mounted(s) = K
    BY <2>1 DEF Mounted
  <2> QED  BY <1>6, <1>7, <2>1, <2>2 DEF Writes, s, x
<1>12. CASE c.type = "loopback"
  <2>1. s.type = "loopback" /\ s.val["file"] = K
    BY <1>2, <1>3, <1>4, <1>12 DEF SourceType, OriginalKey, K
  <2>2. Mounted(s) = K
    BY <2>1 DEF Mounted
  <2> QED  BY <1>6, <1>7, <2>1, <2>2 DEF Writes, s, x
<1>13. CASE c.type \in {"block-device", "lvm-snapshot"}
  <2>1. s.type = "block-device" /\ x.type = "block-device" /\ x.val["device"] = K
    BY <1>2, <1>3, <1>13 DEF SourceType, OriginalKey, K
  <2>2. s.val["mount-device"] = K
    BY <1>4, <1>8, <1>13, <2>1 DEF MountDevice, MountableTypes
  <2>3. Mounted(s) = K
    BY <2>1, <2>2 DEF Mounted
  <2> QED  BY <1>6, <1>7, <2>1, <2>3 DEF Writes, s, x
<1>14. CASE c.type = "zfs-snapshot"
  <2>1. s.type = "zfs-snapshot" /\ x.type = "zfs-snapshot" /\ x.val["zfs-dataset"] = K
    BY <1>2, <1>3, <1>14 DEF SourceType, OriginalKey, K
  <2>2. s.val["mount-device"] = K
    BY <1>4, <1>7, <1>8, <1>9, <1>14, <2>1 DEF MountDevice, MountableTypes
  <2>3. Mounted(s) = K
    BY <1>7, <2>1, <2>2 DEF Mounted
  <2>4. s.val["zfs-clone-name"] = K \o <<"schroot", id>>
    BY <1>4, <1>9, <2>1 DEF CloneName
  <2>5. s.val["zfs-clone-name"] # K
    BY <1>9, <2>4, NamesDiffer
  <2> QED  BY <1>6, <1>7, <2>1, <2>3, <2>5 DEF Writes, s, x
<1> QED  BY <1>5, <1>10, <1>11, <1>12, <1>13, <1>14 DEF Types

\* What another process mounts for a session, and whether with a union.
LEMMA AlikeMounted ==
    ASSUME NEW s \in Objects, Reloadable(s), s.type # "custom",
           NEW a, Alike(a, s), "source" \notin a.facets
    PROVE  /\ UnionConfigured(a) <=> UnionConfigured(s)
           /\ s.type = "file" => a.val["file-repack"] = s.val["file-repack"]
           /\ Mounted(a) = IF s.type = "zfs-snapshot" THEN s.val["zfs-clone-name"] ELSE Mounted(s)
<1>1. a.type = s.type /\ s.type \in Types \ {"plain", "custom"} /\ IsSession(s)
  BY DEF Alike, Reloadable
<1>2. /\ \A k \in TypeKeys(s) \cap Fields : a.val[k] = s.val[k]
      /\ a.val["name"] = s.val["name"]
      /\ "mountable" \in s.facets => a.val["mount-device"] = s.val["mount-device"]
      /\ "union" \in s.facets => a.val["union-type"] = s.val["union-type"]
  BY AlikeMembers
<1>3. UnionConfigured(a) <=> UnionConfigured(s)
  BY <1>2 DEF UnionConfigured, Alike
<1>4. {"directory", "file", "file-repack", "btrfs-snapshot-name", "zfs-clone-name"} \subseteq Fields
  BY DEF Fields
<1>5. CASE s.type = "directory"
  <2>1. a.val["directory"] = s.val["directory"]
    BY <1>2, <1>4, <1>5 DEF TypeKeys, DirectoryKeys
  <2> QED  BY <1>1, <1>3, <1>5, <2>1 DEF Mounted
<1>6. CASE s.type = "file"
  <2>1. a.val["file-repack"] = s.val["file-repack"]
    BY <1>1, <1>2, <1>4, <1>6 DEF TypeKeys, FileKeys
  <2> QED  BY <1>1, <1>2, <1>3, <1>6, <2>1 DEF Mounted
<1>7. CASE s.type = "loopback"
  <2>1. a.val["file"] = s.val["file"]
    BY <1>2, <1>4, <1>7 DEF TypeKeys, LoopbackKeys
  <2> QED  BY <1>1, <1>3, <1>7, <2>1 DEF Mounted
<1>8. CASE s.type = "btrfs-snapshot"
  <2>1. a.val["btrfs-snapshot-name"] = s.val["btrfs-snapshot-name"]
    BY <1>1, <1>2, <1>4, <1>8 DEF TypeKeys, BtrfsKeys
  <2> QED  BY <1>1, <1>3, <1>8, <2>1 DEF Mounted
<1>9. CASE s.type = "zfs-snapshot"
  <2>1. a.val["zfs-clone-name"] = s.val["zfs-clone-name"]
    BY <1>1, <1>2, <1>4, <1>9 DEF TypeKeys, ZfsKeys
  <2> QED  BY <1>1, <1>3, <1>9, <2>1 DEF Mounted
<1>10. CASE s.type \in {"block-device", "lvm-snapshot"}
  <2>1. a.val["mount-device"] = s.val["mount-device"]
    BY <1>2, <1>10 DEF Reloadable, Placed, MountableTypes
  <2> QED  BY <1>1, <1>3, <1>10, <2>1 DEF Mounted
<1> QED  BY <1>1, <1>5, <1>6, <1>7, <1>8, <1>9, <1>10 DEF Types

-----------------------------------------------------------------------------
(***************************************************************************)
(* The invariant for OnlySourceWritesOriginal.                             *)
(***************************************************************************)
OwningChroots == {c \in SoundChroots : Owns(c)}

FromChroot(s, c) ==
    /\ "source" \notin s.facets
    /\ s.type # "custom" => (Writes(s, c) <=> "source-clonable" \notin c.facets)

FromSource(s, c) ==
    /\ "source" \in s.facets
    /\ s.type # "custom" => Writes(s, c)
    /\ s.type = "zfs-snapshot" => s.val["zfs-clone-name"] \notin OriginalsOf(c)

\* Which of the two namespaces a session of chroot c was begun from shows in
\* what it mounts.
Traced(i, c) ==
    \/ begun[i] = NoObject
    \/ \E s \in SessionsOnFile :
         /\ begun[i] = s
         /\ \/ from[i] = "chroot" /\ FromChroot(s, c)
            \/ from[i] = "source" /\ FromSource(s, c)

OriginInv ==
    /\ FileInv
    /\ \/ ~Object(chroot) /\ sources = {} /\ \A i \in Ids : begun[i] = NoObject
       \/ \E c \in OwningChroots : /\ chroot = c /\ sources \subseteq {CloneSource(c)}
                                   /\ \A i \in Ids : Traced(i, c)

\* A session begun from chroot c or from its source.
LEMMA BeginTraces ==
    ASSUME OriginInv, NEW c \in OwningChroots, \A j \in Ids : Traced(j, c),
           NEW ns \in {"chroot", "source"}, NEW o,
           o = IF ns = "chroot" THEN c ELSE CloneSource(c), MayBegin(o),
           NEW i \in Ids, NEW u \in Users, BeginSession(ns, o, i, u), NEW j \in Ids
    PROVE  Traced(j, c)'
<1>1. PICK root \in RootChoices(o, u) :
         begun' = [begun EXCEPT ![i] = CloneSession(o, i, o.val["name"], <<u>>, root)]
  BY DEF BeginSession
<1> DEFINE s == CloneSession(o, i, o.val["name"], <<u>>, root)
<1>2. c \in Objects /\ Sound(c) /\ Owns(c)
  BY DEF OwningChroots, SoundChroots
<1>3. o \in Objects /\ Sound(o)
  BY <1>2, CloneSourceType, SourceIsSound
<1>4. i \in Strings /\ <<u>> \in Values /\ o.val["name"] \in Values
  BY <1>3, StringAssumption, FieldNames DEF Objects, Values
<1>5. o.type # "plain"
  BY CloningFlags DEF BeginSession, MayBegin
<1>6. /\ s \in Objects /\ Reloadable(s) /\ s.type = o.type
      /\ s.facets = (o.facets \ {"session-clonable", "source-clonable"}) \cup {"session"}
  BY <1>3, <1>4, <1>5, CloneSessionType, SessionIsReloadable
<1>7. CASE ns = "chroot"
  <2>1. o = c
    BY <1>7
  <2>2. "source" \notin s.facets
    BY <1>2, <1>6, <2>1 DEF Owns
  <2>3. s.type # "custom" => (Writes(s, c) <=> "source-clonable" \notin c.facets)
    BY <1>2, <1>4, <1>5, <1>6, <2>1, ChrootSessionWrites
  <2> QED  BY <1>1, <1>6, <1>7, <2>2, <2>3
           DEF Traced, FromChroot, SessionsOnFile, BeginSession, OriginInv, FileInv, CloneInv, TypeOK
<1>8. CASE ns = "source"
  <2>1. o = CloneSource(c)
    BY <1>8
  <2>2. "source" \in s.facets
    BY <1>2, <1>6, <2>1, CloneSourceType
  <2>3. /\ c.type # "plain"
        /\ c.type = "custom" => s.type = "custom"
    BY <1>2, <1>5, <1>6, <2>1, CloneSourceIs DEF SourceType
  <2>4. s.type # "custom" => /\ Writes(s, c)
                             /\ s.type = "zfs-snapshot" => s.val["zfs-clone-name"] \notin OriginalsOf(c)
    BY <1>2, <1>4, <2>1, <2>3, SourceSessionWrites
  <2> QED  BY <1>1, <1>6, <1>8, <2>2, <2>4
           DEF Traced, FromSource, SessionsOnFile, BeginSession, OriginInv, FileInv, CloneInv, TypeOK
<1> QED  BY <1>7, <1>8

\* A step that leaves a session alone.
LEMMA TracedStays ==
    ASSUME NEW i \in Ids, NEW c, Traced(i, c), begun'[i] = begun[i], from'[i] = from[i]
    PROVE  Traced(i, c)'
BY DEF Traced

\* OriginInv holds in every state.
THEOREM OriginInvariance == Spec => []OriginInv
<1>1. Init /\ FileInv => OriginInv
  BY NotObjects DEF Init, OriginInv
<1>2. OriginInv /\ FileInv' /\ [Next]_vars => OriginInv'
  <2> SUFFICES ASSUME OriginInv, FileInv', [Next]_vars
               PROVE  OriginInv'
    OBVIOUS
  <2> DEFINE Safe(c) == /\ chroot = c /\ sources \subseteq {CloneSource(c)}
                        /\ \A i \in Ids : Traced(i, c)
  <2>1. TypeOK /\ CloneInv /\ FileInv
    BY DEF OriginInv, FileInv, CloneInv
  <2>2. CASE LoadConfig
    <3> PICK d : d = LoadKeyfile("chroot", ChrootName, def)
      OBVIOUS
    <3>1. /\ chroot' = d /\ sources' = SourceChroots(d) /\ chroot = NoObject
          /\ UNCHANGED <<def, from, begun, file, again>>
      BY <2>2 DEF LoadConfig
    <3>2. \A i \in Ids : begun[i] = NoObject
      <4>1. \A c \in OwningChroots : c # NoObject
        BY NotObjects DEF OwningChroots, SoundChroots
      <4> QED  BY <3>1, <4>1 DEF OriginInv
    <3>3. def \in Definitions /\ IsGroup(def)
      BY <2>1, DefinitionAssumption DEF TypeOK
    <3>4. d # Refused => d \in OwningChroots
      BY <3>3, ConstantValues, LoadKeyfileType, ChrootIsSound, ChrootOwns
         DEF OwningChroots, SoundChroots
    <3>5. SourceChroots(d) \subseteq {CloneSource(d)} /\ (d = Refused => SourceChroots(d) = {})
      BY NotObjects DEF SourceChroots
    <3>6. CASE d = Refused
      BY <3>1, <3>2, <3>5, <3>6, NotObjects DEF OriginInv, Object
    <3>7. CASE d # Refused
      <4>1. \A i \in Ids : Traced(i, d)'
        BY <3>1, <3>2 DEF Traced
      <4> QED  BY <3>1, <3>4, <3>5, <3>7, <4>1 DEF OriginInv
    <3> QED  BY <3>6, <3>7
  <2>3. ASSUME NEW i \in Ids, NEW u \in Users, Object(chroot),
               BeginSession("chroot", chroot, i, u)
        PROVE  OriginInv'
    <3>1. PICK c \in OwningChroots : Safe(c)
      BY <2>3 DEF OriginInv
    <3>2. MayBegin(c) /\ BeginSession("chroot", c, i, u)
      BY <2>1, <2>3, <3>1 DEF CloneInv
    <3>3. \A j \in Ids : Traced(j, c)'
      BY <3>1, <3>2, BeginTraces
    <3>4. chroot' = c /\ sources' = sources
      BY <3>1, <3>2 DEF BeginSession
    <3> QED  BY <3>1, <3>3, <3>4 DEF OriginInv
  <2>4. ASSUME NEW i \in Ids, NEW u \in Users, NEW o \in sources,
               BeginSession("source", o, i, u)
        PROVE  OriginInv'
    <3>1. PICK c \in OwningChroots : Safe(c)
      BY <2>4 DEF OriginInv
    <3>2. MayBegin(o) /\ o = CloneSource(c)
      BY <2>1, <2>4, <3>1 DEF CloneInv
    <3>3. \A j \in Ids : Traced(j, c)'
      BY <2>4, <3>1, <3>2, BeginTraces
    <3>4. chroot' = c /\ sources' = sources
      BY <2>4, <3>1 DEF BeginSession
    <3> QED  BY <3>1, <3>3, <3>4 DEF OriginInv
  <2>5. ASSUME NEW i \in Ids, ReloadSession(i) PROVE OriginInv'
    <3>1. UNCHANGED <<def, chroot, from, begun, file>>
      BY <2>5 DEF ReloadSession
    <3>2. sources' = sources
      <4>1. LET s == LoadKeyfile("session", <<i>>, file[i]) IN
            s # Refused => s \in Objects /\ IsSession(s)
        <5>1. begun[i] # NoObject
          BY <2>1, <2>5 DEF ReloadSession, TypeOK
        <5>2. IsGroup(file[i]) /\ file[i]["type"][1] # "plain"
          BY <2>1, <5>1 DEF TypeOK, CloneInv
        <5>3. <<i>> \in Values
          BY StringAssumption DEF Values
        <5> QED  BY <5>2, <5>3, LoadKeyfileType
      <4>2. SourceChroots(LoadKeyfile("session", <<i>>, file[i])) = {}
        BY <4>1, SourceChrootsType, NotObjects DEF SourceChroots
      <4> QED  BY <2>5, <4>2 DEF ReloadSession
    <3>3. ASSUME NEW c \in OwningChroots, Safe(c) PROVE OriginInv'
      <4>1. \A j \in Ids : Traced(j, c)'
        BY <3>1, <3>3, TracedStays
      <4> QED  BY <3>1, <3>2, <3>3, <4>1 DEF OriginInv
    <3> QED  BY <3>1, <3>2, <3>3 DEF OriginInv, Object
  <2>6. ASSUME NEW i \in Ids, EndSession(i) PROVE OriginInv'
    <3>1. \A j \in Ids : /\ begun'[j] = IF j = i THEN NoObject ELSE begun[j]
                         /\ from'[j] = IF j = i THEN "none" ELSE from[j]
      BY <2>1, <2>6 DEF EndSession, TypeOK
    <3>2. chroot' = chroot /\ sources' = sources
      BY <2>6 DEF EndSession
    <3>3. ASSUME NEW c \in OwningChroots, Safe(c) PROVE OriginInv'
      <4>1. ASSUME NEW j \in Ids PROVE Traced(j, c)'
        <5>1. CASE j = i
          BY <3>1, <5>1 DEF Traced
        <5>2. CASE j # i
          BY <3>1, <3>3, <5>2, TracedStays
        <5> QED  BY <5>1, <5>2
      <4> QED  BY <3>2, <3>3, <4>1 DEF OriginInv
    <3>4. (\A j \in Ids : begun[j] = NoObject) => \A j \in Ids : begun'[j] = NoObject
      BY <3>1
    <3> QED  BY <3>2, <3>3, <3>4 DEF OriginInv, Object
  <2>7. CASE UNCHANGED vars
    <3>1. ASSUME NEW c \in OwningChroots, Safe(c) PROVE OriginInv'
      <4>1. \A j \in Ids : Traced(j, c)'
        BY <2>7, <3>1, TracedStays DEF vars
      <4> QED  BY <2>7, <3>1, <4>1 DEF OriginInv, vars
    <3> QED  BY <2>7, <3>1 DEF OriginInv, Object, vars
  <2> QED  BY <2>2, <2>3, <2>4, <2>5, <2>6, <2>7 DEF Next
<1> QED  BY <1>1, <1>2, FileInvariance, PTL DEF Spec

\* For any definitions and sessions in which no session has the name of what it
\* is a snapshot of: a session changes the data of the original chroot if and
\* only if it was begun from the source chroot or the chroot has none, whichever
\* process runs the scripts; with the one exception of a zfs source session.
THEOREM OriginalsAreProtected == Spec => []OnlySourceWritesOriginal
<1>1. OriginInv => OnlySourceWritesOriginal
  <2> SUFFICES ASSUME OriginInv, NEW i \in Ids, NEW o \in SessionObjects(i), o.type # "custom"
               PROVE  LET original == from[i] = "source" \/ "clone" \notin SessionFlags(chroot)
                      IN IF o.type = "zfs-snapshot" /\ from[i] = "source" /\ "source" \notin o.facets
                           THEN ~WritesOriginal(o) ELSE WritesOriginal(o) <=> original
    BY DEF OnlySourceWritesOriginal
  <2>1. FileInv /\ CloneInv /\ Filed(i)
    BY DEF OriginInv, FileInv
  <2>2. begun[i] # NoObject
    <3>1. begun[i] # NoObject \/ again[i] # NoObject
      BY DEF SessionObjects
    <3> QED  BY <2>1, <3>1, NotObjects DEF Filed, SessionsOnFile
  <2>3. PICK c \in OwningChroots : chroot = c /\ Traced(i, c)
    BY <2>2 DEF OriginInv
  <2>4. c \in Objects /\ Sound(c) /\ Owns(c) /\ ~IsSession(c)
    BY DEF OwningChroots, SoundChroots, Sound
  <2>5. PICK s \in SessionsOnFile :
          /\ begun[i] = s
          /\ \/ from[i] = "chroot" /\ FromChroot(s, c)
             \/ from[i] = "source" /\ FromSource(s, c)
    BY <2>2, <2>3 DEF Traced
  <2>6. s \in Objects /\ Reloadable(s) /\ <<i>> \in Values
    BY StringAssumption DEF SessionsOnFile, Values
  <2>7. o = s \/ o = LoadKeyfile("session", <<i>>, GetKeyfile(s))
    BY <2>1, <2>2, <2>5 DEF SessionObjects, Filed
  <2>8. "clone" \in SessionFlags(chroot) <=> "source-clonable" \in c.facets
    <3>1. "clone" \in FacetFlags(c, "source-clonable")
      BY <2>4 DEF FacetFlags, SourceClonableFlags
    <3> QED  BY <2>3, <3>1, CloningFlags DEF SessionFlags
  <2>9. Originals = OriginalsOf(c)
    BY <2>3 DEF Originals, OriginalsOf, OriginalKeys
  <2>10. o.type = s.type /\ ("mountable" \in o.facets <=> "mountable" \in s.facets)
    BY <2>6, <2>7, ReadBack
  <2>11. /\ o.type \in Types \ {"plain", "custom"}
         /\ "mountable" \in o.facets <=> o.type \in MountableTypes
    BY <2>6, <2>10 DEF Reloadable, Placed
  <2>12. WritesOriginal(o) <=> Writes(o, c)
    <3>1. /\ MountSource(SetupEnv(o)) = Mounted(o)
          /\ o.type = "file" => SetupEnv(o)["CHROOT_FILE_REPACK"] = o.val["file-repack"]
      BY <2>11, MountSourceIs
    <3> QED  BY <2>9, <3>1 DEF WritesOriginal, Writes
  <2>13. CASE o = s
    BY <2>5, <2>8, <2>11, <2>12, <2>13 DEF FromChroot, FromSource
  <2>14. CASE o = LoadKeyfile("session", <<i>>, GetKeyfile(s))
    <3>1. Alike(o, s) /\ "source" \notin o.facets
      BY <2>6, <2>14, ReadBack DEF Alike
    <3>2. /\ UnionConfigured(o) <=> UnionConfigured(s)
          /\ s.type = "file" => o.val["file-repack"] = s.val["file-repack"]
          /\ Mounted(o) = IF s.type = "zfs-snapshot" THEN s.val["zfs-clone-name"] ELSE Mounted(s)
      BY <2>6, <2>10, <3>1, AlikeMounted
    <3>3. CASE s.type = "zfs-snapshot" /\ "source" \in s.facets
      <4>1. from[i] = "source" /\ s.val["zfs-clone-name"] \notin OriginalsOf(c)
        BY <2>5, <3>3 DEF FromChroot, FromSource
      <4>2. ~Writes(o, c)
        BY <2>10, <3>2, <3>3, <4>1 DEF Writes
      <4> QED  BY <2>10, <2>12, <3>1, <3>3, <4>1, <4>2
    <3>4. CASE ~(s.type = "zfs-snapshot" /\ "source" \in s.facets)
      <4>1. Mounted(o) = Mounted(s)
        BY <3>2, <3>4 DEF Mounted
      <4>2. Writes(o, c) <=> Writes(s, c)
        BY <2>10, <3>2, <4>1 DEF Writes
      <4> QED  BY <2>5, <2>8, <2>10, <2>11, <2>12, <3>4, <4>2 DEF FromChroot, FromSource
    <3> QED  BY <3>3, <3>4
  <2> QED  BY <2>7, <2>13, <2>14
<1> QED  BY <1>1, OriginInvariance, PTL

=============================================================================
