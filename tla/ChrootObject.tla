---------------------------- MODULE ChrootObject ----------------------------
(***************************************************************************)
(* The chroot objects: what a definition of each type becomes, the session *)
(* and source chroots cloned from it, the session file written for a       *)
(* session, and the object another process makes of that file.  An object  *)
(* is its type, its facets and the values of its members, named by the     *)
(* keys they have in a file; paths, names and lists are sequences of       *)
(* strings, the empty string is <<>>, and an absolute path has "/" first.  *)
(***************************************************************************)
EXTENDS Naturals, Sequences

CONSTANTS
    Strings,      \* what values are made of
    Ids,          \* the session names
    Users,        \* who begins sessions
    Definitions   \* the groups a configuration file may hold: key -> value

None == <<"none">>
True == <<"true">>
False == <<"false">>

Lists == {"users", "root-users", "groups", "root-groups"}
SourceList(k) == CASE k = "users" -> "source-users"
                   [] k = "root-users" -> "source-root-users"
                   [] k = "groups" -> "source-groups"
                   [] k = "root-groups" -> "source-root-groups"
SourceLists == {SourceList(k) : k \in Lists}

\* The members, by key.  "profile" stands for the keys that every chroot
\* writes and reads back without condition (environment-filter, shell,
\* command-prefix, message-verbosity, mount-options, personality and such).
Fields ==
    {"name", "mount-location", "aliases", "profile", "directory", "file",
     "location", "file-repack", "device", "mount-device", "union-type",
     "union-overlay-directory", "union-underlay-directory",
     "lvm-snapshot-device", "lvm-snapshot-options", "btrfs-source-subvolume",
     "btrfs-snapshot-directory", "btrfs-snapshot-name", "zfs-dataset",
     "zfs-snapshot-name", "zfs-clone-name", "zfs-snapshot-options",
     "custom-session-purgeable", "source-clone", "original-name",
     "selected-name"} \cup Lists \cup SourceLists

\* Keys with no member of their own.
OtherKeys == {"type", "zfs-dataset-name", "custom-session-cloneable",
              "custom-source-cloneable"}

Types == {"plain", "directory", "custom", "file", "block-device", "loopback",
          "lvm-snapshot", "btrfs-snapshot", "zfs-snapshot"}
Facets == {"personality", "userdata", "session-clonable", "source-clonable",
           "session", "source", "mountable", "union"}

\* A group of a key file that names its type.
IsGroup(kf) ==
    /\ DOMAIN kf \subseteq Fields \cup OtherKeys
    /\ kf \in [DOMAIN kf -> Seq(Strings)]
    /\ "type" \in DOMAIN kf /\ kf["type"][1] \in Types

\* The strings the code itself puts into values.
ASSUME StringAssumption ==
    /\ Types \cup Ids \cup Users \subseteq Strings
    /\ {"none", "true", "false", "default", "overlay", "underlay", "mount", "schroot",
        "@", "/", "chroot", "dummy-session-name"} \subseteq Strings

ASSUME DefinitionAssumption == \A d \in Definitions : IsGroup(d)

\* What the code leaves to the administrator and to lvcreate and btrfs: no
\* session has the name of the device or subvolume it is a snapshot of, and the
\* dataset of a zfs-snapshot chroot is named.
ASSUME OriginalAssumption ==
    \A d \in Definitions :
        /\ \A k \in {"device", "btrfs-source-subvolume"} \cap DOMAIN d :
             d[k] # <<>> => d[k][Len(d[k])] \notin Ids
        /\ "zfs-dataset" \in DOMAIN d => d["zfs-dataset"] # <<>>

NoObject == [type |-> "none"]
Refused  == [type |-> "refused"]
NoFile   == [k \in {} |-> <<>>]
Object(x) == x.type \in Types

VARIABLES
    def,       \* the definition in the configuration file
    chroot,    \* the chroot made of it; NoObject before, Refused if loading failed
    sources,   \* the chroots in the source namespace
    from,      \* id -> namespace of the chroot the session was begun from
    begun,     \* id -> the session object of the process that began it
    file,      \* id -> the session file
    again      \* id -> the object a later process made of the file

vars == <<def, chroot, sources, from, begun, file, again>>

IsSession(o) == "session" \in o.facets
UnionConfigured(o) == "union" \in o.facets /\ o.val["union-type"] # None
-----------------------------------------------------------------------------
(***************************************************************************)
(* chroot::create and the constructors.                                    *)
(***************************************************************************)
BaseFacets == {"personality", "session-clonable", "userdata"}

\* What the constructor of each type makes of them.
PlainFacets == BaseFacets \ {"session-clonable"}
DirectoryFacets == BaseFacets \cup {"union"}
FileFacets == BaseFacets \cup {"source-clonable"}
LoopbackFacets == BaseFacets \cup {"mountable", "union"}
BlockDeviceBaseFacets == BaseFacets \cup {"mountable"}
BlockDeviceFacets == BlockDeviceBaseFacets \cup {"union"}
LvmFacets == BlockDeviceBaseFacets \cup {"source-clonable"}
BtrfsFacets == BaseFacets \cup {"source-clonable"}
ZfsFacets == BaseFacets \cup {"source-clonable", "mountable"}

InitialFacets(type) ==
    CASE type = "plain" -> PlainFacets
      [] type = "directory" -> DirectoryFacets
      [] type = "file" -> FileFacets
      [] type = "loopback" -> LoopbackFacets
      [] type = "block-device" -> BlockDeviceFacets
      [] type = "lvm-snapshot" -> LvmFacets
      [] type = "btrfs-snapshot" -> BtrfsFacets
      [] type = "zfs-snapshot" -> ZfsFacets
      [] type = "custom" -> BaseFacets

Create(type, name) ==
    [type |-> type, facets |-> InitialFacets(type), original |-> TRUE,
     parentSource |-> FALSE,
     val |-> [k \in Fields |->
                CASE k = "name" -> name
                  [] k = "profile" -> <<"default">>
                  [] k = "union-type" -> None
                  [] k = "union-overlay-directory" -> <<"/", "overlay">>
                  [] k = "union-underlay-directory" -> <<"/", "underlay">>
                  [] k \in {"file-repack", "custom-session-purgeable"} -> False
                  [] k = "source-clone" -> True
                  [] OTHER -> <<>>]]

\* The copy constructors.  That of chroot_custom does not copy purgeable.
Copy(o) == IF o.type = "custom"
             THEN [o EXCEPT !.val["custom-session-purgeable"] = False] ELSE o

(***************************************************************************)
(* get_session_flags: of the types ...                                     *)
(***************************************************************************)
\* file, lvm-snapshot, btrfs-snapshot and zfs-snapshot.
SnapshotFlags(o) == IF IsSession(o) THEN {"purge"} ELSE {}

CustomFlags(o) ==
    IF IsSession(o) /\ o.val["custom-session-purgeable"] = True THEN {"purge"} ELSE {}

TypeFlags(o) ==
    CASE o.type \in {"file", "lvm-snapshot", "btrfs-snapshot", "zfs-snapshot"} -> SnapshotFlags(o)
      [] o.type = "custom" -> CustomFlags(o)
      [] OTHER -> {}

\* ... and of the facets.
UnionFlags(o) == IF UnionConfigured(o) /\ IsSession(o) THEN {"purge"} ELSE {}
SourceClonableFlags(o) == IF IsSession(o) THEN {} ELSE {"clone"}
SessionFacetFlags(o) == IF o.parentSource THEN {"source"} ELSE {}

FacetFlags(o, f) ==
    CASE f = "session-clonable" -> {"create"}
      [] f = "source-clonable" -> SourceClonableFlags(o)
      [] f = "union" -> UnionFlags(o)
      [] f = "session" -> SessionFacetFlags(o)
      [] OTHER -> {}

SessionFlags(o) == TypeFlags(o) \cup UNION {FacetFlags(o, f) : f \in o.facets}
-----------------------------------------------------------------------------
(***************************************************************************)
(* setup_env: the variables of the setup scripts.                          *)
(***************************************************************************)
GetPath(o) ==
    CASE o.type = "plain" -> o.val["directory"]
      [] o.type \in {"directory", "btrfs-snapshot", "custom"} -> o.val["mount-location"]
      [] OTHER -> o.val["mount-location"] \o o.val["location"]

\* environment::add of a Boolean, with std::boolalpha.
Flag(o, f) == IF f \in SessionFlags(o) THEN True ELSE False

\* The base class.
ChrootEnv(o) ==
    [CHROOT_TYPE |-> <<o.type>>, CHROOT_NAME |-> o.val["name"],
     SESSION_ID |-> o.val["name"], CHROOT_MOUNT_LOCATION |-> o.val["mount-location"],
     CHROOT_PATH |-> GetPath(o), CHROOT_PROFILE |-> o.val["profile"],
     CHROOT_SESSION_CREATE |-> Flag(o, "create"), CHROOT_SESSION_CLONE |-> Flag(o, "clone"),
     CHROOT_SESSION_PURGE |-> Flag(o, "purge"), CHROOT_SESSION_SOURCE |-> Flag(o, "source")]

\* The types, one operator for each setup_env.
DirectoryEnv(o) == [CHROOT_DIRECTORY |-> o.val["directory"]]
FileEnv(o) == [CHROOT_FILE |-> o.val["file"], CHROOT_LOCATION |-> o.val["location"],
               CHROOT_FILE_REPACK |-> o.val["file-repack"]]
LoopbackEnv(o) == [CHROOT_FILE |-> o.val["file"]]
BlockDeviceEnv(o) == [CHROOT_DEVICE |-> o.val["device"]]
LvmEnv(o) == [CHROOT_DEVICE |-> o.val["device"],
              CHROOT_LVM_SNAPSHOT_DEVICE |-> o.val["lvm-snapshot-device"],
              CHROOT_LVM_SNAPSHOT_OPTIONS |-> o.val["lvm-snapshot-options"]]
BtrfsEnv(o) == [CHROOT_BTRFS_SOURCE_SUBVOLUME |-> o.val["btrfs-source-subvolume"],
                CHROOT_BTRFS_SNAPSHOT_DIRECTORY |-> o.val["btrfs-snapshot-directory"],
                CHROOT_BTRFS_SNAPSHOT_NAME |-> o.val["btrfs-snapshot-name"]]

\* "if this is a source chroot, avoid configuring snapshotting."
ZfsEnv(o) ==
    [v \in {"CHROOT_ZFS_DATASET"}
           \cup (IF "source" \in o.facets THEN {}
                 ELSE {"CHROOT_ZFS_SNAPSHOT_NAME", "CHROOT_ZFS_CLONE_NAME",
                       "CHROOT_ZFS_SNAPSHOT_OPTIONS"}) |->
        CASE v = "CHROOT_ZFS_DATASET" -> o.val["zfs-dataset"]
          [] v = "CHROOT_ZFS_SNAPSHOT_NAME" -> o.val["zfs-snapshot-name"]
          [] v = "CHROOT_ZFS_CLONE_NAME" -> o.val["zfs-clone-name"]
          [] v = "CHROOT_ZFS_SNAPSHOT_OPTIONS" -> o.val["zfs-snapshot-options"]]

TypeEnv(o) ==
    CASE o.type \in {"plain", "directory"} -> DirectoryEnv(o)
      [] o.type = "file" -> FileEnv(o)
      [] o.type = "loopback" -> LoopbackEnv(o)
      [] o.type = "block-device" -> BlockDeviceEnv(o)
      [] o.type = "lvm-snapshot" -> LvmEnv(o)
      [] o.type = "btrfs-snapshot" -> BtrfsEnv(o)
      [] o.type = "zfs-snapshot" -> ZfsEnv(o)
      [] o.type = "custom" -> NoFile

\* The facets.  The session facet replaces the name.
MountableEnv(o) == [CHROOT_MOUNT_DEVICE |-> o.val["mount-device"],
                    CHROOT_LOCATION |-> o.val["location"]]
UnionEnv(o) ==
    IF UnionConfigured(o)
      THEN [CHROOT_UNION_TYPE |-> o.val["union-type"],
            CHROOT_UNION_OVERLAY_DIRECTORY |-> o.val["union-overlay-directory"],
            CHROOT_UNION_UNDERLAY_DIRECTORY |-> o.val["union-underlay-directory"]]
      ELSE [CHROOT_UNION_TYPE |-> o.val["union-type"]]
SessionEnv(o) ==
    LET key(v) == IF v = "CHROOT_NAME" THEN "original-name" ELSE "selected-name"
    IN [v \in {w \in {"CHROOT_NAME", "CHROOT_ALIAS"} : o.val[key(w)] # <<>>} |-> o.val[key(v)]]

FacetEnv(o, f) ==
    IF f \notin o.facets THEN NoFile
    ELSE CASE f = "mountable" -> MountableEnv(o)
           [] f = "union" -> UnionEnv(o)
           [] f = "session" -> SessionEnv(o)

\* What is added later replaces what is there.
Over(later, sooner) ==
    [v \in DOMAIN later \cup DOMAIN sooner |->
       IF v \in DOMAIN later THEN later[v] ELSE sooner[v]]

\* The base class, the type, then the facets, of which no two set the same
\* variable.
SetupEnv(o) ==
    Over(FacetEnv(o, "union"),
         Over(FacetEnv(o, "session"),
              Over(FacetEnv(o, "mountable"), Over(TypeEnv(o), ChrootEnv(o)))))

\* A variable as the scripts see it, "${CHROOT_UNION_TYPE:-none}" among them.
Variable(env, v) == IF v \in DOMAIN env THEN env[v]
                    ELSE IF v = "CHROOT_UNION_TYPE" THEN None ELSE <<>>

\* What 10mount mounts, given these variables.
MountSource(env) ==
    LET type == env["CHROOT_TYPE"][1] IN
    CASE type = "directory" -> env["CHROOT_DIRECTORY"]
      [] type = "file" -> <<"unpack">> \o env["SESSION_ID"]
      [] type = "btrfs-snapshot" -> env["CHROOT_BTRFS_SNAPSHOT_NAME"]
      [] type = "loopback" -> env["CHROOT_FILE"]
      [] type = "zfs-snapshot" /\ "CHROOT_ZFS_CLONE_NAME" \in DOMAIN env ->
           env["CHROOT_ZFS_CLONE_NAME"]
      [] OTHER -> env["CHROOT_MOUNT_DEVICE"]
-----------------------------------------------------------------------------
(***************************************************************************)
(* get_keyfile: the keys an object writes.                                 *)
(***************************************************************************)
\* The types, one operator for each get_keyfile.
DirectoryKeys == {"directory"}
FileKeys(session) == {"file", "location"} \cup (IF session THEN {"file-repack"} ELSE {})
LoopbackKeys == {"file"}
BlockDeviceKeys == {"device"}
CustomKeys == {"custom-session-purgeable"}

LvmKeys(session) ==
    {"device", IF session THEN "lvm-snapshot-device" ELSE "lvm-snapshot-options"}

BtrfsKeys(session) ==
    IF session THEN {"btrfs-snapshot-name"}
               ELSE {"btrfs-source-subvolume", "btrfs-snapshot-directory"}

ZfsKeys(session) ==
    IF session THEN {"zfs-snapshot-name", "zfs-clone-name"}
               ELSE {"zfs-dataset-name", "zfs-snapshot-options"}

TypeKeys(o) ==
    CASE o.type \in {"plain", "directory"} -> DirectoryKeys
      [] o.type = "file" -> FileKeys(IsSession(o))
      [] o.type = "loopback" -> LoopbackKeys
      [] o.type = "block-device" -> BlockDeviceKeys
      [] o.type = "lvm-snapshot" -> LvmKeys(IsSession(o))
      [] o.type = "btrfs-snapshot" -> BtrfsKeys(IsSession(o))
      [] o.type = "zfs-snapshot" -> ZfsKeys(IsSession(o))
      [] o.type = "custom" -> CustomKeys

\* The facets.
MountableKeys(session) == {"location"} \cup (IF session THEN {"mount-device"} ELSE {})

UnionKeys(configured) ==
    {"union-type"} \cup (IF configured
                           THEN {"union-overlay-directory", "union-underlay-directory"}
                           ELSE {})

SourceClonableKeys == {"source-clone"} \cup SourceLists
SessionKeys == {"original-name", "selected-name"}

FacetKeys(o, f) ==
    CASE f = "mountable" -> MountableKeys(IsSession(o))
      [] f = "union" -> UnionKeys(UnionConfigured(o))
      [] f = "source-clonable" -> SourceClonableKeys
      [] f = "session" -> SessionKeys
      [] OTHER -> {}

\* The base class.
ChrootKeys(session) ==
    {"type", "profile", "aliases"} \cup Lists
    \cup (IF session THEN {"name", "mount-location"} ELSE {})

KeysWritten(o) ==
    ChrootKeys(IsSession(o)) \cup TypeKeys(o) \cup UNION {FacetKeys(o, f) : f \in o.facets}

\* The dataset of a zfs-snapshot chroot is written under another key than the
\* one it is read from.
GetKeyfile(o) ==
    [k \in KeysWritten(o) |->
        CASE k = "type" -> <<o.type>>
          [] k = "zfs-dataset-name" -> o.val["zfs-dataset"]
          [] OTHER -> o.val[k]]
-----------------------------------------------------------------------------
(***************************************************************************)
(* set_keyfile: the keys an object reads, by their priority.               *)
(***************************************************************************)
Reads(required, optional, disallowed) ==
    [required |-> required, optional |-> optional, disallowed |-> disallowed]

\* The types, one operator for each set_keyfile.  Of a directory, the old key
\* location does as well, but not both.
DirectoryReads(kf) ==
    LET keys == {"directory", "location"} \cap DOMAIN kf IN
    Reads(IF keys = {} THEN {"directory"} ELSE {}, {"directory"},
          IF keys = {"directory", "location"} THEN {"location"} ELSE {})

FileReads(session) ==
    Reads({"file"} \cup (IF session THEN {"file-repack"} ELSE {}), {"location"},
          IF session THEN {} ELSE {"file-repack"})

LoopbackReads == Reads({"file"}, {}, {})
BlockDeviceReads == Reads({"device"}, {}, {})

LvmReads(session) ==
    IF session
      THEN Reads({"device", "lvm-snapshot-device"}, {"lvm-snapshot-options"}, {})
      ELSE Reads({"device", "lvm-snapshot-options"}, {}, {"lvm-snapshot-device"})

BtrfsReads(session) ==
    LET source == {"btrfs-source-subvolume", "btrfs-snapshot-directory"}
        own    == {"btrfs-snapshot-name"} IN
    IF session THEN Reads(own, {}, source) ELSE Reads(source, {}, own)

ZfsReads(session) ==
    LET own == {"zfs-snapshot-name", "zfs-clone-name"} IN
    IF session THEN Reads(own, {}, {"zfs-dataset", "zfs-snapshot-options"})
               ELSE Reads({"zfs-dataset"}, {"zfs-snapshot-options"}, own)

\* The two keys that add and remove facets are in SetFacets.
CustomReads(session) ==
    Reads({}, {"custom-session-purgeable"},
          IF session THEN {"custom-session-cloneable", "custom-source-cloneable"} ELSE {})

TypeReads(o, kf) ==
    CASE o.type \in {"plain", "directory"} -> DirectoryReads(kf)
      [] o.type = "file" -> FileReads(IsSession(o))
      [] o.type = "loopback" -> LoopbackReads
      [] o.type = "block-device" -> BlockDeviceReads
      [] o.type = "lvm-snapshot" -> LvmReads(IsSession(o))
      [] o.type = "btrfs-snapshot" -> BtrfsReads(IsSession(o))
      [] o.type = "zfs-snapshot" -> ZfsReads(IsSession(o))
      [] o.type = "custom" -> CustomReads(IsSession(o))

\* The facets.
MountableReads(session) ==
    IF session THEN Reads({"mount-device"}, {"location"}, {})
               ELSE Reads({}, {"location"}, {"mount-device"})

\* Mutant of UnionReads: the underlay directory of a session is not read back.
UnionReadsOverlayOnly(session, type) ==
    Reads(IF session /\ type # None THEN {"union-overlay-directory"} ELSE {},
          {"union-type", "union-overlay-directory"}, {})

UnionReads(session, type) ==
    LET directories == {"union-overlay-directory", "union-underlay-directory"} IN
    Reads(IF session /\ type # None THEN directories ELSE {},
          {"union-type"} \cup directories, {})

SourceClonableReads == Reads({}, {"source-clone"} \cup SourceLists, {})
SessionReads == Reads({}, {"original-name", "selected-name"}, {})

FacetReads(o, f, kf) ==
    CASE f = "mountable" -> MountableReads(IsSession(o))
      [] f = "union" ->
           UnionReads(IsSession(o), IF "union-type" \in DOMAIN kf THEN kf["union-type"]
                                                                  ELSE o.val["union-type"])
      [] f = "source-clonable" -> SourceClonableReads
      [] f = "session" -> SessionReads
      [] OTHER -> Reads({}, {}, {})

\* The base class.
ChrootReads(session) ==
    LET optional == {"profile", "aliases"} \cup Lists IN
    IF session THEN Reads({"mount-location"}, optional \cup {"name"}, {})
               ELSE Reads({}, optional, {"mount-location", "name"})

AllReads(o, kf) ==
    {ChrootReads(IsSession(o)), TypeReads(o, kf)} \cup {FacetReads(o, f, kf) : f \in o.facets}

KeysRead(o, kf) == UNION {r.required \cup r.optional : r \in AllReads(o, kf)}

Given(kf, k, v) == k \in DOMAIN kf /\ kf[k] = v

\* add_facet throws FACET_PRESENT for a facet the object has.
AddsPresentFacet(o, kf) ==
    /\ o.type = "custom"
    /\ \/ Given(kf, "custom-session-cloneable", True) /\ "session-clonable" \in o.facets
       \/ Given(kf, "custom-source-cloneable", True) /\ "source-clonable" \in o.facets

is_absname(path) == path # <<>> /\ path[1] = "/"

\* The setters that refuse a relative path, of the types ...
Relative(kf, keys) == \E k \in keys \cap DOMAIN kf : ~is_absname(kf[k])

DirectoryRefuses(kf) == Relative(kf, {"directory", "location"})
LoopbackRefuses(kf) == Relative(kf, {"file"})
BlockDeviceRefuses(kf) == Relative(kf, {"device"})
LvmRefuses(kf) == BlockDeviceRefuses(kf) \/ Relative(kf, {"lvm-snapshot-device"})
BtrfsRefuses(kf) ==
    Relative(kf, {"btrfs-source-subvolume", "btrfs-snapshot-directory", "btrfs-snapshot-name"})

\* A location may be empty.
FileRefuses(kf) ==
    Relative(kf, {"file"}) \/ (Relative(kf, {"location"}) /\ kf["location"] # <<>>)

TypeRefuses(o, kf) ==
    CASE o.type \in {"plain", "directory"} -> DirectoryRefuses(kf)
      [] o.type = "file" -> FileRefuses(kf)
      [] o.type = "loopback" -> LoopbackRefuses(kf)
      [] o.type = "block-device" -> BlockDeviceRefuses(kf)
      [] o.type = "lvm-snapshot" -> LvmRefuses(kf)
      [] o.type = "btrfs-snapshot" -> BtrfsRefuses(kf)
      [] OTHER -> FALSE

\* ... of the facets, where a union has to be of a known type ...
MountableRefuses(kf) == Relative(kf, {"location"}) /\ kf["location"] # <<>>
UnionTypeRefused(kf) ==
    /\ "union-type" \in DOMAIN kf
    /\ kf["union-type"] \notin {<<"aufs">>, <<"overlay">>, <<"overlayfs">>, <<"unionfs">>, None}
UnionRefuses(kf) ==
    UnionTypeRefused(kf) \/ Relative(kf, {"union-overlay-directory", "union-underlay-directory"})

FacetRefuses(kf, f) ==
    CASE f = "mountable" -> MountableRefuses(kf)
      [] f = "union" -> UnionRefuses(kf)
      [] OTHER -> FALSE

\* ... and of the base class.
ChrootRefuses(kf) == Relative(kf, {"mount-location"}) /\ kf["mount-location"] # <<>>

\* basic_keyfile::check_priority and the exceptions of the setters.
Rejected(o, kf) ==
    \/ \E r \in AllReads(o, kf) : \/ ~(r.required \subseteq DOMAIN kf)
                                 \/ r.disallowed \cap DOMAIN kf # {}
    \/ AddsPresentFacet(o, kf)
    \/ ChrootRefuses(kf) \/ TypeRefuses(o, kf) \/ \E f \in o.facets : FacetRefuses(kf, f)

\* The setters that add and remove facets: set_union_type, set_session_cloneable
\* and set_source_cloneable.
SetFacets(o, kf) ==
    IF o.type = "custom"
      THEN [o EXCEPT !.facets =
              (@ \ ((IF Given(kf, "custom-session-cloneable", False)
                       THEN {"session-clonable"} ELSE {})
                    \cup (IF Given(kf, "custom-source-cloneable", False)
                            THEN {"source-clonable"} ELSE {})))
              \cup (IF Given(kf, "custom-source-cloneable", True)
                      THEN {"source-clonable"} ELSE {})]
      ELSE IF "union" \in o.facets /\ "union-type" \in DOMAIN kf
             THEN [o EXCEPT !.facets =
                     IF kf["union-type"] # None THEN @ \cup {"source-clonable"}
                                                ELSE @ \ {"source-clonable"}]
             ELSE o

\* The others.  The type's keys are read before those of the facets, so that
\* mount-device overrides what set_snapshot_device and set_clone_name put there.
SetValues(o, kf) ==
    LET given == KeysRead(o, kf) \cap DOMAIN kf
        implied(k) ==
          CASE k = "directory" /\ o.type \in {"plain", "directory"} /\ "location" \in DOMAIN kf ->
                 kf["location"]
            [] k = "mount-device" /\ o.type = "lvm-snapshot" /\ "lvm-snapshot-device" \in given ->
                 kf["lvm-snapshot-device"]
            [] k = "mount-device" /\ o.type = "zfs-snapshot" /\ "zfs-clone-name" \in given ->
                 IF "source" \in o.facets THEN o.val["zfs-dataset"] ELSE kf["zfs-clone-name"]
            [] k = "selected-name" /\ "original-name" \in given -> kf["original-name"]
            [] OTHER -> o.val[k]
    IN [o EXCEPT !.val = [k \in Fields |-> IF k \in given THEN kf[k] ELSE implied(k)]]

SetKeyfile(o, kf) ==
    IF Rejected(o, kf) THEN Refused ELSE SetValues(SetFacets(o, kf), kf)
-----------------------------------------------------------------------------
(***************************************************************************)
(* Cloning.                                                                *)
(***************************************************************************)
Dirname(path) == IF Len(path) > 1 THEN SubSeq(path, 1, Len(path) - 1) ELSE path

SnapshotDevice(o, id) == Append(Dirname(o.val["device"]), id)
CloneName(o, id) == o.val["zfs-dataset"] \o <<"schroot", id>>

\* Mutant of MountDevice: the block device is set last.
MountDeviceOfBlockDevice(o, id) ==
    CASE o.type \in {"block-device", "lvm-snapshot"} -> o.val["device"]
      [] o.type = "loopback" -> o.val["file"]
      [] o.type = "zfs-snapshot" /\ o.val["zfs-dataset"] # <<>> ->
           IF "source" \in o.facets THEN o.val["zfs-dataset"] ELSE CloneName(o, id)
      [] OTHER -> o.val["mount-device"]

\* "Note that this will be overridden by LVM snapshot, below, so the order here
\* is important."
MountDevice(o, id) ==
    CASE o.type = "lvm-snapshot" ->
           IF o.val["device"] # <<>> THEN SnapshotDevice(o, id) ELSE o.val["device"]
      [] o.type = "block-device" -> o.val["device"]
      [] o.type = "loopback" -> o.val["file"]
      [] o.type = "zfs-snapshot" /\ o.val["zfs-dataset"] # <<>> ->
           IF "source" \in o.facets THEN o.val["zfs-dataset"] ELSE CloneName(o, id)
      [] OTHER -> o.val["mount-device"]

UnionDirectory(dir, id) == Append(dir, id)

\* The values chroot_facet_session_clonable::clone_session_setup sets.
SessionValue(o, id, alias, user, root, k) ==
    CASE k = "name" -> <<id>>
      [] k = "original-name" -> o.val["name"]
      [] k = "selected-name" -> alias
      [] k = "users" -> IF root THEN <<>> ELSE user
      [] k = "root-users" -> IF root THEN user ELSE <<>>
      [] k \in {"groups", "root-groups", "aliases"} -> <<>>
      [] k = "mount-location" /\ o.val[k] = <<>> /\ o.type # "plain" -> <<"/", "mount", id>>
      [] k = "mount-device" /\ "mountable" \in o.facets -> MountDevice(o, id)
      [] k = "lvm-snapshot-device" /\ o.type = "lvm-snapshot" /\ o.val["device"] # <<>> ->
           SnapshotDevice(o, id)
      [] k = "btrfs-snapshot-name" /\ o.type = "btrfs-snapshot"
           /\ o.val["btrfs-snapshot-directory"] # <<>> ->
           Append(o.val["btrfs-snapshot-directory"], id)
      [] k = "zfs-snapshot-name" /\ o.type = "zfs-snapshot" /\ o.val["zfs-dataset"] # <<>> ->
           o.val["zfs-dataset"] \o <<"@", id>>
      [] k = "zfs-clone-name" /\ o.type = "zfs-snapshot" /\ o.val["zfs-dataset"] # <<>> ->
           CloneName(o, id)
      [] k \in {"union-overlay-directory", "union-underlay-directory"}
           /\ "union" \in o.facets -> UnionDirectory(o.val[k], id)
      [] OTHER -> o.val[k]

\* clone_session, for an object with the session-clonable facet.
CloneSession(o, id, alias, user, root) ==
    [Copy(o) EXCEPT
        !.facets = (@ \ {"session-clonable", "source-clonable"}) \cup {"session"},
        !.parentSource = "source" \in o.facets,
        !.val = [k \in Fields |-> SessionValue(Copy(o), id, alias, user, root, k)]]

\* clone_source of the types: the source of an LVM snapshot is a block device
\* and that of a btrfs snapshot a directory, the subvolume; that of a file is
\* repacked.
SourceType(type) ==
    CASE type = "lvm-snapshot" -> "block-device"
      [] type = "btrfs-snapshot" -> "directory"
      [] OTHER -> type

SourceDirectory(o) ==
    IF o.type = "btrfs-snapshot" THEN o.val["btrfs-source-subvolume"] ELSE o.val["directory"]

SourceRepack(o) == IF o.type = "file" THEN True ELSE o.val["file-repack"]

\* ... with chroot_facet_source_clonable::clone_source_setup; the union facet
\* the source of a snapshot got is removed again.
CloneSource(o) ==
    [Copy(o) EXCEPT
        !.type = SourceType(o.type),
        !.facets = (@ \ {"union", "source-clonable"}) \cup {"source"},
        !.original = FALSE,
        !.val = [k \in Fields |->
                   CASE k \in Lists -> o.val[SourceList(k)]
                     [] k = "directory" -> SourceDirectory(o)
                     [] k = "file-repack" -> SourceRepack(o)
                     [] OTHER -> Copy(o).val[k]]]
-----------------------------------------------------------------------------
(***************************************************************************)
(* chroot_config::load_keyfile, for one group.                             *)
(***************************************************************************)
\* "In order to get the correct facets in place" a session is cloned afresh
\* from an empty chroot of its type before the file is read.
Template(ns, name, kf) ==
    LET new == Create(kf["type"][1], name) IN
    IF ns = "session" /\ "session-clonable" \in new.facets
      THEN [CloneSession(new, "dummy-session-name", <<"dummy-session-name">>, <<>>, FALSE)
              EXCEPT !.val["name"] = name]
      ELSE new

LoadKeyfile(ns, name, kf) == SetKeyfile(Template(ns, name, kf), kf)

\* Mutant of SourceChroots: sessions are not left out.
SourceChrootsOfAll(o) ==
    IF Object(o) /\ "source-clonable" \in o.facets /\ o.val["source-clone"] = True
      THEN {CloneSource(o)} ELSE {}

\* The source chroot made besides, if any.
SourceChroots(o) ==
    IF /\ Object(o) /\ "source-clonable" \in o.facets /\ o.val["source-clone"] = True
       /\ ~IsSession(o)
      THEN {CloneSource(o)} ELSE {}
-----------------------------------------------------------------------------
(***************************************************************************)
(* The steps.                                                              *)
(***************************************************************************)
ChrootName == <<"chroot">>

Init ==
    /\ def \in Definitions
    /\ chroot = NoObject /\ sources = {}
    /\ from = [i \in Ids |-> "none"]
    /\ begun = [i \in Ids |-> NoObject]
    /\ file = [i \in Ids |-> NoFile]
    /\ again = [i \in Ids |-> NoObject]

\* The configuration is loaded.
LoadConfig ==
    /\ chroot = NoObject
    /\ LET c == LoadKeyfile("chroot", ChrootName, def) IN
       /\ chroot' = c
       /\ sources' = SourceChroots(c)
    /\ UNCHANGED <<def, from, begun, file, again>>

\* in_root_users || in_root_groups; who is in a group is not modelled.
RootChoices(o, u) ==
    {\E j \in DOMAIN o.val["root-users"] : o.val["root-users"][j] = u}
    \cup (IF o.val["root-groups"] # <<>> THEN {TRUE} ELSE {})

\* session::run_impl clones a session and setup_session_info writes its file,
\* which must not exist.
BeginSession(ns, o, i, u) ==
    /\ "create" \in SessionFlags(o)
    /\ file[i] = NoFile
    /\ \E root \in RootChoices(o, u) :
         LET s == CloneSession(o, i, o.val["name"], <<u>>, root) IN
         /\ begun' = [begun EXCEPT ![i] = s]
         /\ file' = [file EXCEPT ![i] = GetKeyfile(s)]
    /\ from' = [from EXCEPT ![i] = ns]
    /\ UNCHANGED <<def, chroot, sources, again>>

\* Another process loads the session file, to run, recover or end the session.
ReloadSession(i) ==
    /\ file[i] # NoFile
    /\ LET s == LoadKeyfile("session", <<i>>, file[i]) IN
       /\ again' = [again EXCEPT ![i] = s]
       /\ sources' = sources \cup SourceChroots(s)
    /\ UNCHANGED <<def, chroot, from, begun, file>>

\* setup-stop succeeds and the file is removed.
EndSession(i) ==
    /\ file[i] # NoFile
    /\ file' = [file EXCEPT ![i] = NoFile]
    /\ from' = [from EXCEPT ![i] = "none"]
    /\ begun' = [begun EXCEPT ![i] = NoObject]
    /\ again' = [again EXCEPT ![i] = NoObject]
    /\ UNCHANGED <<def, chroot, sources>>

Next ==
    \/ LoadConfig
    \/ \E i \in Ids, u \in Users :
         \/ Object(chroot) /\ BeginSession("chroot", chroot, i, u)
         \/ \E o \in sources : BeginSession("source", o, i, u)
    \/ \E i \in Ids : ReloadSession(i) \/ EndSession(i)

Spec == Init /\ [][Next]_vars
-----------------------------------------------------------------------------
Objects == [type: Types, facets: SUBSET Facets, original: BOOLEAN,
            parentSource: BOOLEAN, val: [Fields -> Seq(Strings)]]

\* Every object has all members, and a session has a file that names its type.
TypeOK ==
    /\ def \in Definitions
    /\ chroot \in Objects \cup {NoObject, Refused}
    /\ sources \subseteq Objects
    /\ from \in [Ids -> {"none", "chroot", "source"}]
    /\ begun \in [Ids -> Objects \cup {NoObject}]
    /\ again \in [Ids -> Objects \cup {NoObject, Refused}]
    /\ DOMAIN file = Ids
    /\ \A i \in Ids : IF begun[i] = NoObject THEN file[i] = NoFile ELSE IsGroup(file[i])

\* Variables that only the creation of a session needs are not in the file.
CreationVariables ==
    {"CHROOT_LVM_SNAPSHOT_OPTIONS", "CHROOT_BTRFS_SOURCE_SUBVOLUME",
     "CHROOT_BTRFS_SNAPSHOT_DIRECTORY", "CHROOT_ZFS_DATASET", "CHROOT_ZFS_SNAPSHOT_OPTIONS"}

\* The file does not say that a session was begun from a source chroot: another
\* process gives the scripts the names of a zfs clone that was never made, and
\* the flag "source" is lost.
SourceVariables(i) ==
    {"CHROOT_SESSION_SOURCE"}
    \cup (IF from[i] = "source" THEN {"CHROOT_ZFS_SNAPSHOT_NAME", "CHROOT_ZFS_CLONE_NAME"} ELSE {})

\* A session file is never refused, and the session made of it is the one that
\* was begun: the scripts get the same variables from every process, so that the
\* same mounts, directories and snapshots are recovered and removed, and the
\* same users may enter.
ReloadFaithful ==
    \A i \in Ids : again[i] # NoObject =>
        LET a == SetupEnv(again[i])
            b == SetupEnv(begun[i])
        IN /\ Object(again[i])
           /\ \A k \in Lists \cup {"name", "aliases"} : again[i].val[k] = begun[i].val[k]
           /\ \A v \in (DOMAIN a \cup DOMAIN b) \ (CreationVariables \cup SourceVariables(i)) :
                Variable(a, v) = Variable(b, v)

SessionObjects(i) == {begun[i], again[i]} \ {NoObject, Refused}

\* The data a definition is about.
Originals == {chroot.val[k] : k \in {"directory", "file", "device", "btrfs-source-subvolume",
                                     "zfs-dataset"}} \ {<<>>}

\* Whether what is done in a session is done to the original chroot: it is what
\* 10mount mounts, with no union over it, or 05file repacks the archive.
WritesOriginal(o) ==
    LET env == SetupEnv(o) IN
    \/ MountSource(env) \in Originals /\ ~UnionConfigured(o)
    \/ o.type = "file" /\ env["CHROOT_FILE_REPACK"] = True

\* "convenient access to the original (non-snapshotted) data": a session changes
\* the original if it was begun from the source chroot or the chroot has no
\* copies, and never otherwise; also once the session was loaded from its file,
\* except that a zfs source session is then taken for one with a clone.
OnlySourceWritesOriginal ==
    \A i \in Ids : \A o \in SessionObjects(i) :
        o.type # "custom" =>
          LET original == from[i] = "source" \/ "clone" \notin SessionFlags(chroot)
          IN IF o.type = "zfs-snapshot" /\ from[i] = "source" /\ "source" \notin o.facets
               THEN ~WritesOriginal(o) ELSE WritesOriginal(o) <=> original

\* A source chroot is made of a chroot only, has no union over it and no source
\* itself; a session has no sessions.  A union session that is loaded again gets
\* the source-clonable facet back and must not be taken for a chroot.
ClonesEnd ==
    /\ \A s \in sources : /\ ~IsSession(s) /\ ~s.original
                          /\ s.facets \cap {"union", "source-clonable"} = {}
    /\ \A i \in Ids : \A o \in SessionObjects(i) :
         IsSession(o) /\ SessionFlags(o) \cap {"create", "clone"} = {}

=============================================================================
