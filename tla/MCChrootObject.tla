------------------------- MODULE MCChrootObject -------------------------
(***************************************************************************)
(* Instances of ChrootObject for TLC: definitions of every type, with and  *)
(* without union, source chroot, location and lists of users.              *)
(***************************************************************************)
EXTENDS ChrootObject, TLC

AllStrings == STRING

Disk == <<"/", "dev", "vg", "disk">>

TypeKeysOf(type) ==
    "type" :> <<type>> @@
    CASE type = "plain" -> "directory" :> <<"/", "srv", "chroot">>
      [] type = "directory" -> "directory" :> <<"/", "srv", "chroot">>
      [] type = "file" -> "file" :> <<"/", "srv", "chroot.tar">>
      [] type = "loopback" -> "file" :> <<"/", "srv", "chroot.img">>
      [] type = "block-device" -> "device" :> Disk
      [] type = "lvm-snapshot" -> "device" :> Disk @@ "lvm-snapshot-options" :> <<"-L 2g">>
      [] type = "btrfs-snapshot" -> "btrfs-source-subvolume" :> <<"/", "srv", "chroot">>
                                    @@ "btrfs-snapshot-directory" :> <<"/", "srv", "snapshot">>
      [] type = "zfs-snapshot" -> "zfs-dataset" :> <<"tank", "chroot">>
      [] type = "custom" -> "custom-session-purgeable" :> True

UserKeys == "users" :> <<"ann">> @@ "root-users" :> <<"bob">> @@ "aliases" :> <<"alias">>
SourceKeys == "source-root-users" :> <<"bob">> @@ "source-root-groups" :> <<"adm">>

Options(type) ==
    {<<>>, UserKeys, UserKeys @@ SourceKeys, "source-clone" :> False}
    \cup (IF type \in {"directory", "block-device", "loopback"}
            THEN {"union-type" :> <<"overlay">>,
                  "union-type" :> <<"aufs">> @@ UserKeys @@ SourceKeys
                    @@ "union-overlay-directory" :> <<"/", "var", "overlay">>,
                  "union-type" :> <<"overlay">> @@ "source-clone" :> False}
            ELSE {})
    \cup (IF type \in {"file", "block-device", "loopback", "lvm-snapshot", "zfs-snapshot"}
            THEN {"location" :> <<"/", "root">>} ELSE {})
    \cup (IF type = "custom"
            THEN {"custom-source-cloneable" :> True, "custom-session-cloneable" :> False}
            ELSE {})

AllDefinitions ==
    UNION {{TypeKeysOf(t) @@ o : o \in Options(t)} : t \in Types}
    \cup {"type" :> <<"directory">> @@ "location" :> <<"/", "srv", "chroot">>,
          "type" :> <<"custom">> @@ "custom-session-cloneable" :> True,
          "type" :> <<"file">>,
          "type" :> <<"file">> @@ "file" :> <<"chroot.tar">>,
          "type" :> <<"loopback">> @@ "file" :> <<"/", "chroot.img">> @@ "location" :> <<"root">>,
          "type" :> <<"directory">> @@ "directory" :> <<"/", "srv">> @@ "union-type" :> <<"dm">>}
=============================================================================
