------------------------------ MODULE Keyfile ------------------------------
(***************************************************************************)
(* keyfile: the INI-like files of schroot.conf, chroot.d and the session   *)
(* directory.  keyfile_parser reads a line at a time; operator>> collects  *)
(* groups and items in a keyfile of its own and adds it to the target only *)
(* at the end of the file; objects are set from the values of a group and  *)
(* stored as values again; operator<< prints.                              *)
(*                                                                         *)
(* A line is what parse_line tells apart.  A value is the sequence of its  *)
(* comma-separated fields ("" is <<"">>), and a comment the sequence of    *)
(* its lines, the first of which is not empty (the empty string is <<>>).  *)
(* Values have no line break: nothing escapes one on printing, and what    *)
(* follows it would be read as further lines.                              *)
(***************************************************************************)
EXTENDS Naturals, Sequences, SequencesExt, FiniteSetsExt

CONSTANTS
    GroupOrder, KeyOrder,   \* group and key names, sorted
    KeyType,      \* [key -> the type of what the object's methods take]
    ItemLines,    \* the items a file may hold: [t: {"item"}, k: key, v: value]
    Texts,        \* the lines of comments
    FieldOrder,   \* the fields of values, sorted
    Refused,      \* values that the method of the object throws on
    Earlier,      \* keyfiles that the target may hold before it is read into
    Priorities,   \* [key -> priority], as a caller gives them
    MaxLines      \* bound: lines of a file

Groups == ToSet(GroupOrder)
Keys   == ToSet(KeyOrder)
Fields == ToSet(FieldOrder)
priority == {"OPTIONAL", "REQUIRED", "DISALLOWED", "DEPRECATED", "OBSOLETE"}
ParseErrors == {"INVALID_GROUP", "INVALID_LINE", "NO_GROUP", "NO_KEY"}

\* A map of groups; a group is its items, comment and line, an item its value,
\* comment and line.
Values    == Seq(Fields) \ {<<>>}
Comments  == {c \in Seq(Texts) : c # <<>> => c[1] # ""}
Items     == [value: Values, comment: Comments, line: Nat]

IsKeyfile(f) ==
    /\ DOMAIN f \subseteq Groups /\ f = [g \in DOMAIN f |-> f[g]]
    /\ \A g \in DOMAIN f :
         /\ f[g] = [items |-> f[g].items, comment |-> f[g].comment, line |-> f[g].line]
         /\ DOMAIN f[g].items \subseteq Keys /\ f[g].items \in [DOMAIN f[g].items -> Items]
         /\ f[g].comment \in Comments /\ f[g].line \in Nat

Distinct(s) == \A i, j \in DOMAIN s : s[i] = s[j] => i = j

ASSUME KeyfileAssumption ==
    /\ GroupOrder \in Seq(Groups) /\ Distinct(GroupOrder) /\ "" \notin Groups
    /\ KeyOrder \in Seq(Keys) /\ Distinct(KeyOrder)
    /\ FieldOrder \in Seq(Fields) /\ Distinct(FieldOrder) /\ {"", "true", "false"} \subseteq Fields
    /\ KeyType \in [Keys -> {"bool", "string", "list", "set"}]
    /\ \A p \in Priorities : p \in [Keys -> priority]
    /\ ItemLines \subseteq [t: {"item"}, k: Keys, v: Values]
    /\ \A f \in Earlier : IsKeyfile(f)
    /\ MaxLines \in Nat

Line ==
    {[t |-> "empty"], [t |-> "badgroup"], [t |-> "noequals"], [t |-> "nokey"]}
    \cup [t: {"comment"}, c: Texts] \cup [t: {"group"}, g: Groups] \cup ItemLines

VARIABLES
    file,     \* the lines read so far
    state,    \* keyfile_parser, the keyfile being collected, and the error thrown
    kf,       \* the keyfile that is read into
    before,   \* history: what it held
    phase,    \* "reading", "loaded", "edited", "failed", "used"
    wanted, prio, result   \* the group an object was set from, how, and the outcome

keyfile_vars == <<file, state, kf, before, phase, wanted, prio, result>>

\* An error, with the line it names (0: none).
NoError == [code |-> "none", line |-> 0]
Err(c, n) == [code |-> c, line |-> n]

EmptyKeyfile == [g \in {} |-> {}]
Item(v, c, n) == [value |-> v, comment |-> c, line |-> n]

has_group(f, g) == g \in DOMAIN f
has_key(f, g, k) == has_group(f, g) /\ k \in DOMAIN f[g].items
get_line(f, g, k) == IF has_key(f, g, k) THEN f[g].items[k].line ELSE 0
get_group_line(f, g) == IF has_group(f, g) THEN f[g].line ELSE 0

\* set_group keeps a group that is there, its comment and line included.
set_group(f, g, c, n) ==
    IF has_group(f, g) THEN f
    ELSE [x \in DOMAIN f \cup {g} |->
            IF x = g THEN [items |-> [k \in {} |-> {}], comment |-> c, line |-> n] ELSE f[x]]

set_value(f, g, k, v, c, n) ==
    LET h == set_group(f, g, <<>>, 0)
    IN  [h EXCEPT ![g].items =
            [x \in DOMAIN h[g].items \cup {k} |->
                IF x = k THEN Item(v, c, n) ELSE h[g].items[x]]]

remove_group(f, g) == [x \in DOMAIN f \ {g} |-> f[x]]

remove_key(f, g, k) ==
    IF ~has_group(f, g) THEN f
    ELSE [f EXCEPT ![g].items = [x \in DOMAIN f[g].items \ {k} |-> f[g].items[x]]]

\* operator +=: the values of the right side win, the comment and line of a group
\* that is there already stay.
Merge(f, rhs) ==
    [g \in DOMAIN f \cup DOMAIN rhs |->
        IF g \notin DOMAIN rhs THEN f[g]
        ELSE IF g \notin DOMAIN f THEN rhs[g]
        ELSE [f[g] EXCEPT !.items =
                [k \in DOMAIN f[g].items \cup DOMAIN rhs[g].items |->
                    IF k \in DOMAIN rhs[g].items THEN rhs[g].items[k] ELSE f[g].items[k]]]]

(***************************************************************************)
(* Reading.                                                                *)
(***************************************************************************)
\* basic_keyfile_parser: the group stays, key and value are those of the last
\* line.  "set" is what the last line made ready: nothing, a group or an item.
StartState ==
    [group |-> "", key |-> "", value |-> <<>>, comment |-> <<>>, set |-> "none",
     line_number |-> 0, tmp |-> EmptyKeyfile, err |-> NoError]

\* A comment that gets another line.
AddComment(c, text) == IF c = <<>> /\ text = "" THEN <<>> ELSE Append(c, text)

\* Mutant of parse_line: the comment is kept for the next group or item.
parse_lineStaleComment(s, l) ==
    LET at(c) == [s EXCEPT !.err = Err(c, s.line_number)]
        next == [s EXCEPT !.set = "none", !.line_number = @ + 1]
    IN  CASE l.t = "empty" -> next
          [] l.t = "comment" -> [next EXCEPT !.comment = AddComment(s.comment, l.c)]
          [] l.t = "badgroup" -> at("INVALID_GROUP")
          [] l.t = "group" -> [next EXCEPT !.group = l.g, !.set = "group"]
          [] l.t = "noequals" -> at("INVALID_LINE")
          [] l.t = "nokey" -> at("NO_KEY")
          [] l.t = "item" /\ s.group = "" -> at("NO_GROUP")
          [] l.t = "item" /\ s.group # "" ->
               [next EXCEPT !.key = l.k, !.value = l.v, !.set = "item"]

\* keyfile_parser::parse_line.  The line is counted only once it is parsed, so
\* an error names the line before.
parse_line(s, l) ==
    LET comment == IF s.set = "none" THEN s.comment ELSE <<>>
        at(c) == [s EXCEPT !.err = Err(c, s.line_number)]
        next == [s EXCEPT !.set = "none", !.comment = comment, !.line_number = @ + 1]
    IN  CASE l.t = "empty" -> next
          [] l.t = "comment" -> [next EXCEPT !.comment = AddComment(comment, l.c)]
          [] l.t = "badgroup" -> at("INVALID_GROUP")
          [] l.t = "group" -> [next EXCEPT !.group = l.g, !.set = "group"]
          [] l.t = "noequals" -> at("INVALID_LINE")
          [] l.t = "nokey" -> at("NO_KEY")
          [] l.t = "item" /\ s.group = "" -> at("NO_GROUP")
          [] l.t = "item" /\ s.group # "" ->
               [next EXCEPT !.key = l.k, !.value = l.v, !.set = "item"]

\* operator>>: what a parsed line made ready is inserted, unless it is there.
Collect(s) ==
    CASE s.err # NoError -> s
      [] s.err = NoError /\ s.set = "group" ->
           IF has_group(s.tmp, s.group)
           THEN [s EXCEPT !.err = Err("DUPLICATE_GROUP", s.line_number)]
           ELSE [s EXCEPT !.tmp = set_group(s.tmp, s.group, s.comment, s.line_number)]
      [] s.err = NoError /\ s.set = "item" ->
           IF has_key(s.tmp, s.group, s.key)
           THEN [s EXCEPT !.err = Err("DUPLICATE_KEY", s.line_number)]
           ELSE [s EXCEPT !.tmp = set_value(s.tmp, s.group, s.key, s.value, s.comment,
                                            s.line_number)]
      [] s.err = NoError /\ s.set = "none" -> s

ReadOne(s, l) == IF s.err # NoError THEN s ELSE Collect(parse_line(s, l))

\* Reading a whole file into an empty keyfile.
ReadAll(s, lines) ==
    LET after[n \in 0..Len(lines)] ==
          IF n = 0 THEN s ELSE ReadOne(after[n - 1], lines[n])
    IN  after[Len(lines)]

Load(lines) == ReadAll(StartState, lines)

(***************************************************************************)
(* Printing.                                                               *)
(***************************************************************************)
\* print_comment: the last line of a comment is lost when it is empty.
print_comment(c) ==
    LET lines == IF c # <<>> /\ Last(c) = "" THEN Front(c) ELSE c
    IN  [i \in DOMAIN lines |-> [t |-> "comment", c |-> lines[i]]]

PrintItem(f, g, k) ==
    print_comment(f[g].items[k].comment)
    \o <<[t |-> "item", k |-> k, v |-> f[g].items[k].value]>>

PrintItems(f, g) ==
    LET printed[n \in 0..Len(KeyOrder)] ==
          IF n = 0 THEN <<>>
          ELSE printed[n - 1] \o IF has_key(f, g, KeyOrder[n]) THEN PrintItem(f, g, KeyOrder[n])
                                 ELSE <<>>
    IN  printed[Len(KeyOrder)]

\* Mutant of PrintGroup: the comment comes after the name of the group.
PrintGroupLate(f, g) ==
    <<[t |-> "group", g |-> g]>> \o print_comment(f[g].comment) \o PrintItems(f, g)

PrintGroup(f, g) ==
    print_comment(f[g].comment) \o <<[t |-> "group", g |-> g]>> \o PrintItems(f, g)

\* operator<<: an empty line between two groups.
PrintFile(f) ==
    LET printed[n \in 0..Len(GroupOrder)] ==
          IF n = 0 THEN <<>>
          ELSE IF ~has_group(f, GroupOrder[n]) THEN printed[n - 1]
          ELSE printed[n - 1] \o (IF printed[n - 1] = <<>> THEN <<>> ELSE <<[t |-> "empty"]>>)
                             \o PrintGroup(f, GroupOrder[n])
    IN  printed[Len(GroupOrder)]

(***************************************************************************)
(* Values and objects.                                                     *)
(***************************************************************************)
\* parse_value for a bool; a string is taken as it is.
ParsesAsBool(v) == v \in {<<"true">>, <<"yes">>, <<"1">>, <<"false">>, <<"no">>, <<"0">>}
parse_bool(v) == v \in {<<"true">>, <<"yes">>, <<"1">>}

\* Mutant of split_string: empty fields are kept.
split_stringStrict(v) == v

\* split_string with the separator ",": no empty fields.
split_string(v) ==
    LET split[n \in 0..Len(v)] ==
          IF n = 0 THEN <<>>
          ELSE IF v[n] = "" THEN split[n - 1] ELSE Append(split[n - 1], v[n])
    IN  split[Len(v)]

\* What get_value, get_list_value and get_set_value make of a value, and
\* whether they can.
Parsable(k, v) == KeyType[k] = "bool" => ParsesAsBool(v)

get_value(k, v) ==
    CASE KeyType[k] = "bool"   -> parse_bool(v)
      [] KeyType[k] = "string" -> v
      [] OTHER -> {}

get_list_value(v) == split_string(v)
get_set_value(v) == ToSet(split_string(v))

FromValue(k, v) ==
    CASE KeyType[k] = "list" -> get_list_value(v)
      [] KeyType[k] = "set"  -> get_set_value(v)
      [] OTHER -> get_value(k, v)

\* An object before anything is set in it.
Default(k) ==
    CASE KeyType[k] = "bool" -> FALSE
      [] KeyType[k] = "string" -> <<"">>
      [] KeyType[k] = "list" -> <<>>
      [] KeyType[k] = "set" -> {}

\* What check_priority throws; for a deprecated or obsolete key it only warns.
check_priority(f, g, k, p, valid) ==
    CASE ~valid /\ p = "REQUIRED" ->
           IF get_group_line(f, g) # 0 THEN Err("MISSING_KEY", get_group_line(f, g))
           ELSE Err("MISSING_KEY_NL", 0)
      [] valid /\ p = "DISALLOWED" ->
           IF get_line(f, g, k) # 0 THEN Err("DISALLOWED_KEY", get_line(f, g, k))
           ELSE Err("DISALLOWED_KEY_NL", 0)
      [] OTHER -> NoError

\* The error get_object_value makes of any exception.
Passthrough(f, g, k) ==
    IF get_line(f, g, k) # 0 THEN Err("PASSTHROUGH_LGK", get_line(f, g, k))
    ELSE Err("PASSTHROUGH_GK", 0)

\* get_object_value: a value that does not parse counts as none, with a
\* warning; the object is given a value that is there, whatever its priority
\* is short of an exception.
get_object_value(f, g, k, p, r) ==
    LET valid == has_key(f, g, k) /\ Parsable(k, f[g].items[k].value)
        e == check_priority(f, g, k, p, valid)
    IN  IF e # NoError THEN [r EXCEPT !.err = Passthrough(f, g, k)]
        ELSE IF ~valid THEN r
        ELSE IF KeyType[k] = "string" /\ f[g].items[k].value \in Refused
        THEN [r EXCEPT !.err = Passthrough(f, g, k)]
        ELSE [r EXCEPT !.object[k] = FromValue(k, f[g].items[k].value)]

\* An object set from a group, key after key, up to the first exception.
GetObject(f, g, p) ==
    LET after[n \in 0..Len(KeyOrder)] ==
          IF n = 0 THEN [object |-> [k \in Keys |-> Default(k)], err |-> NoError]
          ELSE IF after[n - 1].err # NoError THEN after[n - 1]
          ELSE get_object_value(f, g, KeyOrder[n], p[KeyOrder[n]], after[n - 1])
    IN  after[Len(KeyOrder)]

\* set_object_value, set_object_list_value and set_object_set_value: the value that
\* is written for what the object holds; a set is sorted first.
set_list_value(l) == IF l = <<>> THEN <<"">> ELSE l
set_set_value(s) ==
    LET sorted[n \in 0..Len(FieldOrder)] ==
          IF n = 0 THEN <<>>
          ELSE IF FieldOrder[n] \in s THEN Append(sorted[n - 1], FieldOrder[n]) ELSE sorted[n - 1]
    IN  set_list_value(sorted[Len(FieldOrder)])

ToValue(k, x) ==
    CASE KeyType[k] = "bool" -> IF x THEN <<"true">> ELSE <<"false">>
      [] KeyType[k] = "string" -> x
      [] KeyType[k] = "list" -> set_list_value(x)
      [] KeyType[k] = "set" -> set_set_value(x)

SetObject(g, object) ==
    LET after[n \in 0..Len(KeyOrder)] ==
          IF n = 0 THEN EmptyKeyfile
          ELSE set_value(after[n - 1], g, KeyOrder[n], ToValue(KeyOrder[n], object[KeyOrder[n]]),
                         <<>>, 0)
    IN  after[Len(KeyOrder)]

----------------------------------------------------------------------------
KeyfileInit ==
    /\ file = <<>> /\ state = StartState
    /\ kf \in Earlier /\ before = kf
    /\ phase = "reading"
    /\ wanted = "" /\ prio = [k \in Keys |-> "OPTIONAL"]
    /\ result = [object |-> [k \in Keys |-> Default(k)], err |-> NoError]

\* One turn of the loop of operator>>.
GetLine(l) ==
    /\ phase = "reading" /\ Len(file) < MaxLines
    /\ file' = Append(file, l)
    /\ state' = ReadOne(state, l)
    /\ phase' = IF state'.err = NoError THEN "reading" ELSE "failed"
    /\ UNCHANGED <<kf, before, wanted, prio, result>>

EndOfFile ==
    /\ phase = "reading"
    /\ kf' = Merge(kf, state.tmp)
    /\ phase' = "loaded"
    /\ UNCHANGED <<file, state, before, wanted, prio, result>>

\* What a program does to a keyfile it has read.
RemoveKey(g, k) ==
    /\ phase = "loaded" /\ has_key(kf, g, k)
    /\ kf' = remove_key(kf, g, k)
    /\ phase' = "edited"
    /\ UNCHANGED <<file, state, before, wanted, prio, result>>

RemoveGroup(g) ==
    /\ phase = "loaded" /\ has_group(kf, g)
    /\ kf' = remove_group(kf, g)
    /\ phase' = "edited"
    /\ UNCHANGED <<file, state, before, wanted, prio, result>>

UseGroup(g, p) ==
    /\ phase \in {"loaded", "edited"}
    /\ wanted' = g /\ prio' = p /\ phase' = "used"
    /\ result' = GetObject(kf, g, p)
    /\ UNCHANGED <<file, state, kf, before>>

KeyfileNext ==
    \/ \E l \in Line : GetLine(l)
    \/ EndOfFile
    \/ \E g \in Groups : RemoveGroup(g) \/ \E k \in Keys : RemoveKey(g, k)
    \/ \E g \in Groups, p \in Priorities : UseGroup(g, p)

KeyfileSpec == KeyfileInit /\ [][KeyfileNext]_keyfile_vars

----------------------------------------------------------------------------
(***************************************************************************)
(* The reference: a file as a whole.                                       *)
(***************************************************************************)
Section(f, i) ==
    LET heads == {j \in 1..i : f[j].t = "group"}
    IN  IF heads = {} THEN "" ELSE f[Max(heads)].g

Defective(f, i) ==
    \/ f[i].t \in {"badgroup", "noequals", "nokey"}
    \/ f[i].t = "item" /\ Section(f, i) = ""
    \/ f[i].t = "group" /\ \E j \in 1..(i - 1) : f[j] = f[i]
    \/ f[i].t = "item" /\ \E j \in 1..(i - 1) :
          f[j].t = "item" /\ f[j].k = f[i].k /\ Section(f, j) = Section(f, i)

\* The lines of the comment before line i: comments after the group or item that
\* comes before it, without empty ones at the start.
CommentLines(f, i) ==
    LET near == {j \in 1..(i - 1) : f[j].t = "comment"
                                      /\ \A n \in j..(i - 1) : f[n].t \notin {"group", "item"}}
    IN  {j \in near : \E n \in near : n <= j /\ f[n].c # ""}

\* The n-th of a finite set of numbers.
Nth(J, n) == CHOOSE j \in J : Cardinality({m \in J : m <= j}) = n

CommentOf(f, i) ==
    LET J == CommentLines(f, i) IN [n \in 1..Cardinality(J) |-> f[Nth(J, n)].c]

Meaning(f) ==
    LET heads == {i \in DOMAIN f : f[i].t = "group"}
        items(g) == {i \in DOMAIN f : f[i].t = "item" /\ Section(f, i) = g}
        HeadOf(g) == CHOOSE i \in heads : f[i].g = g
        ItemOf(g, k) == CHOOSE i \in items(g) : f[i].k = k
    IN  [g \in {f[i].g : i \in heads} |->
            [items |-> [k \in {f[i].k : i \in items(g)} |->
                          Item(f[ItemOf(g, k)].v, CommentOf(f, ItemOf(g, k)), ItemOf(g, k))],
             comment |-> CommentOf(f, HeadOf(g)), line |-> HeadOf(g)]]

\* Reading a file either adds all that it says, each group and item with the
\* comment that stands before it, or fails at the first line that is wrong
\* and leaves the keyfile as it was.  The error names that line if it is a
\* duplicate; a line that does not parse is named by the number of the line
\* before, against the messages of sbuild-keyfile-base.cc:69-98, which give
\* the number of the line they quote.
LoadIsExact ==
    /\ phase = "loaded" =>
        /\ \A i \in DOMAIN file : ~Defective(file, i)
        /\ kf = Merge(before, Meaning(file))
    /\ phase = "failed" =>
        /\ {i \in DOMAIN file : Defective(file, i)} = {Len(file)}
        /\ kf = before
        /\ state.err.line = Len(file) - (IF state.err.code \in ParseErrors THEN 1 ELSE 0)

\* A keyfile without line numbers, and comments without empty lines at the end.
Trimmed(c) ==
    LET full == {j \in DOMAIN c : c[j] # ""}
    IN  IF full = {} THEN <<>> ELSE SubSeq(c, 1, Max(full))

Content(f) ==
    [g \in DOMAIN f |->
        [comment |-> Trimmed(f[g].comment),
         items |-> [k \in DOMAIN f[g].items |->
                      [value |-> f[g].items[k].value,
                       comment |-> Trimmed(f[g].items[k].comment)]]]]

\* A keyfile that is printed is read back without error and says the same, but
\* for empty lines at the end of a comment.
PrintedIsReadBack ==
    phase \in {"loaded", "edited"} =>
        LET again == Load(PrintFile(kf))
        IN  again.err = NoError /\ Content(again.tmp) = Content(kf)

\* An object that was set from a group and is stored, printed, read and set
\* again is the same object: what the session file keeps of a chroot.
ObjectSurvives ==
    (phase = "used" /\ result.err = NoError) =>
        LET stored == Load(PrintFile(SetObject(wanted, result.object)))
            again == GetObject(stored.tmp, wanted, [k \in Keys |-> "OPTIONAL"])
        IN  again.object = result.object
            \/ \E k \in Keys : KeyType[k] = "string" /\ result.object[k] \in Refused
=============================================================================
