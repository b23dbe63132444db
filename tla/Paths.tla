-------------------------------- MODULE Paths --------------------------------
(***************************************************************************)
(* lib/path.cpp: the names of files in Linux and on the disks of the three *)
(* file system versions, and how a copy turns one into the other: a source *)
(* path that the walk extends and cuts, and a target path that every file  *)
(* is converted into anew.  A text is a sequence of UTF-16 code units, the *)
(* directory of a distribution in front of it is left out ("data" is what  *)
(* the code has behind base_len).                                          *)
(***************************************************************************)
EXTENDS Integers, Sequences, FiniteSets, SequencesExt

CONSTANTS
    Names,          \* names of files: in Linux, and what WSL makes of it on the disks
    Foreign,        \* names on a disk of version 1 that WSL has not made
    EntryNames,     \* those of Names that occur in archives
    Roots,          \* root_path of an archive: a name of Names, or NoRoot
    NoRoot,
    Bases,          \* pairs of directories copied from and to
    Sources, Targets,   \* classes of paths copied from and to
    MaxDepth        \* bound: names in a path

Classes == {"linux", "v1", "v2", "legacy"}
LastCode == 65535
Code == 0 .. LastCode
Text == Seq(Code)

Dot == 46
Slash == 47
Hash == 35
Back == 92
Colon == 58
rootfs == <<114, 111, 111, 116, 102, 115>>
home == <<104, 111, 109, 101>>
root == <<114, 111, 111, 116>>
mnt == <<109, 110, 116>>

Same(text) == [linux |-> text, v1 |-> text, v2 |-> text]
Rootfs == Same(rootfs)
Moved == {Same(home), Same(root), Same(mnt)}

ASSUME NamesAssumption ==
    /\ Names \cup Foreign \subseteq [linux : Text, v1 : Text, v2 : Text] /\ EntryNames \subseteq Names
    /\ Rootfs \in Names /\ NoRoot \notin Names /\ Roots \subseteq Names \cup {NoRoot}
    /\ Bases # {} /\ \A b \in Bases : \A d \in {b.from, b.to} : d.text \in Text
    /\ Sources \subseteq Classes /\ Targets \subseteq Classes /\ MaxDepth \in Nat

VARIABLES
    bases,          \* the directories of this copy
    rootPath,       \* root_path of archive_reader
    phase,          \* "new", "open" or "over"
    source, target, \* the two path objects
    sizes,          \* enum_directory: the length of the path in each open directory
    outcome,        \* of the last convert
    trail, dir      \* history: the names that source stands for; whether it is a directory

vars == <<bases, rootPath, phase, source, target, sizes, outcome, trail, dir>>

-----------------------------------------------------------------------------
(* prefix_matcher: a walk through the patterns, none a prefix of another.  *)

Fresh == [done |-> FALSE, seen |-> <<>>]
Over == [done |-> TRUE, seen |-> <<>>]

Move(m, c, patterns) ==
    LET seen == Append(m.seen, c)
    IN  CASE m.done -> [m |-> m, result |-> "unknown"]
          [] ~m.done /\ seen \in patterns -> [m |-> Over, result |-> "succeeded"]
          [] ~m.done /\ \E p \in patterns : IsStrictPrefix(seen, p) -> [m |-> [m EXCEPT !.seen = seen], result |-> "unknown"]
          [] OTHER -> [m |-> Over, result |-> "failed"]

LinuxPatterns == {Append(rootfs, Slash)}
MovedPatterns == {Append(w, c) : w \in {home, root, mnt}, c \in {Slash, 0}}                     \* matcher1
NestedPatterns == {rootfs \o <<Slash>> \o w \o <<Slash>> : w \in {home, root, mnt}}             \* matcher2

New(class) == [class |-> class, data |-> <<>>, skip |-> FALSE, m1 |-> Fresh, m2 |-> Fresh]

(* Mutant: file_path::reset for all classes. *)
ResetData(path) == [path EXCEPT !.data = <<>>]

Reset(path) == [path EXCEPT !.data = <<>>, !.m1 = Fresh, !.m2 = Fresh]

-----------------------------------------------------------------------------
(* Characters that Windows does not allow.  In version 1 they become # and four
   hexadecimal digits, in version 2 they move to 0xF000, with "|" and back with "^". *)

(* Mutant: the quotation mark is forgotten. *)
IsSpecialMost(c) == c \in 1 .. 31 \cup {60, 62, Colon, Back, 124, 42, 63}

IsSpecial(c) == c \in 1 .. 31 \cup {60, 62, Colon, 34, Back, 124, 42, 63}
Or(c) == 61440 + (c % 4096)
Xor(c) == 4096 * (15 - (c \div 4096)) + (c % 4096)

Hex(d) == IF d < 10 THEN 48 + d ELSE 55 + d
Quoted(c) == <<Hash, Hex(c \div 4096), Hex((c \div 256) % 16), Hex((c \div 16) % 16), Hex(c % 16)>>

Encoded(class, c) ==
    IF IsSpecial(c) \/ (c = Hash /\ class # "v2") THEN IF class = "v2" THEN <<Or(c)>> ELSE Quoted(c)
    ELSE IF c = 0 THEN <<>>
    ELSE IF c = Slash THEN <<Back>> ELSE <<c>>

(* What WSL makes of the names of files on its disks (tests/test_path.cpp): the characters
   that Windows does not allow in a name and the backslash are spelled otherwise, in
   version 1 also the #. *)
Allowed(c) == c \notin 0 .. 31 \cup {34, 42, 47, 58, 60, 62, 63, 124}
Unusual(c) == ~Allowed(c) \/ c = Back
MadeByWSL(n) ==
    /\ n.linux # <<>> /\ \A i \in DOMAIN n.linux : n.linux[i] \notin {0, Slash}
    /\ n.v1 = FlattenSeq([i \in DOMAIN n.linux |->
                  IF Unusual(n.linux[i]) \/ n.linux[i] = Hash THEN Quoted(n.linux[i]) ELSE <<n.linux[i]>>])
    /\ n.v2 = [i \in DOMAIN n.linux |-> IF Unusual(n.linux[i]) THEN Or(n.linux[i]) ELSE n.linux[i]]

ASSUME SpellingAssumption == \A n \in Names : MadeByWSL(n)

(* stoi with base 16: blanks, a sign, 0x, then as many digits as there are. *)
Blanks == 9 .. 13 \cup {32}
Digit == [c \in 48 .. 57 \cup 65 .. 70 \cup 97 .. 102 |-> IF c <= 57 THEN c - 48 ELSE IF c <= 70 THEN c - 55 ELSE c - 87]
NoNumber == -1
From(s, k) == SubSeq(s, k, Len(s))
Span(s, S) == LET k == SelectInSeq(s, LAMBDA c : c \notin S) IN IF k = 0 THEN Len(s) ELSE k - 1

Digits(s) ==
    LET digits == SubSeq(s, 1, Span(s, DOMAIN Digit))
    IN  IF digits = <<>> THEN NoNumber ELSE FoldLeft(LAMBDA v, c : 16 * v + Digit[c], 0, digits)
Unsigned(s) ==
    IF Len(s) > 2 /\ s[1] = 48 /\ s[2] \in {88, 120} /\ s[3] \in DOMAIN Digit THEN Digits(From(s, 3)) ELSE Digits(s)
Opposite(n) == IF n = NoNumber THEN n ELSE (-n) % 65536
Signed(s) ==
    CASE s # <<>> /\ Head(s) = 43 -> Unsigned(Tail(s))
      [] s # <<>> /\ Head(s) = 45 -> Opposite(Unsigned(Tail(s)))
      [] OTHER -> Unsigned(s)
Number(s) == Signed(From(s, Span(s, Blanks) + 1))

(* What real_convert appends, up to the end or to an exception of stoi. *)
Decoded(class, data) ==
    LET Plain(c) == IF c = Back THEN Slash ELSE c
        More(c, rest) == [rest EXCEPT !.chars = <<c>> \o @]
        Quote(n, rest) == IF n = NoNumber THEN [chars |-> <<>>, throws |-> TRUE] ELSE More(n, rest)
        read[i \in 1 .. Len(data) + 5] ==
            CASE i > Len(data) -> [chars |-> <<>>, throws |-> FALSE]
              [] i <= Len(data) /\ data[i] = Hash ->
                    Quote(Number(SubSeq(data, i + 1, IF i + 4 > Len(data) THEN Len(data) ELSE i + 4)), read[i + 5])
              [] OTHER -> More(Plain(data[i]), read[i + 1])
    IN  IF class = "v2"
        THEN [chars  |-> [i \in DOMAIN data |-> IF IsSpecial(Xor(data[i])) THEN Xor(data[i]) ELSE Plain(data[i])],
              throws |-> FALSE]
        ELSE read[1]

-----------------------------------------------------------------------------
(* append(c) and append(s) of the four classes; "ok" is what they return.  *)

AppendLinux(path, c) ==
    LET move == Move(path.m1, c, LinuxPatterns)
        data == CASE move.result = "succeeded" -> <<>>
                  [] move.result = "unknown" /\ c # 0 -> Append(path.data, c)
                  [] OTHER -> path.data
    IN  [path |-> [path EXCEPT !.m1 = move.m, !.data = data], ok |-> move.result # "failed"]

AppendWsl(path, c) == [path |-> [path EXCEPT !.data = @ \o Encoded(path.class, c)], ok |-> TRUE]

AppendLegacy(path, c) ==
    LET new == AppendWsl(path, c).path
        moved  == Move(path.m1, c, MovedPatterns)
        nested == Move(path.m2, c, NestedPatterns)
    IN  IF moved.result = "succeeded" THEN [path |-> [new EXCEPT !.m1 = moved.m], ok |-> FALSE]
        ELSE [path |-> [new EXCEPT !.m1 = moved.m, !.m2 = nested.m,
                                   !.data = IF nested.result = "succeeded" THEN From(@, 8) ELSE @],
              ok |-> TRUE]

AppendChar(path, c) == CASE path.class = "linux"  -> AppendLinux(path, c)
                         [] path.class = "legacy" -> AppendLegacy(path, c)
                         [] OTHER                 -> AppendWsl(path, c)

AppendAll(path, text) ==
    FoldLeft(LAMBDA done, c : IF done.ok THEN AppendChar(done.path, c) ELSE done, [path |-> path, ok |-> TRUE], text)

-----------------------------------------------------------------------------
(* convert *)

Hidden(data) == \E w \in {home, root, mnt} :
    LET place == rootfs \o <<Back>> \o w IN data = place \/ IsPrefix(Append(place, Back), data)
IsMoved(data) == \E w \in {home, root, mnt} : IsPrefix(Append(w, Back), data)

(* Mutant: home without rootfs in front of it. *)
SpelledFlat(path) ==
    IF path.class = "linux" THEN [chars |-> rootfs \o <<Slash>> \o path.data, throws |-> FALSE]
    ELSE Decoded(path.class, path.data)

Spelled(path) ==
    LET text == Decoded(path.class, path.data)
        under == rootfs \o <<Slash>>
    IN  CASE path.class = "linux" -> [chars |-> under \o path.data, throws |-> FALSE]
          [] path.class = "legacy" /\ IsMoved(path.data) -> [text EXCEPT !.chars = under \o @]
          [] OTHER -> text

IsSkipped(from) == (from.class = "linux" /\ from.skip) \/ (from.class = "legacy" /\ Hidden(from.data))
Attempt(done, end) == [path |-> done.path, outcome |-> IF done.ok THEN end ELSE "refused"]
Appended(done, throws) == IF done.ok /\ ~throws THEN Attempt(AppendChar(done.path, 0), "done") ELSE Attempt(done, "throws")
Feed(to, text) == Appended(AppendAll(Reset(to), text.chars), text.throws)

Convert(from, to) == IF IsSkipped(from) THEN [path |-> to, outcome |-> "refused"] ELSE Feed(to, Spelled(from))

-----------------------------------------------------------------------------
(* The constructor linux_path(path, root_path).  At the beginning of a name "/" and
   "./" are passed over and "../" takes the name before it back; a last "." or ".."
   without a slash is a name like any other. *)

At(path, i, text) == IsPrefix(text, From(path, i))
LastSlash(data) == SelectLastInSeq(Front(data), LAMBDA c : c = Slash)
Parent(data) == IF data = <<>> THEN data ELSE SubSeq(data, 1, LastSlash(data))

Normal(path) ==
    LET walk[i \in 0 .. Len(path)] ==
            IF i = 0 THEN [begins |-> TRUE, pass |-> 0, data |-> <<>>]
            ELSE LET was == walk[i - 1]
                 IN  IF was.pass > 0 THEN [was EXCEPT !.pass = @ - 1] ELSE
                     CASE was.begins /\ path[i] = Slash -> was
                       [] was.begins /\ At(path, i, <<Dot, Slash>>) -> [was EXCEPT !.pass = 1]
                       [] was.begins /\ At(path, i, <<Dot, Dot, Slash>>) -> [was EXCEPT !.pass = 2, !.data = Parent(@)]
                       [] OTHER -> [begins |-> path[i] = Slash, pass |-> 0, data |-> Append(was.data, path[i])]
    IN  walk[Len(path)].data

Slashed(text) == IF Last(text) = Slash THEN text ELSE Append(text, Slash)
LinuxPath(path, prefix) ==
    LET inside == prefix = <<>> \/ IsPrefix(Slashed(prefix), path)
        data == Normal(IF prefix = <<>> THEN path ELSE From(path, Len(Slashed(prefix)) + 1))
    IN  IF inside THEN [New("linux") EXCEPT !.data = data, !.skip = (data = <<>>)]
        ELSE [New("linux") EXCEPT !.skip = TRUE]

(* normalize_path, and check_path on what it makes. *)
Verbatim == <<Back, Back, 63, Back>>
NormalizeOpen(text) == IF IsPrefix(Verbatim, text) THEN text ELSE Verbatim \o text
Normalize(text) ==
    LET o == IF IsPrefix(Verbatim, text) THEN text ELSE Verbatim \o text
    IN  IF Last(o) = Back THEN o ELSE Append(o, Back)

Letters == 65 .. 90 \cup 97 .. 122
IntoItself(to, from) == SubSeq(to, 1, IF Len(to) < Len(from) THEN Len(to) ELSE Len(from)) = from
IsDrive(to) == to[5] \in Letters /\ From(to, 6) = <<Colon, Back>>
CheckPath(to, from) == ~IntoItself(to, from) /\ ~IsDrive(to)

(* What get_full_path makes of a directory given by the user: its names from the drive
   on, "parts", with the prefix that turns normalization off or without, and with a
   backslash at the end or, but for a drive, without. *)
Long(parts) == FlattenSeq([i \in DOMAIN parts |-> Append(parts[i], Back)])
Spellings(parts) ==
    {p \o t : p \in {<<>>, Verbatim}, t \in {Long(parts)} \cup (IF Len(parts) > 1 THEN {Front(Long(parts))} ELSE {})}
IsDirectory(d) ==
    /\ d.parts \in Seq(Text) /\ d.parts # <<>> /\ d.text \in Spellings(d.parts)
    /\ \E letter \in Letters : d.parts[1] = <<letter, Colon>>
    /\ \A i \in DOMAIN d.parts : d.parts[i] # <<>> /\ \A k \in DOMAIN d.parts[i] : d.parts[i][k] # Back

ASSUME DirectoriesAssumption == \A b \in Bases : IsDirectory(b.from) /\ IsDirectory(b.to)

-----------------------------------------------------------------------------
(* run_checked; export and install do not check, and their directories do not matter. *)
Checked == "linux" \notin {source.class, target.class}

Init ==
    /\ \E class \in Sources : source = New(class) /\ rootPath \in (IF class = "linux" THEN Roots ELSE {NoRoot})
    /\ \E class \in Targets : (source.class = "linux" => class # "linux") /\ target = New(class)
    /\ bases \in (IF Checked THEN Bases ELSE {CHOOSE b \in Bases : TRUE})
    /\ phase = "new"
    /\ sizes = <<0>>
    /\ outcome = "none" /\ trail = <<>> /\ dir = TRUE

Begin ==
    /\ phase = "new"
    /\ phase' = IF Checked => CheckPath(Normalize(bases.to.text), Normalize(bases.from.text)) THEN "open" ELSE "over"
    /\ UNCHANGED <<bases, rootPath, source, target, sizes, outcome, trail, dir>>

(* A convert of "from"; an exception of stoi is not caught by anyone. *)
Outcome(converted) ==
    /\ target' = converted.path /\ outcome' = converted.outcome
    /\ phase' = IF converted.outcome = "throws" THEN "over" ELSE phase
Into(from) == source' = from /\ Outcome(Convert(from, target)) /\ UNCHANGED <<bases, rootPath>>

(* A name that version 2 cannot tell from another: read back, 0xF03A is a colon. *)
Reserved(n) == \E i \in DOMAIN n.linux : IsSpecial(Xor(n.linux[i]))

(* enum_directory: the next entry of the innermost open directory. *)
Here(data) == SubSeq(data, 1, Last(sizes))
On(class, n) == CASE class = "linux" -> n.linux [] class = "v2" -> n.v2 [] OTHER -> n.v1
Visit(n, isDir) ==
    /\ phase = "open" /\ source.class # "linux" /\ Len(sizes) <= MaxDepth
    /\ LET data == Here(source.data) \o On(source.class, n) \o (IF isDir THEN <<Back>> ELSE <<>>)
       IN  /\ Into([source EXCEPT !.data = data])
           /\ sizes' = IF isDir THEN Append(sizes, Len(data)) ELSE sizes
    /\ trail' = Append(SubSeq(trail, 1, Len(sizes) - 1), n)
    /\ dir' = isDir

Leave ==
    /\ phase = "open" /\ source.class # "linux" /\ Len(sizes) > 1
    /\ sizes' = Front(sizes)
    /\ UNCHANGED <<bases, rootPath, phase, source, target, outcome, trail, dir>>

(* archive_reader::run: rootfs first, then the entries, in any order. *)
RootEntry ==
    /\ phase = "open" /\ source.class = "linux" /\ outcome = "none"
    /\ Into(New("linux"))
    /\ trail' = <<Rootfs>>
    /\ UNCHANGED <<sizes, dir>>

(* The names of an entry with what tar programs put between them, and what is left
   of them: the reference for Normal. *)
Empty == Same(<<>>)
This == Same(<<Dot>>)
Above == Same(<<Dot, Dot>>)
Pieces == EntryNames \cup {Empty, This, Above}
Joined(class, names, closed) ==
    LET slash == <<IF class = "linux" THEN Slash ELSE Back>>
    IN  FlattenSeq([i \in DOMAIN names |-> On(class, names[i]) \o (IF i < Len(names) \/ closed THEN slash ELSE <<>>)])
Meant(pieces, closed) ==
    LET left[i \in 0 .. Len(pieces)] ==
            IF i = 0 THEN <<>>
            ELSE LET ends == i < Len(pieces) \/ closed
                     up == left[i - 1]
                 IN  CASE pieces[i] = Empty \/ (ends /\ pieces[i] = This) -> up
                       [] ends /\ pieces[i] = Above -> (IF up = <<>> THEN up ELSE Front(up))
                       [] OTHER -> Append(up, pieces[i])
    IN  left[Len(pieces)]

Entry ==
    /\ phase = "open" /\ source.class = "linux" /\ outcome # "none"
    /\ \E k \in 1 .. MaxDepth, closed \in BOOLEAN : \E pieces \in [1 .. k -> Pieces] :
         /\ Into(LinuxPath(Joined("linux", pieces, closed), IF rootPath = NoRoot THEN <<>> ELSE rootPath.linux))
         /\ LET below == IF rootPath = NoRoot THEN Meant(pieces, closed)
                         ELSE IF pieces[1] = rootPath /\ (k > 1 \/ closed) THEN Meant(Tail(pieces), closed) ELSE <<>>
            IN  trail' = IF below = <<>> THEN <<>> ELSE <<Rootfs>> \o below
         /\ dir' = (closed \/ pieces[k] = Empty)
    /\ UNCHANGED sizes

Finish ==
    /\ phase = "open" /\ outcome # "none"
    /\ phase' = "over"
    /\ UNCHANGED <<bases, rootPath, source, target, sizes, outcome, trail, dir>>

Finished == phase = "over" /\ UNCHANGED vars

Next ==
    \/ Begin \/ Leave \/ RootEntry \/ Entry \/ Finish \/ Finished
    \/ \E n \in Names \cup (IF source.class \in {"v1", "legacy"} THEN Foreign ELSE {}), isDir \in BOOLEAN :
          (source.class = "v2" => ~Reserved(n)) /\ Visit(n, isDir)

Spec == Init /\ [][Next]_vars
-----------------------------------------------------------------------------
(* Properties *)

Matched(m, patterns) == m.done \/ \E p \in patterns : IsStrictPrefix(m.seen, p)
PathOK(path) ==
    /\ path.class \in Classes /\ path.skip \in BOOLEAN /\ path.data \in Text
    /\ Matched(path.m1, IF path.class = "linux" THEN LinuxPatterns ELSE MovedPatterns)
    /\ Matched(path.m2, NestedPatterns)

\* Every variable holds a value of its kind, and a path for a disk holds only characters
\* that Windows allows in the name of a file.
TypeOK ==
    /\ bases \in Bases /\ rootPath \in Roots \cup {NoRoot} /\ phase \in {"new", "open", "over"}
    /\ PathOK(source) /\ PathOK(target)
    /\ target.class # "linux" => \A i \in DOMAIN target.data : Allowed(target.data[i])
    /\ sizes \in Seq(Nat) /\ sizes # <<>> /\ outcome \in {"none", "done", "refused", "throws"}
    /\ trail \in Seq(Names \cup Foreign \cup Pieces) /\ dir \in BOOLEAN

(* Where a file belongs, by the names on its way: in Linux, or beside it on the disk. *)
Known == \A i \in DOMAIN trail : trail[i] \notin Foreign
Top(names, set) == names # <<>> /\ names[1] \in set /\ (Len(names) > 1 \/ dir)
InRootfs == Top(trail, {Rootfs})
InLinux == InRootfs \/ (source.class = "legacy" /\ Top(trail, Moved))
LinuxNames == IF InRootfs THEN Tail(trail) ELSE trail

NoPlace ==
    \/ trail = <<>>
    \/ source.class = "legacy" /\ InRootfs /\ LinuxNames # <<>> /\ LinuxNames[1] \in Moved
    \/ target.class = "linux" /\ ~InLinux
    \/ target.class = "legacy" /\ ~InLinux /\ trail[1] \in Moved
Place ==
    CASE target.class = "linux" -> Joined("linux", LinuxNames, dir)
      [] target.class # "linux" /\ ~InLinux -> Joined(target.class, trail, dir)
      [] target.class = "legacy" /\ InLinux /\ Top(LinuxNames, Moved) -> Joined("legacy", LinuxNames, dir)
      [] OTHER -> Joined(target.class, <<Rootfs>> \o LinuxNames, dir)

\* Whatever was converted into the target before, completely or in part, every file whose
\* names WSL has made goes where its names say, and exactly the files without a place
\* in the target are refused: those beside rootfs in an archive, the mount points that the
\* legacy version hides, what a root directory in an archive leaves out.
Placed == outcome # "none" /\ Known =>
    IF NoPlace THEN outcome = "refused" ELSE outcome = "done" /\ target.data = Place

\* No two files arrive under one name: converted back, the path is the one it came from.
\* Exempt are names reserved in version 2, and a file (not a directory) /home, /root or /mnt
\* in the legacy version, which lands on the hidden mount point or has no place.
Lost == \/ "v2" \in {source.class, target.class} /\ \E i \in DOMAIN trail : Reserved(trail[i])
        \/ "legacy" \in {source.class, target.class} /\ ~dir /\ \E n \in Moved : LinuxNames = <<n>>
IsSource(converted) == converted.outcome = "done" /\ converted.path.data = source.data
ComesBack == outcome = "done" /\ Known /\ ~Lost => IsSource(Convert(target, New(source.class)))

\* A copy is refused if and only if its target is the source directory or lies in it, or is
\* the root of a drive, however the two were spelled by the user, as long as the letters
\* are the same: the comparison does not ignore case, as Windows does.
NotIntoItself == phase # "new" /\ Checked =>
    (IsPrefix(bases.from.parts, bases.to.parts) \/ Len(bases.to.parts) = 1 <=> phase = "over" /\ outcome = "none")
=============================================================================
