----------------------------- MODULE PlaceProofs -----------------------------
(***************************************************************************)
(* What TLAPS proves about the files that Paths converts: each goes where  *)
(* its names say or is refused for want of a place, and what arrives comes *)
(* back, for every set of names that WSL may have made and any depth.      *)
(***************************************************************************)
EXTENDS PathProofs, Layout

(* Names and their texts *)

\* The characters of a text are those of its names, and slashes.
LEMMA JoinedOf ==
  ASSUME NEW X \in SUBSET Code, Slash \in X, NEW ns \in Seq(NameRec), NEW closed \in BOOLEAN,
         \A i \in 1 .. Len(ns) : ns[i].linux \in Seq(X)
  PROVE  Joined("linux", ns, closed) \in Seq(X)
<1> DEFINE N == {n \in NameRec : n.linux \in Seq(X)}
           S == {s \in Seq(N) : Joined("linux", s, TRUE) \in Seq(X)}
<1>1. N \subseteq NameRec /\ \A s \in Seq(N) : s \in Seq(NameRec)
  <2>1. N \subseteq NameRec
    OBVIOUS
  <2> HIDE DEF N
  <2> QED BY <2>1, SeqMonotonic
<1>2. ASSUME NEW s \in Seq(N), NEW n \in N, NEW c \in BOOLEAN, Joined("linux", s, TRUE) \in Seq(X)
      PROVE  Joined("linux", Append(s, n), c) \in Seq(X)
  <2>1. Joined("linux", Append(s, n), c) = Joined("linux", s, TRUE) \o (On("linux", n) \o End("linux", c))
    BY <1>1, JoinedLast
  <2>2. On("linux", n) \in Seq(X) /\ End("linux", c) \in Seq(X)
    <3>1. End("linux", c) \in {<<>>, <<Slash>>} /\ On("linux", n) = n.linux
      BY DEF End, Sep, On
    <3>2. <<>> \in Seq(X) /\ <<Slash>> \in Seq(X)
      OBVIOUS
    <3> QED BY <3>1, <3>2
  <2>3. \A a, b \in Seq(X) : a \o b \in Seq(X)
    BY ConcatProperties
  <2>4. On("linux", n) \o End("linux", c) \in Seq(X)
    BY <2>2, <2>3
  <2>5. Joined("linux", s, TRUE) \o (On("linux", n) \o End("linux", c)) \in Seq(X)
    BY <1>2, <2>3, <2>4
  <2> QED BY <2>1, <2>5
<1>3. <<>> \in S
  <2>1. Joined("linux", <<>>, TRUE) = <<>>
    BY JoinedLast
  <2> QED BY <2>1, EmptySeq
<1>4. S = Seq(N)
  <2>1. S \in SUBSET Seq(N)
    OBVIOUS
  <2>2. ASSUME NEW s \in S, NEW n \in N PROVE Append(s, n) \in S
    <3>1. s \in Seq(N) /\ Joined("linux", s, TRUE) \in Seq(X)
      OBVIOUS
    <3> HIDE DEF N
    <3>2. Append(s, n) \in Seq(N) /\ Joined("linux", Append(s, n), TRUE) \in Seq(X)
      BY <1>2, <3>1, AppendProperties
    <3> QED BY <3>2
  <2> HIDE DEF S, N
  <2> QED BY <1>3, <2>1, <2>2, SeqInduction
<1>5. ns \in Seq(N)
  <2>1. \A T, Y : \A s \in Seq(T) : (\A i \in 1 .. Len(s) : s[i] \in Y) => s \in Seq(Y)
    BY SeqDef, LenProperties
  <2>2. \A i \in 1 .. Len(ns) : ns[i] \in N
    BY ElementOfSeq
  <2> HIDE DEF N
  <2> QED BY <2>1, <2>2
<1>6. CASE ns = <<>>
  BY <1>6, JoinedLast, EmptySeq, ZenonT(60)
<1>7. CASE ns # <<>>
  <2>1. PICK f \in Seq(N), l \in N : ns = Append(f, l)
    <3> HIDE DEF N
    <3> QED BY <1>5, <1>7, FirstAndLast, ZenonT(60)
  <2>2. Joined("linux", f, TRUE) \in Seq(X)
    BY <1>4
  <2> QED BY <1>2, <2>1, <2>2
<1> QED BY <1>6, <1>7

\* What a name WSL may make is in Linux.
LEMMA NamedText ==
  ASSUME NEW n \in Named
  PROVE  n.linux \in Seq(Letters0) /\ n.linux \in Text /\ n \in NameRec /\ On("linux", n) = n.linux
<1>1. n.linux \in Text /\ n \in NameRec /\ \A i \in 1 .. Len(n.linux) : n.linux[i] \notin {0, Slash}
  BY DEF Named, NameRec
<1>2. \A i \in 1 .. Len(n.linux) : n.linux[i] \in Letters0
  BY <1>1, ElementOfSeq DEF Text, Letters0
<1>3. \A T, Y : \A s \in Seq(T) : (\A i \in 1 .. Len(s) : s[i] \in Y) => s \in Seq(Y)
  BY SeqDef, LenProperties
<1> QED BY <1>1, <1>2, <1>3 DEF Text, On

\* Names WSL may make are names.
LEMMA NamedSeq == \A ns \in Seq(Named) : ns \in Seq(NameRec)
<1>1. Named \subseteq NameRec
  BY DEF Named
<1> QED BY <1>1, SeqMonotonic

\* What several names are in Linux has no 0.
LEMMA JoinedLetters ==
  ASSUME NEW ns \in Seq(Named), NEW closed \in BOOLEAN
  PROVE  Joined("linux", ns, closed) \in Seq(Letters0)
<1>1. Letters0 \subseteq Code /\ Slash \in Letters0
  BY Signs DEF Letters0, Slash
<1>2. \A i \in 1 .. Len(ns) : ns[i].linux \in Seq(Letters0)
  BY NamedText, ElementOfSeq
<1> QED BY <1>1, <1>2, NamedSeq, JoinedOf

\* Read back, the text on a disk is that in Linux.
LEMMA DecodedNames ==
  ASSUME NEW class \in Disks, NEW ns \in Seq(Named), NEW closed \in BOOLEAN,
         class = "v2" => \A i \in 1 .. Len(ns) : ~Reserved(ns[i])
  PROVE  Decoded(class, Joined(class, ns, closed)) = [chars |-> Joined("linux", ns, closed), throws |-> FALSE]
<1> DEFINE t == Joined("linux", ns, closed)
<1>1. t \in Seq(Letters0) /\ Joined(class, ns, closed) = Enc(class, t)
  BY JoinedLetters, JoinedSpelled
<1>2. CASE class # "v2"
  <2>1. class \in {"v1", "legacy"}
    BY <1>2 DEF Disks
  <2> HIDE DEF t
  <2>2. Decoded(class, Enc(class, t)) = [chars |-> t, throws |-> FALSE]
    BY <1>1, <2>1, VersionOneSpelling DEF Letters0
  <2> QED BY <1>1, <2>2 DEF t
<1>3. CASE class = "v2"
  <2> DEFINE X == {c \in Letters0 : ~IsSpecial(Xor(c))}
  <2>1. X \subseteq Code /\ Slash \in X
    <3>1. ~IsSpecial(Xor(Slash))
      BY SMT DEF Xor, IsSpecial, Slash, Colon, Back
    <3> QED BY <3>1, Signs DEF Letters0, Slash
  <2>2. ASSUME NEW i \in 1 .. Len(ns) PROVE ns[i].linux \in Seq(X)
    <3> DEFINE u == ns[i].linux
    <3>1. u \in Seq(Letters0) /\ ~Reserved(ns[i])
      BY <1>3, NamedText, ElementOfSeq
    <3>2. DOMAIN u = 1 .. Len(u)
      BY <3>1, LenProperties
    <3>3. \A j \in 1 .. Len(u) : u[j] \in Letters0
      BY <3>1, ElementOfSeq
    <3>4. \A j \in 1 .. Len(u) : ~IsSpecial(Xor(u[j]))
      BY <3>1, <3>2 DEF Reserved
    <3>5. \A j \in 1 .. Len(u) : u[j] \in X
      BY <3>3, <3>4
    <3>6. \A T, Y : \A s \in Seq(T) : (\A j \in 1 .. Len(s) : s[j] \in Y) => s \in Seq(Y)
      BY SeqDef, LenProperties
    <3> HIDE DEF X, u
    <3>7. u \in Seq(X)
      BY <3>1, <3>5, <3>6
    <3> QED BY <3>7 DEF u
  <2>3. t \in Seq(X)
    <3> HIDE DEF X
    <3> QED BY <2>1, <2>2, NamedSeq, JoinedOf
  <2> HIDE DEF t
  <2>4. \A i \in DOMAIN t : ~IsSpecial(Xor(t[i]))
    <3>1. \A i \in DOMAIN t : t[i] \in X
      <4> HIDE DEF X
      <4> QED BY <2>3, ElementOfSeq, LenProperties
    <3> QED BY <3>1
  <2>5. Decoded("v2", Written(t)).chars = t /\ Enc("v2", t) = Written(t)
    BY <1>1, <2>4, VersionTwoSpelling, EncIsWritten DEF Letters0
  <2>6. \A data : \E x : Decoded("v2", data) = [chars |-> x, throws |-> FALSE]
    BY DEF Decoded
  <2>7. Decoded("v2", Written(t)) = [chars |-> t, throws |-> FALSE]
    <3>1. PICK x : Decoded("v2", Written(t)) = [chars |-> x, throws |-> FALSE]
      BY <2>6
    <3> QED BY <2>5, <3>1
  <2> QED BY <1>1, <1>3, <2>5, <2>7 DEF t
<1> QED BY <1>2, <1>3

\* In Linux and in versions 1 no two names are spelled alike.
LEMMA OnIsName ==
  ASSUME NEW class \in Classes \ {"v2"}, NEW m \in Named, NEW n \in Named
  PROVE  On(class, m) = On(class, n) <=> m = n
<1>1. SUFFICES ASSUME On(class, m) = On(class, n) PROVE m = n
  OBVIOUS
<1>2. m.linux \in Seq(Letters0) /\ n.linux \in Seq(Letters0) /\ On("linux", m) = m.linux /\ On("linux", n) = n.linux
  BY NamedText
<1>3. m.linux = n.linux
  <2>1. CASE class = "linux"
    BY <1>1, <1>2, <2>1
  <2>2. CASE class # "linux"
    <3>1. class \in {"v1", "legacy"} /\ class \in Disks
      BY <2>2 DEF Disks, Classes
    <3>2. On(class, m) = Enc(class, m.linux) /\ On(class, n) = Enc(class, n.linux)
      BY <3>1 DEF Named
    <3>3. \A t \in Seq(Letters0) : Decoded(class, Enc(class, t)) = [chars |-> t, throws |-> FALSE]
      BY <3>1, VersionOneSpelling DEF Letters0
    <3>4. [chars |-> m.linux, throws |-> FALSE] = [chars |-> n.linux, throws |-> FALSE]
      BY <1>1, <1>2, <3>2, <3>3
    <3> QED BY <3>4
  <2> QED BY <2>1, <2>2
<1> QED BY <1>3, NameByLinux

(* Where names lead *)

Deep(ns) == Len(ns) > 1 /\ ns[1] = Rootfs /\ ns[2] \in Moved

\* The words of the code are names.
LEMMA WordNames ==
  ASSUME NEW class \in Classes \ {"v2"}, NEW n \in Named
  PROVE  (On(class, n) = rootfs <=> n = Rootfs) /\ (On(class, n) \in MovedWords <=> n \in Moved)
<1>1. \A w : On(class, Same(w)) = w
  BY DEF On, Same
<1>2. \A m \in Named : On(class, m) = On(class, n) <=> m = n
  BY OnIsName
<1>3. Rootfs \in Named /\ Moved \subseteq Named
  BY NamedNames
<1>4. On(class, n) = rootfs <=> n = Rootfs
  BY <1>1, <1>2, <1>3 DEF Rootfs
<1>5. \A w \in MovedWords : Same(w) \in Named /\ (On(class, n) = w <=> n = Same(w))
  <2>1. \A w \in MovedWords : Same(w) \in Moved
    BY DEF MovedWords, Moved
  <2> QED BY <1>1, <1>2, <1>3, <2>1
<1>6. n \in Moved <=> \E w \in MovedWords : n = Same(w)
  BY DEF MovedWords, Moved
<1>7. On(class, n) \in MovedWords <=> \E w \in MovedWords : On(class, n) = w
  OBVIOUS
<1> HIDE DEF MovedWords
<1> QED BY <1>4, <1>5, <1>6, <1>7

\* rootfs is none of the names that legacy moves.
LEMMA RootfsIsNotMoved == Rootfs \notin Moved
<1>1. rootfs # home /\ rootfs # root /\ rootfs # mnt
  <2>1. Len(rootfs) = 6 /\ Len(home) = 4 /\ Len(root) = 4 /\ Len(mnt) = 3
    BY DEF rootfs, home, root, mnt
  <2> QED BY <2>1
<1>2. \A w : Same(w).linux = w
  BY DEF Same
<1> QED BY <1>1, <1>2 DEF Rootfs, Moved

\* What a text begins with, by its names.
LEMMA Leads ==
  ASSUME NEW class \in Classes \ {"v2"}, NEW ns \in Seq(Named), NEW closed \in BOOLEAN, ns # <<>>
  PROVE  LET text == Joined(class, ns, closed)
             z == Sep(class)
         IN  /\ IsPrefix(Cell(rootfs, z, <<>>), text) <=> Goes(ns, closed) /\ ns[1] = Rootfs
             /\ (\E w \in MovedWords : IsPrefix(Cell(w, z, <<>>), text)) <=> Goes(ns, closed) /\ ns[1] \in Moved
             /\ text \in MovedWords <=> ~Goes(ns, closed) /\ ns[1] \in Moved
             /\ (\E w \in MovedWords : IsPrefix(Cell(rootfs, z, Cell(w, z, <<>>)), text)) <=> Deep(ns) /\ Goes(Tail(ns), closed)
             /\ (\E w \in MovedWords : text = Cell(rootfs, z, w)) <=> Deep(ns) /\ ~Goes(Tail(ns), closed)
<1> DEFINE text == Joined(class, ns, closed)
           z == Sep(class)
           rest == Joined(class, Tail(ns), closed)
<1>1. class \in Classes /\ (z = Slash \/ z = Back) /\ z \in Code
  BY Signs DEF Sep
<1>2. \A w \in MovedWords \cup {rootfs} : w \in Free(z) /\ w \in Text /\ w # <<>>
  BY <1>1, WordsAreFree
<1>3. ns[1] \in Named /\ Tail(ns) \in Seq(Named) /\ Len(Tail(ns)) = Len(ns) - 1 /\ Len(ns) \in Nat \ {0}
  BY FirstAndLast, EmptySeq
<1>4. Len(ns) > 1 <=> Tail(ns) # <<>>
  BY <1>3, EmptySeq
<1>5. Len(ns) > 1 => Tail(ns)[1] = ns[2] /\ ns[2] \in Named
  <2>1. Len(ns) > 1 => 1 \in 1 .. Len(Tail(ns)) /\ 2 \in 1 .. Len(ns)
    BY <1>3
  <2>2. \A i \in 1 .. Len(Tail(ns)) : Tail(ns)[i] = ns[i + 1]
    BY HeadTailProperties
  <2> QED BY <2>1, <2>2, ElementOfSeq
<1>6. \A w \in Free(z), v \in Text :
        /\ IsPrefix(Cell(w, z, v), text) <=> Goes(ns, closed) /\ On(class, ns[1]) = w /\ IsPrefix(v, rest)
        /\ text = Cell(w, z, v) <=> Goes(ns, closed) /\ On(class, ns[1]) = w /\ rest = v
        /\ w # <<>> => (text = w <=> ~Goes(ns, closed) /\ On(class, ns[1]) = w)
  BY <1>1, Begins
<1>7. \A w \in Free(z), v \in Text :
        /\ IsPrefix(Cell(w, z, v), rest) <=> /\ Tail(ns) # <<>> /\ Goes(Tail(ns), closed) /\ On(class, Tail(ns)[1]) = w
                                             /\ IsPrefix(v, Joined(class, Tail(Tail(ns)), closed))
        /\ w # <<>> => (rest = w <=> Tail(ns) # <<>> /\ ~Goes(Tail(ns), closed) /\ On(class, Tail(ns)[1]) = w)
  <2> DEFINE ms == Tail(ns)
  <2>1. ms \in Seq(Named) /\ rest = Joined(class, ms, closed)
    BY <1>3
  <2> HIDE DEF ms
  <2>2. \A w \in Free(z), v \in Text :
          /\ IsPrefix(Cell(w, z, v), rest) <=> /\ ms # <<>> /\ Goes(ms, closed) /\ On(class, ms[1]) = w
                                               /\ IsPrefix(v, Joined(class, Tail(ms), closed))
          /\ w # <<>> => (rest = w <=> ms # <<>> /\ ~Goes(ms, closed) /\ On(class, ms[1]) = w)
    BY <1>1, <2>1, Begins
  <2> QED BY <2>2 DEF ms
<1>8. \A t : t \in Text => IsPrefix(<<>>, t)
  <2>1. <<>> \in Text /\ Len(<<>>) = 0
    BY Words
  <2> QED BY <2>1, PrefixIs, LenIsNat
<1>9. <<>> \in Text /\ text \in Text /\ rest \in Text /\ Tail(ns) \in Seq(NameRec) /\ ns \in Seq(NameRec)
  BY <1>3, NamedSeq, JoinedLast, Words
<1>10. \A w \in MovedWords : Cell(w, z, <<>>) \in Text
  BY <1>1, <1>2, <1>9, Words, Texts DEF Cell
<1>11. /\ On(class, ns[1]) = rootfs <=> ns[1] = Rootfs
       /\ (\E w \in MovedWords : On(class, ns[1]) = w) <=> ns[1] \in Moved
  BY <1>3, WordNames
<1>12. Len(ns) > 1 => ((\E w \in MovedWords : On(class, Tail(ns)[1]) = w) <=> ns[2] \in Moved)
  BY <1>5, WordNames
<1> HIDE DEF text, rest, z, MovedWords
<1>13. IsPrefix(Cell(rootfs, z, <<>>), text) <=> Goes(ns, closed) /\ ns[1] = Rootfs
  BY <1>2, <1>6, <1>8, <1>9, <1>11
<1>14. (\E w \in MovedWords : IsPrefix(Cell(w, z, <<>>), text)) <=> Goes(ns, closed) /\ ns[1] \in Moved
  BY <1>2, <1>6, <1>8, <1>9, <1>11
<1>15. text \in MovedWords <=> ~Goes(ns, closed) /\ ns[1] \in Moved
  BY <1>2, <1>6, <1>9, <1>11
<1>16. Len(ns) > 1 => Goes(ns, closed)
  BY DEF Goes
<1>17. \A w \in MovedWords : IsPrefix(Cell(w, z, <<>>), rest) <=> Tail(ns) # <<>> /\ Goes(Tail(ns), closed) /\ On(class, Tail(ns)[1]) = w
  <2>1. Tail(ns) # <<>> => Joined(class, Tail(Tail(ns)), closed) \in Text
    BY <1>9, HeadTailProperties, JoinedLast
  <2> QED BY <1>2, <1>7, <1>8, <1>9, <2>1
<1>18. (\E w \in MovedWords : IsPrefix(Cell(rootfs, z, Cell(w, z, <<>>)), text)) <=> Deep(ns) /\ Goes(Tail(ns), closed)
  <2>1. \A w \in MovedWords : IsPrefix(Cell(rootfs, z, Cell(w, z, <<>>)), text)
              <=> /\ Goes(ns, closed) /\ On(class, ns[1]) = rootfs
                  /\ Tail(ns) # <<>> /\ Goes(Tail(ns), closed) /\ On(class, Tail(ns)[1]) = w
    BY <1>2, <1>6, <1>10, <1>17
  <2> HIDE DEF Goes
  <2> QED BY <1>4, <1>11, <1>12, <1>16, <2>1 DEF Deep
<1>19. (\E w \in MovedWords : text = Cell(rootfs, z, w)) <=> Deep(ns) /\ ~Goes(Tail(ns), closed)
  <2>1. \A w \in MovedWords : text = Cell(rootfs, z, w)
              <=> /\ Goes(ns, closed) /\ On(class, ns[1]) = rootfs
                  /\ Tail(ns) # <<>> /\ ~Goes(Tail(ns), closed) /\ On(class, Tail(ns)[1]) = w
    BY <1>2, <1>6, <1>7
  <2> HIDE DEF Goes
  <2> QED BY <1>4, <1>11, <1>12, <1>16, <2>1 DEF Deep
<1> QED BY <1>13, <1>14, <1>15, <1>18, <1>19 DEF text, z

(* The names that a path leads to in Linux, closed or not. *)
Full(class, ns, closed) ==
    IF class = "linux" \/ (class = "legacy" /\ Goes(ns, closed) /\ ns[1] \in Moved) THEN <<Rootfs>> \o ns ELSE ns

(* A path that spells names that WSL has made. *)
Spells(path, ns, closed) ==
    /\ path.data = Joined(path.class, ns, closed)
    /\ ns # <<>> \/ (path.class = "linux" /\ closed)
    /\ path.class = "v2" => \A i \in 1 .. Len(ns) : ~Reserved(ns[i])

\* The names a path leads to are names WSL may make, and there is one at least.
LEMMA FullIsNamed ==
  ASSUME NEW class, NEW ns \in Seq(Named), NEW closed, ns # <<>> \/ class = "linux"
  PROVE  Full(class, ns, closed) \in Seq(Named) /\ Full(class, ns, closed) # <<>>
<1>1. Rootfs \in Named
  BY NamedNames
<1>2. <<Rootfs>> \in Seq(Named) /\ <<Rootfs>> \o ns \in Seq(Named) /\ Len(<<Rootfs>> \o ns) = Len(ns) + 1 /\ Len(ns) \in Nat
  BY <1>1, ConcatProperties, LenProperties
<1>3. <<Rootfs>> \o ns # <<>>
  BY <1>2, EmptySeq
<1> HIDE DEF Rootfs, Named
<1> QED BY <1>2, <1>3 DEF Full

\* Rootfs and a slash in front of names.
LEMMA UnderNames ==
  ASSUME NEW ns \in Seq(Named), NEW closed \in BOOLEAN, ns # <<>> \/ closed
  PROVE  Joined("linux", <<Rootfs>> \o ns, closed) = Under(Joined("linux", ns, closed))
<1>1. Rootfs \in NameRec /\ ns \in Seq(NameRec)
  BY NamedNames, NamedSeq, NamedText
<1>2. Joined("linux", <<Rootfs>> \o ns, closed)
        = (On("linux", Rootfs) \o End("linux", ns # <<>> \/ closed)) \o Joined("linux", ns, closed)
  BY <1>1, JoinedFirst
<1>3. On("linux", Rootfs) = rootfs /\ End("linux", ns # <<>> \/ closed) = <<Slash>>
  BY DEF On, Rootfs, Same, End, Sep
<1> QED BY <1>2, <1>3 DEF Under, Cell

\* The names of a path as they are read.
LEMMA SpelledNames ==
  ASSUME NEW path, NEW ns \in Seq(Named), NEW closed \in BOOLEAN, path.class \in Classes, Spells(path, ns, closed)
  PROVE  Spelled(path) = [chars |-> Joined("linux", Full(path.class, ns, closed), closed), throws |-> FALSE]
<1> DEFINE C == path.class
           F == Full(C, ns, closed)
           text == Joined("linux", ns, closed)
<1>1. C \in Classes /\ path.data = Joined(C, ns, closed) /\ (ns # <<>> \/ (C = "linux" /\ closed))
  BY DEF Spells
<1>2. text \in Text
  BY JoinedLetters, LettersAreText
<1>3. Under(text) = rootfs \o <<Slash>> \o text
  BY <1>2, PatternsAre
<1>4. CASE C = "linux"
  <2>1. Spelled(path) = [chars |-> rootfs \o <<Slash>> \o path.data, throws |-> FALSE]
    BY <1>4, Zenon DEF Spelled
  <2>2. F = <<Rootfs>> \o ns
    BY <1>4 DEF Full
  <2> HIDE DEF F
  <2> QED BY <1>1, <1>3, <1>4, <2>1, <2>2, UnderNames DEF F
<1>5. CASE C # "linux"
  <2>1. C \in Disks /\ ns # <<>>
    BY <1>1, <1>5 DEF Disks, Classes
  <2>2. Decoded(C, path.data) = [chars |-> text, throws |-> FALSE]
    BY <1>1, <2>1, DecodedNames DEF Spells
  <2>3. C = "legacy" => (IsMoved(path.data) <=> Goes(ns, closed) /\ ns[1] \in Moved)
    <3>1. ASSUME C = "legacy" PROVE IsMoved(path.data) <=> Goes(ns, closed) /\ ns[1] \in Moved
      <4>1. "legacy" \in Classes \ {"v2"} /\ Sep("legacy") = Back
        BY DEF Classes, Sep
      <4>2. (\E w \in MovedWords : IsPrefix(Cell(w, Back, <<>>), path.data)) <=> Goes(ns, closed) /\ ns[1] \in Moved
        BY <1>1, <2>1, <3>1, <4>1, Leads
      <4>3. \A w \in MovedWords : Append(w, Back) = Cell(w, Back, <<>>)
        <5>1. \A w \in MovedWords : w \in Text /\ w \o <<Back>> \in Text
          BY WordsAreFree, Words, Texts
        <5> QED BY <5>1, Signs, Joining DEF Cell
      <4> HIDE DEF Goes, Moved
      <4> QED BY <4>2, <4>3 DEF IsMoved, MovedWords
    <3> QED BY <3>1
  <2>4. CASE C = "legacy" /\ IsMoved(path.data)
    <3>1. F = <<Rootfs>> \o ns
      BY <2>3, <2>4 DEF Full
    <3> DEFINE was == [chars |-> text, throws |-> FALSE]
               y == Under(text)
    <3>2. Spelled(path) = [Decoded(C, path.data) EXCEPT !.chars = rootfs \o <<Slash>> \o Decoded(C, path.data).chars]
      BY <2>4, Zenon DEF Spelled
    <3>3. was.chars = text
      OBVIOUS
    <3> HIDE DEF was, text, y, F
    <3>4. Spelled(path) = [was EXCEPT !.chars = y]
      BY <1>3, <2>2, <3>2, <3>3 DEF was, y
    <3>5. [was EXCEPT !.chars = y] = [chars |-> y, throws |-> FALSE]
      <4> DEFINE new == [was EXCEPT !.chars = y]
                 R == [chars : {text, y}, throws : {FALSE}]
      <4>1. new \in R /\ new.chars = y /\ new.throws = FALSE
        BY DEF was
      <4>2. \A r \in R : r = [chars |-> r.chars, throws |-> r.throws]
        OBVIOUS
      <4> HIDE DEF new
      <4> QED BY <4>1, <4>2 DEF new
    <3>6. y = Joined("linux", F, closed)
      BY <2>1, <3>1, UnderNames DEF y, text
    <3> QED BY <3>4, <3>5, <3>6 DEF F
  <2>5. CASE ~(C = "legacy" /\ IsMoved(path.data))
    <3>1. F = ns
      <4> HIDE DEF Goes, Moved
      <4> QED BY <1>5, <2>3, <2>5 DEF Full
    <3>2. Spelled(path) = Decoded(C, path.data)
      BY <1>5, <2>5, Zenon DEF Spelled
    <3> HIDE DEF F, text
    <3> QED BY <2>2, <3>1, <3>2 DEF F, text
  <2> QED BY <2>4, <2>5
<1> QED BY <1>4, <1>5

\* The paths that are not converted at all.
LEMMA SkippedNames ==
  ASSUME NEW path, NEW ns \in Seq(Named), NEW closed \in BOOLEAN, path.class \in Classes, Spells(path, ns, closed)
  PROVE  IsSkipped(path) <=> (path.class = "linux" /\ path.skip) \/ (path.class = "legacy" /\ Deep(ns))
<1>1. SUFFICES ASSUME path.class = "legacy" PROVE Hidden(path.data) <=> Deep(ns)
  BY DEF IsSkipped
<1>2. path.data = Joined("legacy", ns, closed) /\ ns # <<>>
  BY <1>1 DEF Spells
<1>3. "legacy" \in Classes \ {"v2"} /\ Sep("legacy") = Back
  BY DEF Classes, Sep
<1>4. (\E w \in MovedWords : IsPrefix(Cell(rootfs, Back, Cell(w, Back, <<>>)), path.data)) <=> Deep(ns) /\ Goes(Tail(ns), closed)
  BY <1>2, <1>3, Leads
<1>5. (\E w \in MovedWords : path.data = Cell(rootfs, Back, w)) <=> Deep(ns) /\ ~Goes(Tail(ns), closed)
  BY <1>2, <1>3, Leads
<1>6. ASSUME NEW w \in MovedWords
      PROVE  /\ rootfs \o <<Back>> \o w = Cell(rootfs, Back, w)
             /\ Append(Cell(rootfs, Back, w), Back) = Cell(rootfs, Back, Cell(w, Back, <<>>))
  <2>1. w \in Text /\ rootfs \o <<Back>> \in Text /\ w \o <<Back>> \in Text /\ rootfs \in Text /\ <<Back>> \in Text
    BY WordsAreFree, Words, Signs, Texts
  <2>2. rootfs \o <<Back>> \o w = Cell(rootfs, Back, w)
    BY DEF Cell
  <2>3. Cell(w, Back, <<>>) = Append(w, Back)
    BY <2>1, Signs, Joining DEF Cell
  <2> DEFINE a == rootfs \o <<Back>>
  <2>4. a \in Text
    BY <2>1
  <2> HIDE DEF a
  <2>5. Append(a \o w, Back) = a \o Append(w, Back)
    <3>1. w \in Text /\ Back \in Code
      BY <2>1, Signs
    <3> QED BY ONLY <2>4, <3>1, Joining
  <2> QED BY <2>2, <2>3, <2>5 DEF Cell, a
<1>7. Hidden(path.data) <=> \E w \in MovedWords : path.data = Cell(rootfs, Back, w)
                                                 \/ IsPrefix(Cell(rootfs, Back, Cell(w, Back, <<>>)), path.data)
  <2>1. Hidden(path.data) <=> \E w \in MovedWords :
           path.data = rootfs \o <<Back>> \o w \/ IsPrefix(Append(rootfs \o <<Back>> \o w, Back), path.data)
    BY Zenon DEF Hidden, MovedWords
  <2> HIDE DEF MovedWords
  <2> QED BY <1>6, <2>1
<1> HIDE DEF Deep, Goes, MovedWords
<1> QED BY <1>4, <1>5, <1>7

(* Where names have a place in a target, and which of them are spelled there. *)
Fits(class, ns, closed) ==
    CASE class = "linux"  -> Goes(ns, closed) /\ ns[1] = Rootfs
      [] class = "legacy" -> ns[1] \notin Moved
      [] OTHER -> TRUE
Stored(class, ns, closed) ==
    IF class = "linux" \/ (class = "legacy" /\ Deep(ns) /\ Goes(Tail(ns), closed)) THEN Tail(ns) ELSE ns

\* Without the rootfs in front of it.
LEMMA BehindRootfs ==
  ASSUME NEW ns \in Seq(Named), NEW closed \in BOOLEAN, ns # <<>>, Goes(ns, closed), ns[1] = Rootfs
  PROVE  From(Joined("linux", ns, closed), 8) = Joined("linux", Tail(ns), closed)
<1> DEFINE rest == Tail(ns)
<1>1. rest \in Seq(Named) /\ ns = <<Rootfs>> \o rest /\ Len(rest) = Len(ns) - 1 /\ Len(ns) \in Nat
  BY FirstAndLast, LenProperties
<1> HIDE DEF rest
<1>2. rest # <<>> \/ closed
  <2>1. Len(ns) > 1 => Len(rest) # 0
    BY <1>1
  <2> QED BY <1>1, <2>1, EmptySeq DEF Goes
<1>3. Joined("linux", ns, closed) = Under(Joined("linux", rest, closed))
  BY <1>1, <1>2, UnderNames
<1>4. Joined("linux", rest, closed) \in Text
  BY <1>1, JoinedLetters, LettersAreText
<1> QED BY <1>3, <1>4, UnderIs DEF rest

\* Names that are appended to a target as a text of Linux.
LEMMA FedNames ==
  ASSUME NEW class \in Classes, NEW to \in DiskPaths(class), NEW ns \in Seq(Named), NEW closed \in BOOLEAN, ns # <<>>
  PROVE  LET fed == Fed(to, Joined("linux", ns, closed))
         IN  /\ Fits(class, ns, closed) => fed.outcome = "done" /\ fed.path.data = Joined(class, Stored(class, ns, closed), closed)
             /\ ~Fits(class, ns, closed) => fed.outcome = "refused"
<1> DEFINE text == Joined("linux", ns, closed)
           fed == Fed(to, text)
<1>1. text \in Seq(Letters0) /\ text \in Text
  BY JoinedLetters, LettersAreText
<1>2. "linux" \in Classes \ {"v2"} /\ Sep("linux") = Slash
  BY DEF Classes, Sep
<1>3. /\ IsPrefix(Cell(rootfs, Slash, <<>>), text) <=> Goes(ns, closed) /\ ns[1] = Rootfs
      /\ (\E w \in MovedWords : IsPrefix(Cell(w, Slash, <<>>), text)) <=> Goes(ns, closed) /\ ns[1] \in Moved
      /\ text \in MovedWords <=> ~Goes(ns, closed) /\ ns[1] \in Moved
      /\ (\E w \in MovedWords : IsPrefix(Cell(rootfs, Slash, Cell(w, Slash, <<>>)), text)) <=> Deep(ns) /\ Goes(Tail(ns), closed)
  BY <1>2, Leads
<1>4. \A w \in MovedWords : Cell(w, Slash, <<>>) = Append(w, Slash)
  <2>1. \A w \in MovedWords : w \in Text /\ w \o <<Slash>> \in Text
    BY WordsAreFree, Words, Texts
  <2> QED BY <2>1, Signs, Joining DEF Cell
<1>5. CASE class \in {"v1", "v2"}
  <2>1. fed.outcome = "done" /\ fed.path.data = Enc(class, text)
    BY <1>1, <1>5, FedWsl
  <2>2. Joined(class, ns, closed) = Enc(class, text)
    BY <1>5, JoinedSpelled DEF Disks
  <2>3. Fits(class, ns, closed) /\ Stored(class, ns, closed) = ns
    BY <1>5 DEF Fits, Stored
  <2> HIDE DEF fed
  <2> QED BY <2>1, <2>2, <2>3 DEF fed
<1>6. CASE class = "linux"
  <2>1. /\ IsPrefix(Under(<<>>), text) => fed.outcome = "done" /\ fed.path.data = From(text, 8)
        /\ ~IsPrefix(Under(<<>>), text) => fed.outcome = "refused"
    BY <1>1, <1>6, FedLinux
  <2>2. IsPrefix(Under(<<>>), text) <=> Fits(class, ns, closed)
    BY <1>3, <1>6 DEF Fits, Under
  <2>3. Fits(class, ns, closed) => From(text, 8) = Joined(class, Stored(class, ns, closed), closed)
    BY <1>6, BehindRootfs DEF Fits, Stored
  <2> HIDE DEF fed, text
  <2> QED BY <2>1, <2>2, <2>3 DEF fed, text
<1>7. CASE class = "legacy"
  <2>1. /\ Occupied(text) => fed.outcome = "refused"
        /\ ~Occupied(text) => /\ fed.outcome = "done"
                              /\ fed.path.data = Enc("legacy", IF Some(text, NestedPatterns) THEN From(text, 8) ELSE text)
    BY <1>1, <1>7, FedLegacy
  <2>2. Occupied(text) <=> ns[1] \in Moved
    <3>1. Occupied(text) <=> text \in MovedWords \/ \E w \in MovedWords : IsPrefix(Cell(w, Slash, <<>>), text)
      <4> HIDE DEF text, MovedWords
      <4> QED BY <1>4 DEF Occupied
    <3> HIDE DEF text, MovedWords, Goes
    <3> QED BY <1>3, <3>1 DEF text
  <2>3. Fits(class, ns, closed) <=> ~Occupied(text)
    BY <1>7, <2>2 DEF Fits
  <2>4. Some(text, NestedPatterns) <=> Deep(ns) /\ Goes(Tail(ns), closed)
    <3>1. Some(text, NestedPatterns) <=> \E w \in MovedWords : IsPrefix(Under(Append(w, Slash)), text)
      <4> HIDE DEF text, MovedWords
      <4> QED BY PatternsAre DEF Some
    <3>2. \A w \in MovedWords : Under(Append(w, Slash)) = Cell(rootfs, Slash, Cell(w, Slash, <<>>))
      <4> HIDE DEF MovedWords
      <4> QED BY <1>4 DEF Under
    <3> HIDE DEF text, MovedWords, Goes, Deep
    <3> QED BY <1>3, <3>1, <3>2 DEF text
  <2>5. CASE Deep(ns) /\ Goes(Tail(ns), closed)
    <3>1. ns[1] = Rootfs /\ Goes(ns, closed)
      BY <2>5 DEF Deep, Goes
    <3>2. From(text, 8) = Joined("linux", Tail(ns), closed) /\ Tail(ns) \in Seq(Named)
      BY <3>1, BehindRootfs, FirstAndLast
    <3>3. Joined("legacy", Tail(ns), closed) = Enc("legacy", From(text, 8))
      BY <3>2, JoinedSpelled DEF Disks
    <3>4. Stored(class, ns, closed) = Tail(ns)
      BY <1>7, <2>5 DEF Stored
    <3> HIDE DEF fed, text, Deep, Goes
    <3> QED BY <1>7, <2>1, <2>3, <2>4, <2>5, <3>3, <3>4 DEF fed, text
  <2>6. CASE ~(Deep(ns) /\ Goes(Tail(ns), closed))
    <3>1. Joined("legacy", ns, closed) = Enc("legacy", text)
      BY JoinedSpelled DEF Disks
    <3>2. Stored(class, ns, closed) = ns
      BY <1>7, <2>6 DEF Stored
    <3> HIDE DEF fed, text, Deep, Goes
    <3> QED BY <1>7, <2>1, <2>3, <2>4, <2>6, <3>1, <3>2 DEF fed, text
  <2> QED BY <2>5, <2>6
<1> QED BY <1>5, <1>6, <1>7 DEF Classes

(* What converting names makes of them. *)
Hides(path, ns) == (path.class = "linux" /\ path.skip) \/ (path.class = "legacy" /\ Deep(ns))
Arrives(path, class, ns, closed) == ~Hides(path, ns) /\ Fits(class, Full(path.class, ns, closed), closed)

\* A path of names that WSL has made is converted name by name: refused, or spelled anew.
THEOREM ConvertsNames ==
  ASSUME NEW path, NEW class \in Classes, NEW to \in DiskPaths(class), NEW ns \in Seq(Named), NEW closed \in BOOLEAN,
         path.class \in Classes, Spells(path, ns, closed)
  PROVE  LET converted == Convert(path, to)
         IN  /\ Arrives(path, class, ns, closed) =>
                  /\ converted.outcome = "done"
                  /\ converted.path.data = Joined(class, Stored(class, Full(path.class, ns, closed), closed), closed)
             /\ ~Arrives(path, class, ns, closed) => converted.outcome = "refused"
<1> DEFINE converted == Convert(path, to)
           F == Full(path.class, ns, closed)
<1>1. IsSkipped(path) <=> Hides(path, ns)
  BY SkippedNames DEF Hides
<1>2. IsSkipped(path) => converted.outcome = "refused"
  BY DEF Convert
<1>3. ~IsSkipped(path) => converted = Fed(to, Joined("linux", F, closed))
  <2>1. ~IsSkipped(path) => converted = Feed(to, Spelled(path))
    BY DEF Convert
  <2>2. Spelled(path) = [chars |-> Joined("linux", F, closed), throws |-> FALSE]
    BY SpelledNames
  <2> HIDE DEF converted, F
  <2> QED BY <2>1, <2>2 DEF Fed
<1>4. F \in Seq(Named) /\ F # <<>>
  <2>1. ns # <<>> \/ path.class = "linux"
    BY DEF Spells
  <2> QED BY <2>1, FullIsNamed
<1> HIDE DEF converted, F
<1>5. /\ Fits(class, F, closed) => /\ Fed(to, Joined("linux", F, closed)).outcome = "done"
                                   /\ Fed(to, Joined("linux", F, closed)).path.data = Joined(class, Stored(class, F, closed), closed)
      /\ ~Fits(class, F, closed) => Fed(to, Joined("linux", F, closed)).outcome = "refused"
  BY <1>4, FedNames
<1> QED BY <1>1, <1>2, <1>3, <1>5 DEF Arrives, converted, F

\* No append touches skip.
LEMMA CharKeepsSkip ==
  ASSUME NEW class \in Classes, NEW p \in DiskPaths(class), NEW c \in Code
  PROVE  AppendChar(p, c).path.skip = p.skip
<1>1. p \in PathRec
  BY PathParts DEF DiskPaths
<1>2. \A d, m, k : /\ [p EXCEPT !.data = d].skip = p.skip
                   /\ [p EXCEPT !.m1 = m, !.data = d].skip = p.skip
                   /\ [p EXCEPT !.m1 = m].skip = p.skip
                   /\ [p EXCEPT !.m1 = m, !.m2 = k, !.data = d].skip = p.skip
  BY <1>1 DEF PathRec
<1>3. AppendLinux(p, c).path.skip = p.skip
  BY <1>2 DEF AppendLinux
<1>4. \A d : [p EXCEPT !.data = d] \in [class : {p.class}, data : {d}, skip : {p.skip}, m1 : {p.m1}, m2 : {p.m2}]
  BY <1>1 DEF PathRec
<1>5. AppendWsl(p, c).path.skip = p.skip
  BY <1>2 DEF AppendWsl
<1>6. AppendLegacy(p, c).path.skip = p.skip
  <2> DEFINE new == AppendWsl(p, c).path
             moved == Move(p.m1, c, MovedPatterns)
             nested == Move(p.m2, c, NestedPatterns)
  <2>1. new \in [class : {p.class}, data : {new.data}, skip : {p.skip}, m1 : {p.m1}, m2 : {p.m2}]
    <3>1. new = [p EXCEPT !.data = p.data \o Encoded(p.class, c)]
      BY DEF AppendWsl
    <3> DEFINE d == p.data \o Encoded(p.class, c)
    <3>2. new = [p EXCEPT !.data = d]
      BY <3>1
    <3> HIDE DEF d, new
    <3>3. new \in [class : {p.class}, data : {d}, skip : {p.skip}, m1 : {p.m1}, m2 : {p.m2}]
      BY <1>4, <3>2
    <3> QED BY <3>3
  <2>2. AppendLegacy(p, c) =
           IF moved.result = "succeeded" THEN [path |-> [new EXCEPT !.m1 = moved.m], ok |-> FALSE]
           ELSE [path |-> [new EXCEPT !.m1 = moved.m, !.m2 = nested.m,
                                      !.data = IF nested.result = "succeeded" THEN From(new.data, 8) ELSE new.data],
                 ok |-> TRUE]
    BY Zenon DEF AppendLegacy
  <2> HIDE DEF new, moved, nested
  <2>3. \A d, m, k : [new EXCEPT !.m1 = m].skip = p.skip /\ [new EXCEPT !.m1 = m, !.m2 = k, !.data = d].skip = p.skip
    BY <2>1
  <2> QED BY <2>2, <2>3
<1> QED BY <1>3, <1>5, <1>6 DEF AppendChar

\* Nor does a conversion.
LEMMA ConvertKeepsSkip ==
  ASSUME NEW class \in Classes, NEW from \in PathType, NEW to \in DiskPaths(class)
  PROVE  Convert(from, to).path.skip = to.skip
<1> DEFINE X == {done \in Appendings(class) : done.path.skip = to.skip}
           text == Spelled(from)
           all == AppendAll(Reset(to), text.chars)
           last == AppendChar(all.path, 0)
<1>1. Reset(to) \in DiskPaths(class) /\ Reset(to).skip = to.skip
  BY ResetIs DEF HasParts
<1>2. text.chars \in Text
  BY SpelledType DEF Reading
<1>3. [path |-> Reset(to), ok |-> TRUE] \in X
  BY <1>1 DEF Appendings
<1>4. ASSUME NEW done \in X, NEW c \in Code PROVE (IF done.ok THEN AppendChar(done.path, c) ELSE done) \in X
  <2>1. done \in Appendings(class) /\ done.path \in DiskPaths(class) /\ done.path.skip = to.skip
    BY DEF Appendings
  <2>2. (IF done.ok THEN AppendChar(done.path, c) ELSE done) \in Appendings(class)
    BY <2>1, NextType DEF Next1
  <2>3. AppendChar(done.path, c).path.skip = to.skip
    BY <2>1, CharKeepsSkip
  <2> QED BY <2>1, <2>2, <2>3
<1> HIDE DEF text
<1>5. all \in X
  <2>1. \A done \in X, c \in Code : (IF done.ok THEN AppendChar(done.path, c) ELSE done) \in X
    BY <1>4
  <2> HIDE DEF X
  <2> QED BY <1>2, <1>3, <2>1, AppendAllKeeps
<1>6. all.path \in DiskPaths(class) /\ all.path.skip = to.skip
  BY <1>5 DEF Appendings
<1> HIDE DEF all
<1>7. last.path.skip = to.skip
  BY <1>6, CharKeepsSkip, Signs
<1> HIDE DEF last
<1>8. Convert(from, to).path \in {to, last.path, all.path}
  BY DEF Convert, Feed, Appended, Attempt, text, all, last
<1> QED BY <1>6, <1>7, <1>8

\* Converted there and back, names are what they were.
LEMMA NamesComeBack ==
  ASSUME NEW from, NEW class \in Classes, NEW ns \in Seq(Named), NEW closed \in BOOLEAN, from.class \in Classes,
         Spells(from, ns, closed), Arrives(from, class, ns, closed),
         NEW there \in DiskPaths(class), there.skip = FALSE,
         there.data = Joined(class, Stored(class, Full(from.class, ns, closed), closed), closed),
         class = "v2" => \A i \in 1 .. Len(ns) : ~Reserved(ns[i]),
         "legacy" \in {from.class, class} /\ ~closed =>
             \A n \in Moved : Full(from.class, ns, closed) # <<Rootfs, n>> /\ Full(from.class, ns, closed) # <<n>>
  PROVE  LET back == Convert(there, New(from.class)) IN back.outcome = "done" /\ back.path.data = from.data
<1> DEFINE C == from.class
           F == Full(C, ns, closed)
           G == Stored(class, F, closed)
<1>1. C \in Classes /\ (ns # <<>> \/ (C = "linux" /\ closed)) /\ from.data = Joined(C, ns, closed)
      /\ (C = "v2" => \A i \in 1 .. Len(ns) : ~Reserved(ns[i]))
  BY DEF Spells
<1>2. ~Hides(from, ns) /\ Fits(class, F, closed)
  BY DEF Arrives
<1>3. F \in Seq(Named) /\ F # <<>> /\ Len(F) \in Nat \ {0} /\ Len(ns) \in Nat
  <2>1. F \in Seq(Named) /\ F # <<>>
    BY <1>1, FullIsNamed
  <2> HIDE DEF F, Named
  <2> QED BY <2>1, EmptySeq, LenProperties
<1>4. Tail(F) \in Seq(Named) /\ F = <<F[1]>> \o Tail(F) /\ Len(Tail(F)) = Len(F) - 1 /\ F[1] \in Named
  <2> HIDE DEF F
  <2> QED BY <1>3, FirstAndLast
<1>5. ASSUME F = <<Rootfs>> \o ns
      PROVE  /\ F[1] = Rootfs /\ Tail(F) = ns /\ Len(F) = Len(ns) + 1
             /\ \A i \in 1 .. Len(ns) : F[i + 1] = ns[i]
  <2>1. Rootfs \in Named
    BY NamedNames
  <2>2. \A T : \A r \in T, s \in Seq(T) : (<<r>> \o s)[1] = r /\ Len(<<r>> \o s) = Len(s) + 1
               /\ \A i \in 1 .. Len(s) : (<<r>> \o s)[i + 1] = s[i]
    <3>1. \A T : \A r \in T : <<r>> \in Seq(T) /\ Len(<<r>>) = 1 /\ <<r>>[1] = r
      OBVIOUS
    <3>2. SUFFICES ASSUME NEW T, NEW r \in T, NEW s \in Seq(T)
                   PROVE  (<<r>> \o s)[1] = r /\ Len(<<r>> \o s) = Len(s) + 1 /\ \A i \in 1 .. Len(s) : (<<r>> \o s)[i + 1] = s[i]
      OBVIOUS
    <3> DEFINE a == <<r>>
    <3>3. a \in Seq(T) /\ Len(a) = 1 /\ a[1] = r /\ Len(s) \in Nat
      BY LenProperties
    <3> HIDE DEF a
    <3>4. Len(a \o s) = 1 + Len(s) /\ \A i \in 1 .. Len(a) + Len(s) : (a \o s)[i] = IF i <= Len(a) THEN a[i] ELSE s[i - Len(a)]
      <4>1. Len(a \o s) = Len(a) + Len(s) /\ \A i \in 1 .. Len(a) + Len(s) : (a \o s)[i] = IF i <= Len(a) THEN a[i] ELSE s[i - Len(a)]
        BY ONLY <3>3, s \in Seq(T), ConcatProperties
      <4> QED BY ONLY <3>3, <4>1
    <3>5. \A i \in 1 .. Len(s) : i + 1 \in 1 .. Len(a) + Len(s) /\ ~(i + 1 <= Len(a)) /\ i + 1 - Len(a) = i
      BY ONLY <3>3
    <3>6. 1 \in 1 .. Len(a) + Len(s)
      BY ONLY <3>3
    <3>7. (a \o s)[1] = r /\ Len(a \o s) = Len(s) + 1 /\ \A i \in 1 .. Len(s) : (a \o s)[i + 1] = s[i]
      <4>1. (a \o s)[1] = r
        BY ONLY <3>3, <3>4, <3>6
      <4>2. \A i \in 1 .. Len(s) : (a \o s)[i + 1] = s[i]
        BY ONLY <3>4, <3>5
      <4> QED BY ONLY <3>3, <3>4, <4>1, <4>2
    <3> QED BY <3>7 DEF a
  <2> HIDE DEF F, Named
  <2>3. F[1] = Rootfs /\ Len(F) = Len(ns) + 1 /\ \A i \in 1 .. Len(ns) : F[i + 1] = ns[i]
    BY <1>5, <2>1, <2>2
  <2>4. \A i \in 1 .. Len(Tail(F)) : Tail(F)[i] = F[i + 1]
    BY <1>3, HeadTailProperties
  <2>5. Len(Tail(F)) = Len(ns) /\ \A i \in 1 .. Len(ns) : Tail(F)[i] = ns[i]
    BY <1>3, <1>4, <2>3, <2>4
  <2>6. Tail(F) = ns
    BY <1>4, <2>5, SeqEqual
  <2> QED BY <2>3, <2>6
<1>6. F = ns \/ (F = <<Rootfs>> \o ns /\ C \in {"linux", "legacy"})
  BY DEF Full
<1>7. Rootfs \notin Moved
  BY RootfsIsNotMoved
<1>8. G = F \/ (G = Tail(F) /\ class \in {"linux", "legacy"})
  BY DEF Stored
<1> HIDE DEF G, F
\* The other way.
<1>9. Full(class, G, closed) = F
  <2>1. CASE class = "linux"
    <3>1. G = Tail(F) /\ F[1] = Rootfs
      BY <1>2, <2>1 DEF G, Stored, Fits
    <3> QED BY <1>4, <2>1, <3>1 DEF Full
  <2>2. CASE class = "legacy" /\ Deep(F) /\ Goes(Tail(F), closed)
    <3>1. G = Tail(F) /\ F[1] = Rootfs /\ Len(F) > 1 /\ F[2] \in Moved
      BY <2>2 DEF G, Stored, Deep
    <3>2. G[1] = F[2]
      <4>1. 1 \in 1 .. Len(Tail(F)) /\ 1 + 1 = 2
        BY <1>3, <1>4, <3>1
      <4>2. \A i \in 1 .. Len(Tail(F)) : Tail(F)[i] = F[i + 1]
        BY <1>3, HeadTailProperties
      <4> QED BY <3>1, <4>1, <4>2
    <3> QED BY <1>4, <2>2, <3>1, <3>2 DEF Full
  <2>3. CASE class = "legacy" /\ ~(Deep(F) /\ Goes(Tail(F), closed))
    <3>1. G = F /\ F[1] \notin Moved
      BY <1>2, <2>3 DEF G, Stored, Fits
    <3> QED BY <2>3, <3>1 DEF Full
  <2>4. CASE class \notin {"linux", "legacy"}
    <3>1. G = F
      BY <2>4 DEF G, Stored
    <3> QED BY <2>4, <3>1 DEF Full
  <2> QED BY <2>1, <2>2, <2>3, <2>4
<1>10. Fits(C, F, closed)
  <2>1. CASE C = "linux"
    <3>1. F = <<Rootfs>> \o ns
      BY <2>1 DEF F, Full
    <3>2. ns # <<>> => Len(ns) > 0
      BY <1>3, EmptySeq
    <3> QED BY <1>1, <1>3, <1>5, <2>1, <3>1, <3>2 DEF Fits, Goes
  <2>2. CASE C = "legacy" /\ Goes(ns, closed) /\ ns[1] \in Moved
    <3>1. F = <<Rootfs>> \o ns
      BY <2>2 DEF F, Full
    <3> QED BY <1>5, <1>7, <2>2, <3>1 DEF Fits
  <2>3. CASE C = "legacy" /\ ~(Goes(ns, closed) /\ ns[1] \in Moved)
    <3>1. F = ns /\ ns # <<>>
      BY <1>1, <2>3 DEF F, Full
    <3>2. ASSUME ns[1] \in Moved PROVE FALSE
      <4>0. Len(ns) # 0
        BY <3>1, EmptySeq
      <4>1. ~closed /\ Len(ns) = 1
        <5>1. ~(Len(ns) > 1) /\ ~closed
          BY <2>3, <3>2 DEF Goes
        <5>2. Len(ns) = 1
          <6>1. \A k \in Nat : k # 0 /\ ~(k > 1) => k = 1
            OBVIOUS
          <6> QED BY <1>3, <4>0, <5>1, <6>1, Zenon
        <5> QED BY <5>1, <5>2
      <4>2. ns = <<ns[1]>>
        BY <4>1
      <4> QED BY <2>3, <3>1, <3>2, <4>1, <4>2 DEF F
    <3> QED BY <2>3, <3>1, <3>2 DEF Fits
  <2>4. CASE C \notin {"linux", "legacy"}
    BY <2>4 DEF Fits
  <2> QED BY <2>1, <2>2, <2>3, <2>4
<1>11. Stored(C, F, closed) = ns
  <2>1. CASE F = <<Rootfs>> \o ns
    <3>1. C = "linux" \/ (C = "legacy" /\ Goes(ns, closed) /\ ns[1] \in Moved)
      <4>0. Len(F) # Len(ns)
        <5>1. \A k \in Nat : k + 1 # k
          OBVIOUS
        <5>2. Len(F) = Len(ns) + 1 /\ Len(ns) \in Nat
          BY <1>3, <1>5, <2>1, Zenon
        <5> QED BY <5>1, <5>2
      <4>1. F # ns
        BY <4>0
      <4> QED BY <4>1 DEF F, Full
    <3>2. C = "legacy" => Deep(F) /\ Goes(Tail(F), closed)
      <4>1. ASSUME C = "legacy" PROVE Len(F) > 1 /\ F[2] = ns[1]
        <5>1. ns # <<>> /\ Len(ns) > 0
          BY <1>1, <1>3, <4>1, EmptySeq
        <5>2. 1 \in 1 .. Len(ns) /\ 1 + 1 = 2
          BY <1>3, <5>1
        <5>3. F[1 + 1] = ns[1]
          BY <1>5, <2>1, <5>2
        <5> QED BY <1>3, <1>5, <2>1, <5>1, <5>2, <5>3
      <4> HIDE DEF Goes
      <4> QED BY <1>5, <2>1, <3>1, <4>1 DEF Deep
    <3> HIDE DEF Goes, Deep
    <3> QED BY <1>5, <2>1, <3>1, <3>2 DEF Stored
  <2>2. CASE F # <<Rootfs>> \o ns
    <3>1. F = ns /\ C # "linux"
      BY <1>6, <2>2 DEF F, Full
    <3>2. C = "legacy" => ~Deep(F)
      BY <1>2, <3>1 DEF Hides
    <3> QED BY <3>1, <3>2 DEF Stored
  <2> QED BY <2>1, <2>2
<1>12. there.class = class
  BY DEF DiskPaths
<1>13. G \in Seq(Named)
  BY <1>3, <1>4, <1>8
<1>14. Spells(there, G, closed)
  <2>1. there.data = Joined(class, G, closed)
    BY DEF G, F
  <2>2. G # <<>> \/ (class = "linux" /\ closed)
    <3>1. CASE G = F
      BY <1>3, <3>1
    <3>2. CASE G # F
      <4>1. G = Tail(F) /\ (class = "linux" \/ (class = "legacy" /\ Deep(F)))
        BY <3>2 DEF G, Stored
      <4>2. Len(F) > 1 \/ (class = "linux" /\ closed)
        BY <1>2, <4>1 DEF Fits, Goes, Deep
      <4>3. Len(F) > 1 => Len(G) # 0
        BY <1>3, <1>4, <4>1
      <4> QED BY <1>13, <4>2, <4>3, EmptySeq
    <3> QED BY <3>1, <3>2
  <2>3. class = "v2" => \A i \in 1 .. Len(G) : ~Reserved(G[i])
    <3>1. SUFFICES ASSUME class = "v2", NEW i \in 1 .. Len(G) PROVE ~Reserved(G[i])
      OBVIOUS
    <3>2. G = F
      BY <1>8, <3>1
    <3>3. ~Reserved(Rootfs)
      <4>1. rootfs \in Seq({c \in Code : Plain(c)}) /\ rootfs \in Text
        BY PlainWords, Words
      <4>2. \A c \in {114, 111, 116, 102, 115} : ~IsSpecial(Xor(c))
        BY SMT DEF IsSpecial, Xor, Colon, Back
      <4>3. DOMAIN rootfs = 1 .. 6 /\ \A k \in 1 .. 6 : rootfs[k] \in {114, 111, 116, 102, 115}
        BY DEF rootfs
      <4> QED BY <4>2, <4>3 DEF Reserved, Rootfs, Same
    <3>4. CASE F = ns
      BY <3>1, <3>2, <3>4
    <3>5. CASE F = <<Rootfs>> \o ns
      <4>1. i = 1 \/ (i - 1 \in 1 .. Len(ns) /\ (i - 1) + 1 = i)
        BY <1>3, <1>5, <3>2, <3>5
      <4>2. G[i] = Rootfs \/ G[i] = ns[i - 1]
        BY <1>5, <3>2, <3>5, <4>1
      <4> QED BY <1>5, <3>1, <3>2, <3>3, <3>5, <4>1
    <3> QED BY <1>6, <3>4, <3>5
  <2> QED BY <1>12, <2>1, <2>2, <2>3 DEF Spells
<1>15. ~Hides(there, G)
  <2>1. SUFFICES ASSUME class = "legacy", Deep(G) PROVE FALSE
    BY <1>12 DEF Hides
  <2>2. CASE Deep(F) /\ Goes(Tail(F), closed)
    <3>1. G = Tail(F) /\ Len(F) > 1 /\ F[2] \in Moved
      BY <2>1, <2>2 DEF G, Stored, Deep
    <3>2. 1 \in 1 .. Len(Tail(F)) /\ 1 + 1 = 2
      BY <1>3, <1>4, <3>1
    <3>3. \A i \in 1 .. Len(Tail(F)) : Tail(F)[i] = F[i + 1]
      BY <1>3, HeadTailProperties
    <3>4. G[1] \in Moved
      BY <3>1, <3>2, <3>3
    <3> QED BY <1>7, <2>1, <3>4 DEF Deep
  <2>3. CASE ~(Deep(F) /\ Goes(Tail(F), closed))
    <3>1. G = F
      BY <2>1, <2>3 DEF G, Stored
    <3>2. Deep(F) /\ ~Goes(Tail(F), closed)
      BY <2>1, <2>3, <3>1
    <3>3. Len(F) = 2 /\ ~closed /\ F[1] = Rootfs /\ F[2] \in Moved
      BY <1>3, <1>4, <3>2 DEF Deep, Goes
    <3>4. F = <<Rootfs, F[2]>>
      BY <1>3, <3>3
    <3> QED BY <2>1, <3>3, <3>4 DEF F
  <2> QED BY <2>2, <2>3
<1>16. New(C) \in DiskPaths(C) /\ class \in Classes
  BY NewType
<1>17. Arrives(there, C, G, closed)
  BY <1>9, <1>10, <1>12, <1>15 DEF Arrives
<1> DEFINE back == Convert(there, New(C))
<1>18. back.outcome = "done" /\ back.path.data = Joined(C, Stored(C, Full(class, G, closed), closed), closed)
  <2> HIDE DEF C
  <2> QED BY <1>1, <1>12, <1>13, <1>14, <1>16, <1>17, ConvertsNames
<1> HIDE DEF back
<1> QED BY <1>1, <1>9, <1>11, <1>18 DEF back

(* The walk of Normal, one character after the other. *)
AtStart == [begins |-> TRUE, pass |-> 0, data |-> <<>>]
IsWalk(w, path) == w \in [0 .. Len(path) -> Walked] /\ w[0] = AtStart /\ \A k \in 1 .. Len(path) : w[k] = Walk(path, k, w[k - 1])

\* Normal is what the walk ends with.
LEMMA NormalSteps ==
  ASSUME NEW path \in Text
  PROVE  \E w : IsWalk(w, path) /\ Normal(path) = w[Len(path)].data
<1> DEFINE n == Len(path)
           base == [begins |-> TRUE, pass |-> 0, data |-> <<>>]
           P(g) == g = [i \in 0 .. n |-> IF i = 0 THEN base ELSE Walk(path, i, g[i - 1])]
           walk == CHOOSE g : P(g)
           step == [z \in (1 .. n) \X Walked |-> Walk(path, z[1], z[2])]
<1>1. Normal(path) = walk[n].data
  BY Zenon DEF Normal, Walk
<1>2. n \in Nat
  BY DEF Text
<1>3. base \in Walked
  BY Words DEF Walked
<1>4. \A i \in 1 .. n, was \in Walked : Walk(path, i, was) \in Walked
  BY WalkType
<1> HIDE DEF base, n
<1>5. step \in [(1 .. n) \X Walked -> Walked]
  BY <1>4
<1>6. \E g : P(g)
  <2>1. PICK f \in [0 .. n -> Walked] : IsMade(f, n, base, step)
    <3> HIDE DEF step
    <3> QED BY <1>2, <1>3, <1>5, Recursion DEF Made
  <2>2. ASSUME NEW i \in 0 .. n PROVE f[i] = IF i = 0 THEN base ELSE Walk(path, i, f[i - 1])
    <3>1. CASE i = 0
      BY <2>1, <3>1 DEF IsMade
    <3>2. CASE i # 0
      <4>1. i \in 1 .. n /\ i - 1 \in 0 .. n
        BY <1>2, <3>2
      <4>2. f[i] = step[<<i, f[i - 1]>>] /\ f[i - 1] \in Walked
        BY <2>1, <4>1 DEF IsMade
      <4> QED BY <3>2, <4>1, <4>2
    <3> QED BY <3>1, <3>2
  <2>3. f = [i \in 0 .. n |-> f[i]]
    OBVIOUS
  <2> QED BY <2>2, <2>3
<1>7. P(walk)
  BY <1>6
<1> HIDE DEF walk
<1>8. walk[0] = base /\ \A k \in 1 .. n : walk[k] = Walk(path, k, walk[k - 1])
  <2>1. 0 \in 0 .. n /\ \A k \in 1 .. n : k \in 0 .. n /\ k # 0
    BY <1>2
  <2> QED BY <1>7, <2>1
<1>9. \A k \in 0 .. n : walk[k] \in Walked
  <2>1. walk[0] \in Walked /\ \A k \in 1 .. n : walk[k - 1] \in Walked => walk[k] \in Walked
    BY <1>3, <1>4, <1>8
  <2> QED BY <1>2, <2>1, Along
<1>10. walk \in [0 .. n -> Walked]
  <2>1. walk = [i \in 0 .. n |-> walk[i]]
    BY <1>7
  <2> QED BY <1>9, <2>1
<1> QED BY <1>1, <1>8, <1>10 DEF IsWalk, n, base, AtStart

(* What may be left of the names of an entry. *)
Kept == EntryNames \cup {This, Above}
IsMeant(f, pieces, closed) ==
    f \in [0 .. Len(pieces) -> Seq(Kept)] /\ f[0] = <<>> /\ \A k \in 1 .. Len(pieces) : f[k] = Step(pieces, closed, k, f[k - 1])

\* Meant takes one piece after the other.
LEMMA MeantSteps ==
  ASSUME NEW pieces \in Seq(Pieces), NEW closed \in BOOLEAN
  PROVE  \E f : IsMeant(f, pieces, closed) /\ Meant(pieces, closed) = f[Len(pieces)]
<1> DEFINE n == Len(pieces)
           X == Seq(Kept)
           P(g) == g = [i \in 0 .. n |-> IF i = 0 THEN <<>> ELSE Step(pieces, closed, i, g[i - 1])]
           left == CHOOSE g : P(g)
           step == [z \in (1 .. n) \X X |-> Step(pieces, closed, z[1], z[2])]
<1>1. Meant(pieces, closed) = left[n]
  BY Zenon DEF Meant, Step
<1>2. n \in Nat /\ <<>> \in X
  OBVIOUS
<1>3. \A i \in 1 .. n, up \in X : Step(pieces, closed, i, up) \in X
  <2>1. ASSUME NEW i \in 1 .. n, NEW up \in X PROVE Step(pieces, closed, i, up) \in X
    <3>1. pieces[i] \in Pieces
      OBVIOUS
    <3>2. pieces[i] # Empty => Append(up, pieces[i]) \in X
      BY <3>1, AppendProperties DEF Pieces, Kept
    <3>3. up # <<>> => Front(up) \in X
      BY DEF Front
    <3> HIDE DEF X
    <3> QED BY <3>2, <3>3 DEF Step
  <2> QED BY <2>1
<1> HIDE DEF n, X
<1>5. step \in [(1 .. n) \X X -> X]
  BY <1>3
<1>6. \E g : P(g)
  <2>1. PICK f \in [0 .. n -> X] : IsMade(f, n, <<>>, step)
    <3> HIDE DEF step
    <3> QED BY <1>2, <1>5, Recursion DEF Made
  <2>2. ASSUME NEW i \in 0 .. n PROVE f[i] = IF i = 0 THEN <<>> ELSE Step(pieces, closed, i, f[i - 1])
    <3>1. CASE i = 0
      BY <2>1, <3>1 DEF IsMade
    <3>2. CASE i # 0
      <4>1. i \in 1 .. n /\ i - 1 \in 0 .. n
        BY <1>2, <3>2
      <4>2. f[i] = step[<<i, f[i - 1]>>] /\ f[i - 1] \in X
        BY <2>1, <4>1 DEF IsMade
      <4> QED BY <3>2, <4>1, <4>2
    <3> QED BY <3>1, <3>2
  <2>3. f = [i \in 0 .. n |-> f[i]]
    OBVIOUS
  <2> QED BY <2>2, <2>3
<1>7. P(left)
  BY <1>6
<1> HIDE DEF left
<1>8. left[0] = <<>> /\ \A k \in 1 .. n : left[k] = Step(pieces, closed, k, left[k - 1])
  <2>1. 0 \in 0 .. n /\ \A k \in 1 .. n : k \in 0 .. n /\ k # 0
    BY <1>2
  <2> QED BY <1>7, <2>1
<1>9. \A k \in 0 .. n : left[k] \in X
  <2>1. left[0] \in X /\ \A k \in 1 .. n : left[k - 1] \in X => left[k] \in X
    BY <1>2, <1>3, <1>8
  <2> QED BY <1>2, <2>1, Along
<1>10. left \in [0 .. n -> X]
  <2>1. left = [i \in 0 .. n |-> left[i]]
    BY <1>7
  <2> QED BY <1>9, <2>1
<1> QED BY <1>1, <1>8, <1>10 DEF IsMeant, n, X

\* Names one behind the other.
LEMMA JoinedConcat ==
  ASSUME NEW class, NEW s \in Seq(NameRec), NEW r \in Seq(NameRec), NEW closed \in BOOLEAN, r # <<>> \/ closed
  PROVE  Joined(class, s \o r, closed) = Joined(class, s, TRUE) \o Joined(class, r, closed)
<1> DEFINE J(t) == Joined(class, t, TRUE)
           S == {t \in Seq(NameRec) : J(s \o t) = J(s) \o J(t)}
<1>1. \A t \in Seq(NameRec), c \in BOOLEAN : Joined(class, t, c) \in Text /\ Joined(class, <<>>, c) = <<>>
  BY JoinedLast
<1>2. ASSUME NEW t \in S, NEW n \in NameRec, NEW c \in BOOLEAN
      PROVE  Joined(class, s \o Append(t, n), c) = J(s) \o Joined(class, Append(t, n), c)
  <2> DEFINE e == On(class, n) \o End(class, c)
  <2>1. e \in Text
    BY OnIsText, EndType, Texts
  <2>2. t \in Seq(NameRec) /\ s \o t \in Seq(NameRec) /\ J(s \o t) = J(s) \o J(t)
    BY ConcatProperties
  <2>3. s \o Append(t, n) = Append(s \o t, n)
    <3>1. Append(t, n) = t \o <<n>> /\ Append(s \o t, n) = (s \o t) \o <<n>> /\ <<n>> \in Seq(NameRec)
      BY <2>2, AppendIsConcat
    <3> HIDE DEF S
    <3> QED BY <2>2, <3>1, ConcatAssociative
  <2>4. Joined(class, Append(s \o t, n), c) = J(s \o t) \o e /\ Joined(class, Append(t, n), c) = J(t) \o e
    BY <2>2, JoinedLast
  <2> HIDE DEF e
  <2>5. (J(s) \o J(t)) \o e = J(s) \o (J(t) \o e)
    <3> DEFINE a == J(s)
               b == J(t)
    <3>1. a \in Text /\ b \in Text
      BY <1>1, <2>2
    <3> HIDE DEF a, b
    <3>2. (a \o b) \o e = a \o (b \o e)
      BY <2>1, <3>1, Joining
    <3> QED BY <3>2 DEF a, b
  <2> QED BY <2>2, <2>3, <2>4, <2>5
<1>3. <<>> \in S
  <2>1. J(<<>>) = <<>> /\ J(s) \in Text /\ s \o <<>> = s /\ <<>> \in Seq(NameRec)
    BY <1>1, ConcatEmptySeq, EmptySeq
  <2>2. J(s) \o <<>> = J(s)
    BY <2>1, Joining
  <2> QED BY <2>1, <2>2
<1>4. S = Seq(NameRec)
  <2>1. S \in SUBSET Seq(NameRec)
    OBVIOUS
  <2>2. ASSUME NEW t \in S, NEW n \in NameRec PROVE Append(t, n) \in S
    <3>1. Append(t, n) \in Seq(NameRec)
      BY AppendProperties
    <3> QED BY <1>2, <3>1
  <2> HIDE DEF S
  <2> QED BY <1>3, <2>1, <2>2, SeqInduction
<1>5. CASE r = <<>>
  BY <1>3, <1>5
<1>6. CASE r # <<>>
  <2>1. PICK f \in Seq(NameRec), l \in NameRec : r = Append(f, l)
    BY <1>6, FirstAndLast, ZenonT(60)
  <2>2. f \in S
    BY <1>4
  <2> HIDE DEF S
  <2> QED BY <1>2, <2>1, <2>2
<1> QED BY <1>5, <1>6

\* Behind the last slash but the one at the end stands one name.
LEMMA ParentOf ==
  ASSUME NEW a \in Text, NEW b \in Free(Slash), b # <<>>, a = <<>> \/ a[Len(a)] = Slash
  PROVE  Parent(a \o (b \o <<Slash>>)) = a
<1> DEFINE e == b \o <<Slash>>
           data == a \o e
           s == Front(data)
           I == {i \in 1 .. Len(s) : s[i] = Slash}
           n == Len(a)
           m == Len(b)
<1>1. b \in Text /\ (\A i \in 1 .. m : b[i] # Slash) /\ n \in Nat /\ m \in Nat \ {0} /\ a \in Seq(Code)
  <2>1. b \in Text /\ \A i \in 1 .. m : b[i] # Slash
    BY DEF Free
  <2> QED BY <2>1, EmptySeq, LenIsNat DEF Text
<1>2. e \in Text /\ Len(e) = m + 1 /\ \A i \in 1 .. m : e[i] = b[i]
  <2>1. <<Slash>> \in Text /\ Len(<<Slash>>) = 1
    BY Words
  <2> QED BY <1>1, <2>1, AppendedIs
<1> HIDE DEF e
<1>3. data \in Text /\ Len(data) = n + m + 1 /\ (\A i \in 1 .. n : data[i] = a[i]) /\ \A i \in 1 .. m : data[n + i] = b[i]
  <2>1. \A i \in 1 .. m : i \in 1 .. Len(e)
    BY <1>1, <1>2
  <2>2. data \in Text /\ Len(data) = n + Len(e) /\ (\A i \in 1 .. n : data[i] = a[i]) /\ \A i \in 1 .. Len(e) : data[n + i] = e[i]
    BY <1>2, AppendedIs
  <2> HIDE DEF data
  <2> QED BY <1>1, <1>2, <2>1, <2>2
<1>4. SubSeq(data, 1, n) = a
  <2>1. CASE n = 0
    <3>1. a = <<>>
      BY <1>1, <2>1, EmptySeq
    <3>2. SubSeq(data, 1, 0) = <<>>
      BY SubSeqEmpty
    <3> QED BY <2>1, <3>1, <3>2
  <2>2. CASE n # 0
    <3>1. 1 \in 1 .. n /\ n \in 1 .. n /\ e \in Seq(Code)
      BY <1>1, <1>2, <2>2 DEF Text
    <3>2. SubSeq(data, 1, n) = SubSeq(a, 1, n)
      BY <1>1, <3>1, SubSeqOfConcat1
    <3> QED BY <1>1, <3>2, SubSeqFull
  <2> QED BY <2>1, <2>2
<1> HIDE DEF data
<1>5. s \in Text /\ Len(s) = n + m /\ \A i \in 1 .. n + m : s[i] = data[i]
  <2>1. s = SubSeq(data, 1, n + m)
    BY <1>1, <1>3 DEF Front
  <2>2. \A i \in 1 .. n + m : data[i] \in Code
    BY <1>1, <1>3, ElementOfSeq DEF Text
  <2>3. 1 \in Int /\ n + m \in Int /\ (n + m) - 1 + 1 = n + m /\ (IF 1 <= n + m THEN (n + m) - 1 + 1 ELSE 0) = n + m
        /\ \A i \in 1 .. n + m : 1 + i - 1 = i
    BY <1>1
  <2>4. /\ SubSeq(data, 1, n + m) \in Seq(Code)
        /\ Len(SubSeq(data, 1, n + m)) = IF 1 <= n + m THEN (n + m) - 1 + 1 ELSE 0
        /\ \A i \in 1 .. (n + m) - 1 + 1 : SubSeq(data, 1, n + m)[i] = data[1 + i - 1]
    BY <2>2, <2>3, SubSeqProperties
  <2> HIDE DEF n, m, s
  <2> QED BY <2>1, <2>3, <2>4 DEF Text
<1>6. LastSlash(data) = IF I # {} THEN Max(I) ELSE 0
  BY DEF LastSlash, SelectLastInSeq
<1> HIDE DEF s
<1>7. \A i \in I : i \in 1 .. n
  <2>1. SUFFICES ASSUME NEW i \in I, i \notin 1 .. n PROVE FALSE
    OBVIOUS
  <2>2. i \in 1 .. n + m /\ s[i] = Slash
    BY <1>5
  <2>3. i - n \in 1 .. m /\ n + (i - n) = i
    BY <1>1, <2>1, <2>2
  <2>4. data[n + (i - n)] = b[i - n]
    BY <1>3, <2>3
  <2> QED BY <1>1, <1>5, <2>2, <2>3, <2>4
<1>8. n # 0 => n \in I
  <2>1. SUFFICES ASSUME n # 0 PROVE n \in I
    OBVIOUS
  <2>2. n \in 1 .. n /\ n \in 1 .. n + m
    BY <1>1, <2>1
  <2>3. a[n] = Slash
    BY <2>1, EmptySeq
  <2> QED BY <1>3, <1>5, <2>2, <2>3
<1>9. LastSlash(data) = n
  <2>1. CASE n = 0
    <3>1. I = {}
      BY <1>7, <2>1
    <3> QED BY <1>6, <2>1, <3>1
  <2>2. CASE n # 0
    <3>1. I \in SUBSET (1 .. n) /\ I # {}
      BY <1>7, <1>8, <2>2
    <3> HIDE DEF I
    <3>2. Max(I) \in I /\ \A y \in I : Max(I) >= y
      BY <1>1, <3>1, MaxIn
    <3>3. Max(I) \in 1 .. n /\ Max(I) >= n
      BY <1>8, <2>2, <3>1, <3>2
    <3> QED BY <1>1, <1>6, <3>1, <3>3
  <2> QED BY <2>1, <2>2
<1>10. data # <<>>
  <2>1. Len(data) # 0
    BY <1>1, <1>3
  <2> QED BY <2>1, EmptySeq
<1> QED BY <1>4, <1>9, <1>10 DEF Parent, data, e

(* Between two names of Normal, and within one. *)
Between(data) == [begins |-> TRUE, pass |-> 0, data |-> data]
Amid(data) == [begins |-> FALSE, pass |-> 0, data |-> data]

\* Amid a name a character is kept.
LEMMA WalkOn ==
  ASSUME NEW path, NEW i, NEW data
  PROVE  /\ path[i] # Slash => Walk(path, i, Amid(data)) = Amid(Append(data, path[i]))
         /\ path[i] = Slash => Walk(path, i, Amid(data)) = Between(Append(data, path[i]))
<1> DEFINE was == Amid(data)
<1>1. was.begins = FALSE /\ was.pass = 0 /\ was.data = data
  BY DEF Amid
<1> HIDE DEF was
<1>2. Walk(path, i, was) = [begins |-> path[i] = Slash, pass |-> 0, data |-> Append(data, path[i])]
  BY <1>1 DEF Walk
<1> QED BY <1>2 DEF was, Amid, Between

\* So is its first one, unless the name is one that archives do not mean.
LEMMA WalkInto ==
  ASSUME NEW path, NEW i, NEW data, path[i] # Slash, ~At(path, i, <<Dot, Slash>>), ~At(path, i, <<Dot, Dot, Slash>>)
  PROVE  Walk(path, i, Between(data)) = Amid(Append(data, path[i]))
<1> DEFINE was == Between(data)
<1>1. was.begins = TRUE /\ was.pass = 0 /\ was.data = data
  BY DEF Between
<1> HIDE DEF was
<1>2. Walk(path, i, was) = [begins |-> path[i] = Slash, pass |-> 0, data |-> Append(data, path[i])]
  BY <1>1 DEF Walk
<1> QED BY <1>2 DEF was, Amid

\* What is passed over.
LEMMA WalkPasses ==
  ASSUME NEW path, NEW i, NEW data \in Text
  PROVE  /\ path[i] = Slash /\ ~At(path, i, <<Dot, Slash>>) /\ ~At(path, i, <<Dot, Dot, Slash>>)
              => Walk(path, i, Between(data)) = Between(data)
         /\ path[i] # Slash /\ At(path, i, <<Dot, Slash>>) /\ ~At(path, i, <<Dot, Dot, Slash>>)
              => Walk(path, i, Between(data)) = [begins |-> TRUE, pass |-> 1, data |-> data]
         /\ path[i] # Slash /\ ~At(path, i, <<Dot, Slash>>) /\ At(path, i, <<Dot, Dot, Slash>>)
              => Walk(path, i, Between(data)) = [begins |-> TRUE, pass |-> 2, data |-> Parent(data)]
         /\ \A k \in {1, 2} : Walk(path, i, [begins |-> TRUE, pass |-> k, data |-> data])
                                 = [begins |-> TRUE, pass |-> k - 1, data |-> data]
<1> DEFINE was == Between(data)
<1>1. was.begins = TRUE /\ was.pass = 0 /\ was.data = data
  BY DEF Between
<1>2. Parent(data) \in Text
  BY ParentType
<1>3. \A p, q, d : [[begins |-> TRUE, pass |-> p, data |-> d] EXCEPT !.pass = q] = [begins |-> TRUE, pass |-> q, data |-> d]
  <2>1. SUFFICES ASSUME NEW p, NEW q, NEW d
                 PROVE  [[begins |-> TRUE, pass |-> p, data |-> d] EXCEPT !.pass = q] = [begins |-> TRUE, pass |-> q, data |-> d]
    OBVIOUS
  <2> DEFINE new == [[begins |-> TRUE, pass |-> p, data |-> d] EXCEPT !.pass = q]
             R == [begins : {TRUE}, pass : {p, q}, data : {d}]
  <2>2. new \in R /\ new.pass = q /\ new.begins = TRUE /\ new.data = d
    OBVIOUS
  <2>3. \A r \in R : r = [begins |-> r.begins, pass |-> r.pass, data |-> r.data]
    OBVIOUS
  <2> HIDE DEF new
  <2> QED BY <2>2, <2>3 DEF new
<1>5. [was EXCEPT !.pass = 1] = [begins |-> TRUE, pass |-> 1, data |-> data]
  BY <1>3 DEF Between
<1>6. [was EXCEPT !.pass = 2, !.data = Parent(data)] = [begins |-> TRUE, pass |-> 2, data |-> Parent(data)]
  <2> DEFINE x == Parent(data)
             new == [was EXCEPT !.pass = 2, !.data = x]
             R == [begins : {TRUE}, pass : {0, 2}, data : {data, x}]
  <2> HIDE DEF x
  <2>1. was \in R
    BY DEF Between
  <2> HIDE DEF was
  <2>2. new \in R /\ new.pass = 2 /\ new.begins = TRUE /\ new.data = x
    BY <2>1
  <2>3. \A r \in R : r = [begins |-> r.begins, pass |-> r.pass, data |-> r.data]
    OBVIOUS
  <2> HIDE DEF new
  <2>4. new = [begins |-> TRUE, pass |-> 2, data |-> x]
    BY <2>2, <2>3
  <2> QED BY <2>4 DEF new, x
<1>7. ASSUME NEW k \in {1, 2}
      PROVE  Walk(path, i, [begins |-> TRUE, pass |-> k, data |-> data]) = [begins |-> TRUE, pass |-> k - 1, data |-> data]
  <2> DEFINE w == [begins |-> TRUE, pass |-> k, data |-> data]
  <2>1. w.pass = k /\ k > 0
    OBVIOUS
  <2>2. [w EXCEPT !.pass = k - 1] = [begins |-> TRUE, pass |-> k - 1, data |-> data]
    BY <1>3
  <2> HIDE DEF w
  <2>3. Walk(path, i, w) = [w EXCEPT !.pass = k - 1]
    BY <2>1 DEF Walk
  <2> QED BY <2>2, <2>3 DEF w
<1> HIDE DEF was
<1>8. path[i] = Slash /\ ~At(path, i, <<Dot, Slash>>) /\ ~At(path, i, <<Dot, Dot, Slash>>) => Walk(path, i, was) = was
  BY <1>1 DEF Walk
<1>9. path[i] # Slash /\ At(path, i, <<Dot, Slash>>) /\ ~At(path, i, <<Dot, Dot, Slash>>) => Walk(path, i, was) = [was EXCEPT !.pass = 1]
  BY <1>1 DEF Walk
<1>10. path[i] # Slash /\ ~At(path, i, <<Dot, Slash>>) /\ At(path, i, <<Dot, Dot, Slash>>)
         => Walk(path, i, was) = [was EXCEPT !.pass = 2, !.data = Parent(data)]
  BY <1>1 DEF Walk
<1> QED BY <1>5, <1>6, <1>7, <1>8, <1>9, <1>10 DEF was

\* The walk through a name.
LEMMA NameWalk ==
  ASSUME NEW a, NEW p, NEW rest, NEW w, IsWalk(w, a \o (p \o rest)), NEW data,
         a \in Text, p \in Free(Slash), rest \in Text, p # <<>>, data \in Text, w[Len(a)] = Between(data),
         ~IsPrefix(<<Dot, Slash>>, p \o rest), ~IsPrefix(<<Dot, Dot, Slash>>, p \o rest)
  PROVE  w[Len(a) + Len(p)] = Amid(data \o p)
<1> DEFINE path == a \o (p \o rest)
           n == Len(a)
           m == Len(p)
           K == {k \in Nat : k + 1 <= m => w[n + k + 1] = Amid(data \o SubSeq(p, 1, k + 1))}
<1>1. p \in Text /\ (\A i \in 1 .. m : p[i] # Slash) /\ n \in Nat /\ m \in Nat \ {0} /\ p \in Seq(Code)
  <2>1. p \in Text /\ \A i \in 1 .. m : p[i] # Slash
    BY DEF Free
  <2> QED BY <2>1, EmptySeq, LenIsNat DEF Text
<1>0. path = a \o (p \o rest) /\ IsWalk(w, path)
  OBVIOUS
<1> HIDE DEF path
<1>2. Len(path) = n + m + Len(rest) /\ Len(rest) \in Nat /\ \A i \in 1 .. m : path[n + i] = p[i]
  <2> DEFINE e == p \o rest
  <2>1. e \in Text /\ Len(e) = m + Len(rest) /\ \A i \in 1 .. m : e[i] = p[i]
    BY <1>1, AppendedIs
  <2>2. path = a \o e /\ Len(rest) \in Nat
    BY <1>0, LenIsNat
  <2> HIDE DEF e
  <2>3. Len(path) = n + Len(e) /\ \A i \in 1 .. Len(e) : path[n + i] = e[i]
    <3> DEFINE both == a \o e
    <3>1. Len(both) = Len(a) + Len(e) /\ \A i \in 1 .. Len(e) : both[Len(a) + i] = e[i]
      BY <2>1, AppendedIs
    <3>2. path = both
      BY <2>2
    <3> HIDE DEF both
    <3> QED BY <3>1, <3>2, Zenon
  <2> HIDE DEF n, m
  <2>4. \A i \in 1 .. m : i \in 1 .. Len(e)
    BY <1>1, <2>1, <2>2
  <2> QED BY <1>1, <2>1, <2>2, <2>3, <2>4
<1>3. \A k \in 1 .. n + m : w[k] = Walk(path, k, w[k - 1])
  <2>1. \A k \in 1 .. n + m : k \in 1 .. Len(path)
    BY <1>1, <1>2
  <2> QED BY <1>0, <2>1 DEF IsWalk
<1>4. From(path, n + 1) = p \o rest
  <2>1. p \o rest \in Text
    BY <1>1, Texts
  <2> QED BY <1>0, <2>1, FromBehind
<1>5. \A k \in Nat : k + 1 <= m => /\ k + 1 \in 1 .. m /\ n + k + 1 \in 1 .. n + m /\ (n + k + 1) - 1 = n + k
                                   /\ path[n + k + 1] = p[k + 1] /\ p[k + 1] # Slash /\ p[k + 1] \in Code
  <2>1. SUFFICES ASSUME NEW k \in Nat, k + 1 <= m
                 PROVE  /\ k + 1 \in 1 .. m /\ n + k + 1 \in 1 .. n + m /\ (n + k + 1) - 1 = n + k
                        /\ path[n + k + 1] = p[k + 1] /\ p[k + 1] # Slash /\ p[k + 1] \in Code
    OBVIOUS
  <2>2. k + 1 \in 1 .. m /\ n + k + 1 \in 1 .. n + m /\ (n + k + 1) - 1 = n + k /\ n + (k + 1) = n + k + 1
    BY <1>1, <2>1
  <2>3. path[n + (k + 1)] = p[k + 1] /\ p[k + 1] # Slash /\ p[k + 1] \in Code
    BY <1>1, <1>2, <2>2, ElementOfSeq
  <2> QED BY <2>2, <2>3
<1> HIDE DEF n, m
<1>6. \A k \in Nat : k + 1 <= m => /\ SubSeq(p, 1, k + 1) = Append(SubSeq(p, 1, k), p[k + 1])
                                   /\ data \o SubSeq(p, 1, k + 1) = Append(data \o SubSeq(p, 1, k), p[k + 1])
  <2>1. SUFFICES ASSUME NEW k \in Nat, k + 1 <= m
                 PROVE  /\ SubSeq(p, 1, k + 1) = Append(SubSeq(p, 1, k), p[k + 1])
                        /\ data \o SubSeq(p, 1, k + 1) = Append(data \o SubSeq(p, 1, k), p[k + 1])
    OBVIOUS
  <2>2. 1 \in 1 .. Len(p) /\ k + 1 \in 1 .. Len(p) /\ (k + 1) - 1 = k /\ k <= Len(p)
    BY <1>1, <2>1 DEF m
  <2>3. SubSeq(p, 1, k + 1) = SubSeq(p, 1, k) \o <<p[k + 1]>>
    BY <1>1, <2>2, SubSeqRecursiveSecond
  <2>4. SubSeq(p, 1, k) \in Text
    BY <1>1, <2>2, Texts
  <2> DEFINE q == SubSeq(p, 1, k)
  <2> HIDE DEF q
  <2>5. q \in Text /\ p[k + 1] \in Code
    BY <1>5, <2>1, <2>4 DEF q
  <2>6. Append(q, p[k + 1]) = q \o <<p[k + 1]>> /\ Append(data \o q, p[k + 1]) = data \o Append(q, p[k + 1])
    BY <2>5, Joining, ZenonT(60)
  <2> QED BY <2>3, <2>6 DEF q
<1>7. 0 \in K
  <2>1. 0 + 1 <= m /\ 0 + 1 = 1 /\ n + 0 = n /\ n + 0 + 1 = n + 1
    BY <1>1
  <2>2. n + 1 \in 1 .. n + m /\ (n + 1) - 1 = n /\ path[n + 1] = p[1] /\ p[1] # Slash
    BY <1>5, <2>1
  <2>3. ~At(path, n + 1, <<Dot, Slash>>) /\ ~At(path, n + 1, <<Dot, Dot, Slash>>)
    BY <1>4 DEF At
  <2>4. w[n + 1] = Walk(path, n + 1, Between(data))
    BY <1>3, <2>2 DEF n
  <2>5. w[n + 1] = Amid(Append(data, p[1]))
    <3> DEFINE i == n + 1
    <3>1. path[i] # Slash /\ path[i] = p[1] /\ ~At(path, i, <<Dot, Slash>>) /\ ~At(path, i, <<Dot, Dot, Slash>>)
      BY <2>2, <2>3
    <3> HIDE DEF i
    <3>2. Walk(path, i, Between(data)) = Amid(Append(data, path[i]))
      BY <3>1, WalkInto
    <3> QED BY <2>4, <3>1, <3>2 DEF i
  <2>6. data \o SubSeq(p, 1, 1) = Append(data, p[1])
    <3>1. data \o SubSeq(p, 1, 0 + 1) = Append(data \o SubSeq(p, 1, 0), p[0 + 1])
      BY <1>6, <2>1
    <3>2. SubSeq(p, 1, 0) = <<>>
      BY SubSeqEmpty
    <3>3. data \o <<>> = data
      BY Joining
    <3> QED BY <2>1, <3>1, <3>2, <3>3
  <2> QED BY <2>1, <2>5, <2>6
<1>8. ASSUME NEW k \in K PROVE k + 1 \in K
  <2>1. k \in Nat /\ k + 1 \in Nat
    OBVIOUS
  <2>2. SUFFICES ASSUME (k + 1) + 1 <= m PROVE w[n + (k + 1) + 1] = Amid(data \o SubSeq(p, 1, (k + 1) + 1))
    BY <2>1
  <2>3. k + 1 <= m
    BY <1>1, <2>1, <2>2
  <2>4. w[n + k + 1] = Amid(data \o SubSeq(p, 1, k + 1))
    BY <1>8, <2>3
  <2> DEFINE j == k + 1
             d == data \o SubSeq(p, 1, j)
  <2>5. j \in Nat /\ j + 1 <= m /\ n + k + 1 = n + j
    BY <1>1, <2>1, <2>2
  <2>6. w[n + j] = Amid(d)
    BY <2>4, <2>5
  <2> HIDE DEF j, d
  <2>7. /\ n + j + 1 \in 1 .. n + m /\ (n + j + 1) - 1 = n + j
        /\ path[n + j + 1] = p[j + 1] /\ p[j + 1] # Slash
    BY <1>5, <2>5
  <2>8. w[n + j + 1] = Walk(path, n + j + 1, Amid(d))
    BY <1>3, <2>6, <2>7
  <2>9. w[n + j + 1] = Amid(Append(d, p[j + 1]))
    BY <2>7, <2>8, WalkOn
  <2>10. data \o SubSeq(p, 1, j + 1) = Append(d, p[j + 1])
    BY <1>6, <2>5 DEF d
  <2> QED BY <2>9, <2>10 DEF j
<1>9. K = Nat
  <2>1. K \in SUBSET Nat
    OBVIOUS
  <2> HIDE DEF K
  <2> QED BY <1>7, <1>8, <2>1, Upwards
<1>10. m - 1 \in K
  <2>1. m - 1 \in Nat
    BY <1>1
  <2> HIDE DEF K
  <2> QED BY <1>9, <2>1
<1>11. m - 1 + 1 = m /\ n + (m - 1) + 1 = n + m /\ SubSeq(p, 1, m) = p
  BY <1>1, SubSeqFull DEF m
<1>12. w[n + (m - 1) + 1] = Amid(data \o SubSeq(p, 1, m - 1 + 1))
  BY <1>1, <1>10, <1>11
<1> QED BY <1>11, <1>12 DEF n, m

\* The pieces of an entry as texts.
LEMMA PiecesAre ==
  /\ Kept \subseteq Named /\ Pieces \subseteq NameRec /\ Pieces = Kept \cup {Empty}
  /\ \A piece \in Pieces : /\ On("linux", piece) = piece.linux /\ piece.linux \in Free(Slash)
                           /\ piece.linux = <<>> <=> piece = Empty
                           /\ piece.linux = <<Dot>> <=> piece = This
                           /\ piece.linux = <<Dot, Dot>> <=> piece = Above
<1>1. Kept \subseteq Named
  BY NamedNames, NamesAssumption DEF Kept
<1>2. Empty \in NameRec /\ Empty.linux = <<>> /\ This.linux = <<Dot>> /\ Above.linux = <<Dot, Dot>>
  BY Words DEF Empty, This, Above, Same, NameRec
<1>3. Pieces = Kept \cup {Empty}
  BY DEF Pieces, Kept
<1>4. \A n \in Kept : n \in NameRec /\ n.linux # <<>> /\ n.linux \in Free(Slash)
  <2> SUFFICES ASSUME NEW n \in Kept PROVE n \in NameRec /\ n.linux # <<>> /\ n.linux \in Free(Slash)
    OBVIOUS
  <2>1. n \in Named /\ "linux" \in Classes /\ On("linux", n) = n.linux /\ Sep("linux") = Slash
    BY <1>1 DEF Classes, On, Sep
  <2>2. n.linux \in Free(Slash) /\ n.linux # <<>>
    BY <2>1, OnFree
  <2> QED BY <2>1, <2>2, NamedText
<1>5. <<>> \in Free(Slash)
  BY Words DEF Free
<1>6. \A n \in Kept : (n.linux = <<Dot>> => n = This) /\ (n.linux = <<Dot, Dot>> => n = Above)
  <2>1. This \in Named /\ Above \in Named
    BY NamedNames
  <2> QED BY <1>1, <1>2, <2>1, NameByLinux
<1>7. <<>> # <<Dot>> /\ <<>> # <<Dot, Dot>>
  OBVIOUS
<1> QED BY <1>1, <1>2, <1>3, <1>4, <1>5, <1>6, <1>7 DEF On

\* The three pieces that are no names differ.
LEMMA PieceWords == Empty # This /\ Empty # Above /\ This # Above
<1>1. Empty.linux = <<>> /\ This.linux = <<Dot>> /\ Above.linux = <<Dot, Dot>>
  BY DEF Empty, This, Above, Same
<1>2. \A x, y : <<>> # <<x>> /\ <<>> # <<x, y>> /\ <<x>> # <<x, y>>
  OBVIOUS
<1>3. Empty.linux # This.linux /\ Empty.linux # Above.linux /\ This.linux # Above.linux
  BY <1>1, <1>2, Zenon
<1> QED BY <1>3

\* Dots and a slash stand only at the beginning of a name of dots.
LEMMA DotsAt ==
  ASSUME NEW p \in Free(Slash), NEW rest \in Text
  PROVE  /\ IsPrefix(<<Dot, Slash>>, Cell(p, Slash, rest)) <=> p = <<Dot>>
         /\ IsPrefix(<<Dot, Dot, Slash>>, Cell(p, Slash, rest)) <=> p = <<Dot, Dot>>
         /\ ~IsPrefix(<<Dot, Slash>>, p) /\ ~IsPrefix(<<Dot, Dot, Slash>>, p)
<1>1. <<Dot>> \in Free(Slash) /\ <<Dot, Dot>> \in Free(Slash)
  BY PlainWords, PlainIsFree
<1>2. Slash \in Code /\ <<>> \in Text
  BY Signs, Words
<1>3. <<Dot, Slash>> = Cell(<<Dot>>, Slash, <<>>) /\ <<Dot, Dot, Slash>> = Cell(<<Dot, Dot>>, Slash, <<>>)
  <2>1. ASSUME NEW x \in Code, NEW y \in Code PROVE <<x, y>> = Append(<<x>>, y)
    <3>1. <<x>> \in Seq(Code) /\ <<x, y>> \in Seq(Code) /\ Len(<<x, y>>) = Len(<<x>>) + 1
      OBVIOUS
    <3>2. (\A i \in 1 .. Len(<<x>>) : <<x, y>>[i] = <<x>>[i]) /\ <<x, y>>[Len(<<x>>) + 1] = y
      OBVIOUS
    <3> QED BY <3>1, <3>2, OneMore
  <2>6. ASSUME NEW x \in Code, NEW y \in Code PROVE <<x, x, y>> = Append(<<x, x>>, y)
    <3>1. <<x, x>> \in Seq(Code) /\ <<x, x, y>> \in Seq(Code) /\ Len(<<x, x, y>>) = Len(<<x, x>>) + 1
      OBVIOUS
    <3>2. (\A i \in 1 .. Len(<<x, x>>) : <<x, x, y>>[i] = <<x, x>>[i]) /\ <<x, x, y>>[Len(<<x, x>>) + 1] = y
      OBVIOUS
    <3> QED BY <3>1, <3>2, OneMore
  <2>2. Dot \in Code /\ Slash \in Code /\ <<Dot>> \in Text /\ <<Dot, Dot>> \in Text
    BY Signs, Words
  <2>7. Append(<<Dot>>, Slash) = <<Dot>> \o <<Slash>> /\ Append(<<Dot, Dot>>, Slash) = <<Dot, Dot>> \o <<Slash>>
    BY <2>2, Joining
  <2>3. <<Dot>> \o <<Slash>> = <<Dot, Slash>> /\ <<Dot, Dot>> \o <<Slash>> = <<Dot, Dot, Slash>>
    BY <2>1, <2>2, <2>6, <2>7, Zenon
  <2>4. <<Dot>> \o <<Slash>> \in Text /\ <<Dot, Dot>> \o <<Slash>> \in Text
    BY Words, Texts
  <2>5. (<<Dot>> \o <<Slash>>) \o <<>> = <<Dot>> \o <<Slash>> /\ (<<Dot, Dot>> \o <<Slash>>) \o <<>> = <<Dot, Dot>> \o <<Slash>>
    BY <2>4, Joining
  <2> QED BY <2>3, <2>5 DEF Cell
<1>4. IsPrefix(<<>>, rest)
  <2>1. Len(<<>>) = 0
    OBVIOUS
  <2> QED BY <1>2, <2>1, PrefixIs, LenIsNat
<1>5. \A u \in Free(Slash) : /\ IsPrefix(Cell(u, Slash, <<>>), Cell(p, Slash, rest)) <=> u = p
                             /\ ~IsPrefix(Cell(u, Slash, <<>>), p)
  BY <1>2, <1>4, Peel
<1> QED BY <1>1, <1>3, <1>5

\* Several names, closed, end with a slash.
LEMMA JoinedEnds ==
  ASSUME NEW ns \in Seq(Named)
  PROVE  LET text == Joined("linux", ns, TRUE) IN text \in Text /\ (text = <<>> \/ text[Len(text)] = Slash)
<1>1. ns \in Seq(NameRec)
  BY NamedSeq
<1>2. Joined("linux", ns, TRUE) \in Text /\ Joined("linux", <<>>, TRUE) = <<>>
  BY <1>1, JoinedLast
<1>3. CASE ns # <<>>
  <2>1. PICK f \in Seq(Named), l \in Named : ns = Append(f, l)
    BY <1>3, FirstAndLast, ZenonT(60)
  <2>2. Joined("linux", ns, TRUE) = Joined("linux", f, TRUE) \o (On("linux", l) \o End("linux", TRUE))
    BY <2>1, NamedSeq, NamedText, JoinedLast
  <2> DEFINE a == Joined("linux", f, TRUE)
             b == On("linux", l)
             c == <<Slash>>
             e == b \o c
             all == a \o e
  <2>3. End("linux", TRUE) = c /\ c \in Text /\ Len(c) = 1 /\ c[1] = Slash
    BY Words DEF End, Sep
  <2>4. a \in Text /\ b \in Text
    BY NamedText, NamedSeq, JoinedLast
  <2> HIDE DEF a, b, c
  <2>5. e \in Text /\ Len(e) = Len(b) + 1 /\ e[Len(b) + 1] = Slash /\ Len(b) \in Nat /\ Len(a) \in Nat
    <3>1. 1 \in 1 .. Len(c)
      BY <2>3
    <3>2. e \in Text /\ Len(e) = Len(b) + Len(c) /\ \A i \in 1 .. Len(c) : e[Len(b) + i] = c[i]
      BY <2>3, <2>4, AppendedIs
    <3>3. Len(b) \in Nat /\ Len(a) \in Nat
      BY <2>4, LenIsNat
    <3> HIDE DEF e
    <3> QED BY <2>3, <3>1, <3>2, <3>3
  <2> HIDE DEF e
  <2>6. Len(all) = Len(a) + Len(e) /\ all[Len(a) + Len(e)] = Slash
    <3>1. Len(e) \in 1 .. Len(e)
      BY <2>5
    <3>2. Len(all) = Len(a) + Len(e) /\ \A i \in 1 .. Len(e) : all[Len(a) + i] = e[i]
      BY <2>4, <2>5, AppendedIs
    <3> HIDE DEF all
    <3> QED BY <2>5, <3>1, <3>2
  <2>7. all[Len(all)] = Slash
    BY <2>6, Zenon
  <2>8. Joined("linux", ns, TRUE) = all
    BY <2>2, <2>3 DEF a, b, c, e
  <2> HIDE DEF all
  <2> QED BY <1>2, <2>7, <2>8
<1> QED BY <1>2, <1>3

\* The directory that ".." leads to.
LEMMA ParentNames ==
  ASSUME NEW ns \in Seq(Named)
  PROVE  Parent(Joined("linux", ns, TRUE)) = Joined("linux", IF ns = <<>> THEN ns ELSE Front(ns), TRUE)
<1>1. CASE ns = <<>>
  BY <1>1, JoinedLast DEF Parent
<1>2. CASE ns # <<>>
  <2>1. PICK f \in Seq(Named), l \in Named : ns = Append(f, l)
    BY <1>2, FirstAndLast, ZenonT(60)
  <2>2. Joined("linux", ns, TRUE) = Joined("linux", f, TRUE) \o (On("linux", l) \o End("linux", TRUE))
    BY <2>1, NamedSeq, NamedText, JoinedLast
  <2>3. End("linux", TRUE) = <<Slash>> /\ "linux" \in Classes /\ Sep("linux") = Slash
    BY DEF End, Sep, Classes
  <2>4. On("linux", l) \in Free(Slash) /\ On("linux", l) # <<>>
    BY <2>3, OnFree
  <2>5. Parent(Joined("linux", ns, TRUE)) = Joined("linux", f, TRUE)
    <3> DEFINE a == Joined("linux", f, TRUE)
    <3>1. a \in Text /\ (a = <<>> \/ a[Len(a)] = Slash)
      BY JoinedEnds
    <3> HIDE DEF a
    <3>2. Parent(a \o (On("linux", l) \o <<Slash>>)) = a
      BY <2>4, <3>1, ParentOf
    <3> QED BY <2>2, <2>3, <3>2 DEF a
  <2>6. Front(ns) = f
    <3>1. ns \in Seq(Named) /\ Len(ns) = Len(f) + 1 /\ Len(f) \in Nat
      BY <2>1, AppendProperties, LenProperties
    <3>2. Front(ns) = SubSeq(ns, 1, Len(f))
      BY <3>1 DEF Front
    <3>3. ns = f \o <<l>> /\ <<l>> \in Seq(Named)
      BY <2>1, AppendIsConcat
    <3>4. CASE Len(f) = 0
      <4>1. f = <<>>
        BY <3>4, EmptySeq
      <4>2. SubSeq(ns, 1, 0) = <<>>
        BY SubSeqEmpty
      <4> QED BY <3>2, <3>4, <4>1, <4>2
    <3>5. CASE Len(f) # 0
      <4>1. 1 \in 1 .. Len(f) /\ Len(f) \in 1 .. Len(f)
        BY <3>1, <3>5
      <4>2. SubSeq(f \o <<l>>, 1, Len(f)) = SubSeq(f, 1, Len(f))
        BY <3>3, <4>1, SubSeqOfConcat1
      <4>3. SubSeq(f, 1, Len(f)) = f
        BY SubSeqFull
      <4> QED BY <3>2, <3>3, <4>2, <4>3
    <3> QED BY <3>4, <3>5
  <2> QED BY <1>2, <2>5, <2>6
<1> QED BY <1>1, <1>2

(* What one piece makes of the names before it. *)
Up(piece, ns) == CASE piece \in {Empty, This} -> ns
                   [] piece = Above -> (IF ns = <<>> THEN ns ELSE Front(ns))
                   [] OTHER -> Append(ns, piece)

(* The text of a directory. *)
Folder(ns) == Joined("linux", ns, TRUE)
Comes(w, n, ns) == w[n] = Between(Folder(ns))

\* The walk through one piece and the slash behind it.
LEMMA PieceWalk ==
  ASSUME NEW a, NEW piece, NEW rest, NEW w, IsWalk(w, a \o Cell(piece.linux, Slash, rest)), NEW ns,
         a \in Text, piece \in Pieces, rest \in Text, ns \in Seq(Kept), Comes(w, Len(a), ns)
  PROVE  Comes(w, Len(a) + Len(piece.linux) + 1, Up(piece, ns))
<1> DEFINE path == a \o Cell(piece.linux, Slash, rest)
           p == piece.linux
           n == Len(a)
           data == Joined("linux", ns, TRUE)
           x == Cell(p, Slash, rest)
           tail == <<Slash>> \o rest
<1>1. /\ p \in Free(Slash) /\ p \in Text /\ ns \in Seq(Named) /\ data \in Text
      /\ n \in Nat /\ Len(p) \in Nat /\ Len(rest) \in Nat /\ Slash # Dot
  <2>1. p \in Free(Slash) /\ ns \in Seq(Named)
    BY PiecesAre, SeqMonotonic
  <2>2. p \in Text
    BY <2>1 DEF Free
  <2>3. data \in Text
    BY <2>1, JoinedEnds
  <2>4. Slash # Dot
    BY DEF Slash, Dot
  <2> QED BY <2>1, <2>2, <2>3, <2>4, LenIsNat
<1>2. tail \in Text /\ x = p \o tail /\ x \in Text /\ Len(tail) = 1 + Len(rest) /\ tail[1] = Slash
  <2> DEFINE s == <<Slash>>
  <2>1. s \in Text /\ Len(s) = 1 /\ s[1] = Slash
    BY Words
  <2> HIDE DEF s, p
  <2>2. s \o rest \in Text /\ Len(s \o rest) = 1 + Len(rest) /\ (s \o rest)[1] = Slash
    <3> DEFINE both == s \o rest
    <3>1. 1 \in 1 .. Len(s)
      BY <2>1
    <3>2. both \in Text /\ Len(both) = Len(s) + Len(rest) /\ \A i \in 1 .. Len(s) : both[i] = s[i]
      BY <2>1, AppendedIs
    <3> HIDE DEF both
    <3>3. both \in Text /\ Len(both) = 1 + Len(rest) /\ both[1] = Slash
      BY <2>1, <3>1, <3>2
    <3> QED BY <3>3 DEF both
  <2>3. (p \o s) \o rest = p \o (s \o rest)
    BY <1>1, <2>1, Joining, ZenonT(60)
  <2>4. p \o (s \o rest) \in Text
    BY <1>1, <2>2, Texts
  <2> QED BY <2>2, <2>3, <2>4 DEF Cell, s
<1> HIDE DEF x, tail
<1>0. path = a \o x /\ IsWalk(w, path)
  BY DEF x
<1> HIDE DEF path
<1>3. path = a \o x /\ Len(x) = Len(p) + 1 + Len(rest) /\ (\A i \in 1 .. Len(p) : x[i] = p[i]) /\ x[Len(p) + 1] = Slash
  <2>1. path = a \o x
    BY <1>0
  <2>2. 1 \in 1 .. Len(tail)
    BY <1>1, <1>2
  <2> DEFINE y == p \o tail
  <2>3. Len(y) = Len(p) + Len(tail) /\ (\A i \in 1 .. Len(p) : y[i] = p[i]) /\ y[Len(p) + 1] = tail[1]
    <3>1. p \in Text
      BY <1>1
    <3> HIDE DEF p
    <3>2. Len(y) = Len(p) + Len(tail) /\ (\A i \in 1 .. Len(p) : y[i] = p[i]) /\ \A i \in 1 .. Len(tail) : y[Len(p) + i] = tail[i]
      BY <1>2, <3>1, AppendedIs
    <3> HIDE DEF y
    <3> QED BY <2>2, <3>2
  <2>4. x = y
    BY <1>2
  <2> HIDE DEF y, p
  <2>5. Len(x) = Len(p) + Len(tail) /\ (\A i \in 1 .. Len(p) : x[i] = p[i]) /\ x[Len(p) + 1] = tail[1]
    BY <2>3, <2>4, Zenon
  <2>6. Len(p) + Len(tail) = Len(p) + 1 + Len(rest)
    BY <1>1, <1>2
  <2> QED BY <1>2, <2>1, <2>5, <2>6
<1>4. Len(path) = n + Len(x) /\ \A i \in 1 .. Len(x) : path[n + i] = x[i]
  <2> DEFINE both == a \o x
  <2>1. Len(both) = Len(a) + Len(x) /\ \A i \in 1 .. Len(x) : both[Len(a) + i] = x[i]
    BY <1>2, AppendedIs
  <2>2. path = both
    BY <1>3
  <2> HIDE DEF both
  <2> QED BY <2>1, <2>2, Zenon
<1>5. From(path, n + 1) = x
  BY <1>2, <1>3, FromBehind
<1>6. /\ At(path, n + 1, <<Dot, Slash>>) <=> p = <<Dot>>
      /\ At(path, n + 1, <<Dot, Dot, Slash>>) <=> p = <<Dot, Dot>>
  <2> HIDE DEF p
  <2> QED BY <1>1, <1>5, DotsAt DEF At, x
<1>7. \A i \in 1 .. Len(p) + 1 : /\ n + i \in 1 .. Len(path) /\ (n + i) - 1 = n + (i - 1)
                                 /\ w[n + i] = Walk(path, n + i, w[n + (i - 1)])
                                 /\ path[n + i] = IF i = Len(p) + 1 THEN Slash ELSE p[i]
  <2>1. SUFFICES ASSUME NEW i \in 1 .. Len(p) + 1
                 PROVE  /\ n + i \in 1 .. Len(path) /\ (n + i) - 1 = n + (i - 1)
                        /\ w[n + i] = Walk(path, n + i, w[n + (i - 1)])
                        /\ path[n + i] = IF i = Len(p) + 1 THEN Slash ELSE p[i]
    OBVIOUS
  <2> HIDE DEF p, n
  <2>2. n + i \in 1 .. Len(path) /\ (n + i) - 1 = n + (i - 1) /\ i \in 1 .. Len(x) /\ (i # Len(p) + 1 => i \in 1 .. Len(p))
    BY <1>1, <1>3, <1>4
  <2>3. w[n + i] = Walk(path, n + i, w[n + (i - 1)])
    BY <1>0, <2>2 DEF IsWalk
  <2>4. path[n + i] = IF i = Len(p) + 1 THEN Slash ELSE p[i]
    BY <1>3, <1>4, <2>2
  <2> QED BY <2>2, <2>3, <2>4
<1>8. w[n] = Between(data)
  BY DEF Folder, Comes
<1>9. /\ p = <<>> <=> piece = Empty
      /\ p = <<Dot>> <=> piece = This
      /\ p = <<Dot, Dot>> <=> piece = Above
  BY PiecesAre
<1>10. Parent(data) = Joined("linux", IF ns = <<>> THEN ns ELSE Front(ns), TRUE)
  BY <1>1, ParentNames
<1>11. Empty # This /\ Empty # Above /\ This # Above /\ On("linux", piece) = p
  BY PiecesAre, PieceWords
<1> HIDE DEF p, n, data
<1>12. n + (1 - 1) = n /\ n + (2 - 1) = n + 1 /\ n + (3 - 1) = n + 2
  BY <1>1
<1>13. CASE p = <<>>
  <2>1. Len(p) = 0 /\ Len(p) + 1 = 1 /\ n + Len(p) + 1 = n + 1
    BY <1>1, <1>13
  <2>2. w[n + 1] = Walk(path, n + 1, Between(data)) /\ path[n + 1] = Slash
    BY <1>7, <1>8, <1>12, <2>1
  <2>3. <<>> # <<Dot>> /\ <<>> # <<Dot, Dot>>
    OBVIOUS
  <2>4. w[n + 1] = Between(data)
    <3> DEFINE i == n + 1
    <3>1. path[i] = Slash /\ ~At(path, i, <<Dot, Slash>>) /\ ~At(path, i, <<Dot, Dot, Slash>>)
      BY <1>6, <1>13, <2>2, <2>3
    <3> HIDE DEF i
    <3>2. Walk(path, i, Between(data)) = Between(data)
      BY <1>1, <3>1, WalkPasses, ZenonT(60)
    <3> QED BY <2>2, <3>2 DEF i
  <2>5. Up(piece, ns) = ns
    BY <1>9, <1>13 DEF Up
  <2> QED BY <2>1, <2>4, <2>5 DEF data, n, p, Folder, Comes
<1>14. CASE p = <<Dot>>
  <2>1. Len(p) = 1 /\ p[1] = Dot /\ Len(p) + 1 = 2 /\ n + Len(p) + 1 = n + 2
    BY <1>1, <1>14
  <2>2. /\ w[n + 1] = Walk(path, n + 1, Between(data)) /\ path[n + 1] = Dot
        /\ w[n + 2] = Walk(path, n + 2, w[n + 1])
    BY <1>7, <1>8, <1>12, <2>1
  <2>3. <<Dot>> # <<Dot, Dot>>
    OBVIOUS
  <2>4. w[n + 1] = [begins |-> TRUE, pass |-> 1, data |-> data]
    <3> DEFINE i == n + 1
    <3>1. path[i] # Slash /\ At(path, i, <<Dot, Slash>>) /\ ~At(path, i, <<Dot, Dot, Slash>>)
      BY <1>1, <1>6, <1>14, <2>2, <2>3
    <3> HIDE DEF i
    <3>2. Walk(path, i, Between(data)) = [begins |-> TRUE, pass |-> 1, data |-> data]
      BY <1>1, <3>1, WalkPasses, ZenonT(60)
    <3> QED BY <2>2, <3>2 DEF i
  <2>5. w[n + 2] = Between(data)
    <3>1. Walk(path, n + 2, [begins |-> TRUE, pass |-> 1, data |-> data]) = [begins |-> TRUE, pass |-> 1 - 1, data |-> data]
      BY <1>1, WalkPasses, ZenonT(60)
    <3> QED BY <2>2, <2>4, <3>1 DEF Between
  <2>6. Up(piece, ns) = ns
    BY <1>9, <1>14 DEF Up
  <2> QED BY <2>1, <2>5, <2>6 DEF data, n, p, Folder, Comes
<1>15. CASE p = <<Dot, Dot>>
  <2>1. Len(p) = 2 /\ p[1] = Dot /\ Len(p) + 1 = 3 /\ n + Len(p) + 1 = n + 3
    BY <1>1, <1>15
  <2>2. /\ w[n + 1] = Walk(path, n + 1, Between(data)) /\ path[n + 1] = Dot
        /\ w[n + 2] = Walk(path, n + 2, w[n + 1]) /\ w[n + 3] = Walk(path, n + 3, w[n + 2])
    BY <1>7, <1>8, <1>12, <2>1
  <2>3. <<Dot>> # <<Dot, Dot>>
    OBVIOUS
  <2> DEFINE d == Parent(data)
  <2>4. w[n + 1] = [begins |-> TRUE, pass |-> 2, data |-> d]
    <3> DEFINE i == n + 1
    <3>1. path[i] # Slash /\ ~At(path, i, <<Dot, Slash>>) /\ At(path, i, <<Dot, Dot, Slash>>)
      BY <1>1, <1>6, <1>15, <2>2, <2>3
    <3> HIDE DEF i
    <3>2. Walk(path, i, Between(data)) = [begins |-> TRUE, pass |-> 2, data |-> Parent(data)]
      BY <1>1, <3>1, WalkPasses, ZenonT(60)
    <3> QED BY <2>2, <3>2 DEF i
  <2>5. w[n + 3] = Between(d)
    <3>1. d \in Text
      BY <1>1, ParentType
    <3> HIDE DEF d
    <3>2. Walk(path, n + 2, [begins |-> TRUE, pass |-> 2, data |-> d]) = [begins |-> TRUE, pass |-> 2 - 1, data |-> d]
      BY <3>1, WalkPasses, ZenonT(60)
    <3>3. Walk(path, n + 3, [begins |-> TRUE, pass |-> 1, data |-> d]) = [begins |-> TRUE, pass |-> 1 - 1, data |-> d]
      BY <3>1, WalkPasses, ZenonT(60)
    <3>4. 2 - 1 = 1 /\ 1 - 1 = 0
      OBVIOUS
    <3>5. w[n + 2] = [begins |-> TRUE, pass |-> 1, data |-> d]
      BY <2>2, <2>4, <3>2, <3>4
    <3> QED BY <2>2, <3>3, <3>4, <3>5 DEF Between
  <2>6. Up(piece, ns) = IF ns = <<>> THEN ns ELSE Front(ns)
    BY <1>9, <1>11, <1>15 DEF Up
  <2> QED BY <1>10, <2>1, <2>5, <2>6 DEF data, n, p, Folder, Comes
<1>16. CASE p # <<>> /\ p # <<Dot>> /\ p # <<Dot, Dot>>
  <2>1. piece \in Kept /\ piece \in Named /\ piece \notin {Empty, This} /\ piece # Above
    BY <1>9, <1>16, PiecesAre
  <2>2. w[n + Len(p)] = Amid(data \o p)
    <3>1. ~IsPrefix(<<Dot, Slash>>, p \o tail) /\ ~IsPrefix(<<Dot, Dot, Slash>>, p \o tail)
      BY <1>1, <1>2, <1>16, DotsAt DEF x
    <3>2. path = a \o (p \o tail)
      BY <1>2, <1>3
    <3>3. w[Len(a)] = Between(data)
      BY <1>8 DEF n
    <3>4. w[Len(a) + Len(p)] = Amid(data \o p)
      <4>1. p \in Free(Slash) /\ tail \in Text /\ data \in Text
        BY <1>1, <1>2
      <4>2. p # <<>> /\ IsWalk(w, a \o (p \o tail))
        BY <1>0, <1>16, <3>2
      <4> HIDE DEF tail
      <4> QED BY <4>1, <4>2, <3>1, <3>3, NameWalk, Zenon
    <3> QED BY <3>4 DEF n
  <2>3. /\ Len(p) + 1 \in 1 .. Len(p) + 1 /\ n + (Len(p) + 1) = n + Len(p) + 1
        /\ n + ((Len(p) + 1) - 1) = n + Len(p)
    BY <1>1
  <2>4. w[n + Len(p) + 1] = Walk(path, n + Len(p) + 1, w[n + Len(p)]) /\ path[n + Len(p) + 1] = Slash
    <3> DEFINE i == Len(p) + 1
    <3>1. i \in 1 .. Len(p) + 1 /\ n + i = n + Len(p) + 1 /\ n + (i - 1) = n + Len(p) /\ i = Len(p) + 1
      BY <2>3
    <3> HIDE DEF i
    <3>2. w[n + i] = Walk(path, n + i, w[n + (i - 1)]) /\ path[n + i] = IF i = Len(p) + 1 THEN Slash ELSE p[i]
      BY <1>7, <3>1
    <3> QED BY <3>1, <3>2
  <2>5. w[n + Len(p) + 1] = Between(Append(data \o p, Slash))
    BY <2>2, <2>4, WalkOn
  <2>6. Append(data \o p, Slash) = data \o (p \o <<Slash>>)
    <3>1. Slash \in Code
      BY Signs
    <3>2. Append(data \o p, Slash) = data \o Append(p, Slash)
      BY <1>1, <3>1, Joining, ZenonT(60)
    <3>3. Append(p, Slash) = p \o <<Slash>>
      BY <1>1, <3>1, Joining
    <3> QED BY <3>2, <3>3
  <2>7. Joined("linux", Append(ns, piece), TRUE) = data \o (p \o <<Slash>>)
    <3>1. End("linux", TRUE) = <<Slash>>
      BY DEF End, Sep
    <3>2. Joined("linux", Append(ns, piece), TRUE) = Joined("linux", ns, TRUE) \o (On("linux", piece) \o End("linux", TRUE))
      BY <1>1, <2>1, NamedSeq, NamedText, JoinedLast
    <3> QED BY <1>11, <3>1, <3>2 DEF data
  <2>8. Up(piece, ns) = Append(ns, piece)
    BY <2>1 DEF Up
  <2> QED BY <2>5, <2>6, <2>7, <2>8 DEF n, p, Folder, Comes
<1> QED BY <1>13, <1>14, <1>15, <1>16

(* After each piece that a slash ends stands the directory meant so far. *)
Follows(w, f, pieces, closed) ==
    \A s, r \in Seq(Pieces) : pieces = s \o r /\ (r # <<>> \/ closed)
        => w[Len(Joined("linux", s, TRUE))] = Between(Joined("linux", f[Len(s)], TRUE))

\* After each piece that a slash ends the walk has made the directory meant so far.
LEMMA PiecesWalk ==
  ASSUME NEW pieces, NEW closed, NEW w, IsWalk(w, Joined("linux", pieces, closed)), NEW f, IsMeant(f, pieces, closed),
         pieces \in Seq(Pieces), closed \in BOOLEAN
  PROVE  Follows(w, f, pieces, closed)
<1> DEFINE path == Joined("linux", pieces, closed)
           J(t) == Joined("linux", t, TRUE)
           S == {s \in Seq(Pieces) : \A r \in Seq(Pieces) :
                    pieces = s \o r /\ (r # <<>> \/ closed) => w[Len(J(s))] = Between(J(f[Len(s)]))}
<1>1. Seq(Pieces) \subseteq Seq(NameRec) /\ Pieces \subseteq NameRec
  BY PiecesAre, SeqMonotonic
<1>2. \A t \in Seq(NameRec), c \in BOOLEAN : Joined("linux", t, c) \in Text /\ Joined("linux", <<>>, c) = <<>>
  BY JoinedLast
<1>3. <<>> \in S
  <2>1. w[0] = Between(<<>>) /\ f[0] = <<>>
    BY DEF IsWalk, IsMeant, Between, AtStart
  <2>2. J(<<>>) = <<>> /\ Len(<<>>) = 0 /\ <<>> \in Seq(Pieces)
    BY <1>2, EmptySeq
  <2>3. w[Len(J(<<>>))] = Between(J(f[Len(<<>>)]))
    BY <2>1, <2>2
  <2> QED BY <2>2, <2>3
<1>4. ASSUME NEW s \in S, NEW piece \in Pieces PROVE Append(s, piece) \in S
  <2> DEFINE t == Append(s, piece)
             p == piece.linux
             k == Len(s)
  <2>1. t \in Seq(Pieces) /\ Len(t) = k + 1 /\ k \in Nat /\ s \in Seq(Pieces)
    BY AppendProperties, LenProperties
  <2>2. SUFFICES ASSUME NEW r \in Seq(Pieces), pieces = t \o r, r # <<>> \/ closed
                 PROVE  w[Len(J(t))] = Between(J(f[k + 1]))
    BY <2>1
  <2> DEFINE q == <<piece>> \o r
             a == J(s)
             rest == Joined("linux", r, closed)
  <2>3. q \in Seq(Pieces) /\ pieces = s \o q /\ q # <<>>
    <3>1. <<piece>> \in Seq(Pieces) /\ t = s \o <<piece>> /\ Len(<<piece>>) = 1
      BY <2>1, AppendIsConcat
    <3>2. q \in Seq(Pieces) /\ Len(q) = 1 + Len(r) /\ Len(r) \in Nat
      BY <3>1, ConcatProperties, LenProperties
    <3>3. (s \o <<piece>>) \o r = s \o (<<piece>> \o r)
      BY <2>1, <3>1, ConcatAssociative
    <3>4. q # <<>>
      <4>1. Len(q) # 0
        BY <3>2
      <4> HIDE DEF q
      <4> QED BY <3>2, <4>1, EmptySeq
    <3> QED BY <2>2, <3>1, <3>2, <3>3, <3>4
  <2>4. w[Len(a)] = Between(J(f[k]))
    BY <2>3
  <2>5. path = a \o Cell(p, Slash, rest)
    <3>1. path = a \o Joined("linux", q, closed)
      BY <1>1, <2>1, <2>3, JoinedConcat, ZenonT(60)
    <3>2. Joined("linux", q, closed) = (On("linux", piece) \o End("linux", r # <<>> \/ closed)) \o rest
      BY <1>1, JoinedFirst
    <3>3. End("linux", r # <<>> \/ closed) = <<Slash>>
      BY <2>2 DEF End, Sep
    <3>4. On("linux", piece) = p
      BY PiecesAre
    <3> QED BY <3>1, <3>2, <3>3, <3>4 DEF Cell
  <2>6. a \in Text /\ rest \in Text /\ p \in Text /\ path \in Text
    <3>1. p \in Text
      BY PiecesAre DEF Free
    <3> QED BY <1>1, <1>2, <2>1, <3>1
  <2>7. /\ k + 1 \in 1 .. Len(pieces) /\ (k + 1) - 1 = k /\ k \in 0 .. Len(pieces)
        /\ pieces[k + 1] = piece /\ (k + 1 < Len(pieces) \/ closed)
    <3>1. Len(pieces) = (k + 1) + Len(r) /\ Len(r) \in Nat /\ (\A i \in 1 .. Len(t) : pieces[i] = t[i]) /\ t[k + 1] = piece
      BY <2>1, <2>2, ConcatProperties, AppendProperties, LenProperties
    <3>2. r # <<>> => Len(r) # 0
      BY EmptySeq
    <3> HIDE DEF t, k
    <3>3. k + 1 \in 1 .. Len(pieces) /\ (k + 1) - 1 = k /\ k \in 0 .. Len(pieces) /\ k + 1 \in 1 .. Len(t) /\ (Len(r) # 0 => k + 1 < Len(pieces))
      BY <2>1, <3>1
    <3> QED BY <2>2, <3>1, <3>2, <3>3
  <2>8. f[k] \in Seq(Kept) /\ f[k + 1] = Up(piece, f[k])
    <3>1. f[k] \in Seq(Kept) /\ f[k + 1] = Step(pieces, closed, k + 1, f[k])
      BY <2>7 DEF IsMeant
    <3>2. Empty # This /\ Empty # Above /\ This # Above
      BY PieceWords
    <3>3. piece = Empty \/ piece = This \/ piece = Above \/ piece \notin {Empty, This, Above}
      OBVIOUS
    <3> HIDE DEF k, t
    <3>4. Step(pieces, closed, k + 1, f[k]) = Up(piece, f[k])
      BY <2>7, <3>2, <3>3 DEF Step, Up
    <3> QED BY <3>1, <3>4
  <2>9. w[Len(a) + Len(p) + 1] = Between(J(Up(piece, f[k])))
    <3>1. IsWalk(w, path)
      OBVIOUS
    <3> HIDE DEF path, a, k, rest
    <3>2. w[Len(a)] = Between(Folder(f[k])) /\ IsWalk(w, a \o Cell(piece.linux, Slash, rest))
      BY <2>4, <2>5, <3>1 DEF Folder
    <3>3. a \in Text /\ piece \in Pieces /\ rest \in Text /\ f[k] \in Seq(Kept)
      BY <2>6, <2>8
    <3>4. w[Len(a) + Len(piece.linux) + 1] = Between(Folder(Up(piece, f[k])))
      <4>1. Comes(w, Len(a), f[k])
        BY <3>2 DEF Comes
      <4>2. Comes(w, Len(a) + Len(piece.linux) + 1, Up(piece, f[k]))
        BY <3>2, <3>3, <4>1, PieceWalk
      <4> QED BY <4>2 DEF Comes
    <3> QED BY <3>4 DEF Folder
  <2>10. Len(J(t)) = Len(a) + Len(p) + 1
    <3>1. J(t) = a \o (On("linux", piece) \o End("linux", TRUE))
      BY <1>1, <2>1, JoinedLast
    <3>2. End("linux", TRUE) = <<Slash>> /\ On("linux", piece) = p
      BY PiecesAre DEF End, Sep
    <3>3. <<Slash>> \in Text /\ Len(<<Slash>>) = 1
      BY Words
    <3>4. Len(p \o <<Slash>>) = Len(p) + Len(<<Slash>>) /\ p \o <<Slash>> \in Text
      BY <2>6, <3>3, AppendedIs
    <3> HIDE DEF a, p
    <3>5. Len(a \o (p \o <<Slash>>)) = Len(a) + Len(p \o <<Slash>>)
      BY <2>6, <3>4, AppendedIs
    <3>6. Len(a) \in Nat /\ Len(p) \in Nat
      BY <2>6, LenIsNat
    <3>7. Len(a) + Len(p \o <<Slash>>) = Len(a) + Len(p) + 1
      BY <3>3, <3>4, <3>6
    <3> QED BY <3>1, <3>2, <3>5, <3>7
  <2> QED BY <2>8, <2>9, <2>10
<1>5. S = Seq(Pieces)
  <2>1. S \in SUBSET Seq(Pieces)
    OBVIOUS
  <2> HIDE DEF S
  <2> QED BY <1>3, <1>4, <2>1, SeqInduction
<1> QED BY <1>5 DEF Follows

\* Normal keeps of the text of an entry the names that are meant.
LEMMA NormalNames ==
  ASSUME NEW pieces \in Seq(Pieces), NEW closed \in BOOLEAN, pieces # <<>> \/ closed
  PROVE  LET normal == Normal(Joined("linux", pieces, closed))
             names == Meant(pieces, closed)
             ends == closed \/ pieces[Len(pieces)] = Empty
         IN  /\ names \in Seq(Kept)
             /\ ends => normal = Joined("linux", names, TRUE)
             /\ ~ends => normal = Joined("linux", names, FALSE) /\ names # <<>>
<1> DEFINE path == Joined("linux", pieces, closed)
           J(t) == Joined("linux", t, TRUE)
<1>1. Seq(Pieces) \subseteq Seq(NameRec) /\ Pieces \subseteq NameRec /\ Seq(Kept) \subseteq Seq(NameRec)
  <2>1. Kept \subseteq Pieces
    BY PiecesAre
  <2> QED BY <2>1, PiecesAre, SeqMonotonic
<1>2. \A t \in Seq(NameRec), c \in BOOLEAN : Joined("linux", t, c) \in Text
  BY JoinedLast
<1>3. PICK w : IsWalk(w, path) /\ Normal(path) = w[Len(path)].data
  BY <1>1, <1>2, NormalSteps
<1>4. PICK f : IsMeant(f, pieces, closed) /\ Meant(pieces, closed) = f[Len(pieces)]
  BY MeantSteps
<1>5. \A s, r \in Seq(Pieces) : pieces = s \o r /\ (r # <<>> \/ closed) => w[Len(J(s))] = Between(J(f[Len(s)]))
  <2>1. Follows(w, f, pieces, closed)
    BY <1>3, <1>4, PiecesWalk, Zenon
  <2> QED BY <2>1 DEF Follows
<1>6. f[Len(pieces)] \in Seq(Kept)
  <2>1. Len(pieces) \in 0 .. Len(pieces)
    BY LenProperties
  <2> QED BY <1>4, <2>1 DEF IsMeant
<1>7. \A data : Between(data).data = data /\ Amid(data).data = data
  BY DEF Between, Amid
<1>8. CASE closed
  <2>1. pieces \o <<>> = pieces /\ <<>> \in Seq(Pieces)
    BY ConcatEmptySeq, EmptySeq
  <2>2. w[Len(J(pieces))] = Between(J(f[Len(pieces)])) /\ closed = TRUE
    BY <1>5, <1>8, <2>1
  <2> QED BY <1>3, <1>4, <1>6, <1>7, <1>8, <2>2
<1>9. CASE ~closed
  <2>0. pieces # <<>> /\ closed = FALSE
    BY <1>9
  <2>1. PICK s \in Seq(Pieces), piece \in Pieces : pieces = Append(s, piece)
    BY <2>0, FirstAndLast, ZenonT(60)
  <2> DEFINE a == J(s)
             p == piece.linux
             k == Len(s)
  <2>2. /\ pieces = s \o <<piece>> /\ <<piece>> \in Seq(Pieces) /\ <<piece>> # <<>>
        /\ Len(pieces) = k + 1 /\ k \in Nat /\ pieces[k + 1] = piece
    BY <2>1, AppendIsConcat, AppendProperties, LenProperties
  <2>3. w[Len(a)] = Between(J(f[k]))
    BY <1>5, <2>2
  <2>4. path = a \o p
    <3>1. path = a \o (On("linux", piece) \o End("linux", FALSE))
      BY <1>1, <2>0, <2>1, JoinedLast
    <3>2. End("linux", FALSE) = <<>> /\ On("linux", piece) = p /\ p \in Text
      BY PiecesAre DEF End, Free
    <3>3. p \o <<>> = p
      BY <3>2, Joining
    <3> QED BY <3>1, <3>2, <3>3
  <2>5. f[k] \in Seq(Kept) /\ f[k + 1] = IF piece = Empty THEN f[k] ELSE Append(f[k], piece)
    <3>1. k + 1 \in 1 .. Len(pieces) /\ (k + 1) - 1 = k /\ k \in 0 .. Len(pieces) /\ ~(k + 1 < Len(pieces))
      BY <2>2
    <3>2. f[k] \in Seq(Kept) /\ f[k + 1] = Step(pieces, closed, k + 1, f[k])
      BY <1>4, <3>1 DEF IsMeant
    <3> HIDE DEF k
    <3>3. Step(pieces, closed, k + 1, f[k]) = IF piece = Empty THEN f[k] ELSE Append(f[k], piece)
      BY <2>0, <2>2, <3>1 DEF Step
    <3> QED BY <3>2, <3>3
  <2>6. CASE piece = Empty
    <3>1. p = <<>> /\ a \in Text
      BY <1>1, <1>2, <2>6, PiecesAre
    <3>2. path = a
      BY <2>4, <3>1, Joining
    <3>3. Normal(path) = J(f[k + 1])
      <4>1. f[k + 1] = f[k]
        BY <2>5, <2>6
      <4>2. w[Len(path)] = Between(J(f[k]))
        BY <2>3, <3>2
      <4> QED BY <1>3, <1>7, <4>1, <4>2, Zenon
    <3> QED BY <1>4, <1>6, <2>2, <2>6, <3>3
  <2>7. CASE piece # Empty
    <3> DEFINE data == J(f[k])
    <3>1. /\ p \in Free(Slash) /\ p # <<>> /\ <<>> \in Text /\ a \in Text /\ data \in Text /\ p \in Text
          /\ ~IsPrefix(<<Dot, Slash>>, p) /\ ~IsPrefix(<<Dot, Dot, Slash>>, p)
      <4>1. p \in Free(Slash) /\ p # <<>>
        BY <2>7, PiecesAre
      <4>2. <<>> \in Text /\ ~IsPrefix(<<Dot, Slash>>, p) /\ ~IsPrefix(<<Dot, Dot, Slash>>, p)
        BY <4>1, Words, DotsAt
      <4>3. p \in Text
        BY <4>1 DEF Free
      <4>4. a \in Text /\ data \in Text
        BY <1>1, <1>2, <2>5
      <4> QED BY <4>1, <4>2, <4>3, <4>4
    <3>2. p \o <<>> = p
      BY <3>1, Joining
    <3>3. IsWalk(w, a \o (p \o <<>>))
      BY <1>3, <2>4, <3>2
    <3>4. w[Len(a) + Len(p)] = Amid(data \o p)
      <4> HIDE DEF a, p, data
      <4>1. ~IsPrefix(<<Dot, Slash>>, p \o <<>>) /\ ~IsPrefix(<<Dot, Dot, Slash>>, p \o <<>>)
        BY <3>1, <3>2
      <4>2. w[Len(a)] = Between(data)
        BY <2>3 DEF a, data
      <4> QED BY <3>1, <3>3, <4>1, <4>2, NameWalk, Zenon
    <3>5. Len(path) = Len(a) + Len(p)
      <4> HIDE DEF a, p
      <4> QED BY <2>4, <3>1, AppendedIs
    <3>6. Normal(path) = data \o p
      BY <1>3, <1>7, <3>4, <3>5
    <3>7. piece \in Kept /\ piece \in NameRec /\ On("linux", piece) = p /\ End("linux", FALSE) = <<>>
      BY <2>7, PiecesAre DEF End
    <3>8. Joined("linux", Append(f[k], piece), FALSE) = data \o (On("linux", piece) \o End("linux", FALSE))
      BY <1>1, <2>5, <3>7, JoinedLast
    <3>9. Append(f[k], piece) # <<>>
      BY <2>5, <3>7, AppendProperties, EmptySeq, LenProperties
    <3> HIDE DEF data, p
    <3>10. Normal(path) = Joined("linux", f[k + 1], FALSE) /\ f[k + 1] # <<>>
      BY <2>5, <2>7, <3>2, <3>6, <3>7, <3>8, <3>9
    <3> QED BY <1>4, <1>6, <2>0, <2>2, <2>7, <3>10
  <2> QED BY <2>6, <2>7
<1> QED BY <1>8, <1>9

\* The text of names is empty only without names.
LEMMA NoNames ==
  ASSUME NEW ns \in Seq(Named), NEW closed \in BOOLEAN
  PROVE  Joined("linux", ns, closed) = <<>> <=> ns = <<>>
<1>1. CASE ns = <<>>
  BY <1>1, JoinedLast
<1>2. CASE ns # <<>>
  <2>1. PICK s \in Seq(Named), n \in Named : ns = Append(s, n)
    BY <1>2, FirstAndLast, ZenonT(60)
  <2> DEFINE a == Joined("linux", s, TRUE)
             b == On("linux", n)
             c == End("linux", closed)
             d == b \o c
             e == a \o d
  <2>2. Joined("linux", ns, closed) = e /\ a \in Text /\ b \in Text /\ c \in Text /\ b # <<>>
    <3>1. "linux" \in Classes
      BY DEF Classes
    <3> QED BY <2>1, <3>1, NamedSeq, NamedText, JoinedLast, OnFree, EndType
  <2> HIDE DEF a, b, c
  <2>3. d \in Text /\ Len(d) = Len(b) + Len(c)
    BY <2>2, AppendedIs
  <2> HIDE DEF d
  <2>4. e \in Text /\ Len(e) = Len(a) + Len(d)
    BY <2>2, <2>3, AppendedIs
  <2> HIDE DEF e
  <2>5. Len(a) \in Nat /\ Len(b) \in Nat /\ Len(c) \in Nat /\ Len(b) # 0
    BY <2>2, LenIsNat, EmptySeq DEF Text
  <2>6. Len(e) # 0 /\ Len(<<>>) = 0
    BY <2>3, <2>4, <2>5
  <2>7. e # <<>>
    BY <2>6
  <2> QED BY <1>2, <2>2, <2>7
<1> QED BY <1>1, <1>2

\* What the constructor makes of a text.
LEMMA LinuxPathIs ==
  ASSUME NEW path \in Text, NEW prefix \in Text
  PROVE  LET from == LinuxPath(path, prefix)
             text == IF prefix = <<>> THEN path ELSE From(path, Len(Slashed(prefix)) + 1)
         IN  /\ prefix = <<>> \/ IsPrefix(Slashed(prefix), path) => from.data = Normal(text) /\ (from.skip <=> Normal(text) = <<>>)
             /\ ~(prefix = <<>> \/ IsPrefix(Slashed(prefix), path)) => from.data = <<>> /\ from.skip = TRUE
<1> DEFINE text == IF prefix = <<>> THEN path ELSE From(path, Len(Slashed(prefix)) + 1)
           data == Normal(text)
           new == New("linux")
           inside == prefix = <<>> \/ IsPrefix(Slashed(prefix), path)
<1>1. text \in Text
  <2>1. CASE prefix # <<>>
    <3>1. Slashed(prefix) \in Text
      BY Signs, Texts DEF Slashed
    <3>2. Len(Slashed(prefix)) + 1 \in Nat \ {0}
      BY <3>1 DEF Text
    <3>3. From(path, Len(Slashed(prefix)) + 1) \in Text
      BY <3>2, FromType
    <3> QED BY <2>1, <3>3
  <2> QED BY <2>1
<1>2. data \in Text
  BY <1>1, NormalType
<1>3. new \in PathRec /\ new.m1 \in Matcher /\ new.m2 \in Matcher /\ new.data = <<>>
  <2>1. "linux" \in Classes
    BY DEF Classes
  <2>2. new \in PathRec /\ new.m1 \in Matcher /\ new.m2 \in Matcher
    BY <2>1, NewType, PathParts DEF DiskPaths, Matchers
  <2> QED BY <2>2 DEF New
<1>4. /\ inside => LinuxPath(path, prefix) = [new EXCEPT !.data = data, !.skip = (data = <<>>)]
      /\ ~inside => LinuxPath(path, prefix) = [new EXCEPT !.skip = TRUE]
  BY DEF LinuxPath
<1> HIDE DEF new, data, inside
<1>5. \A skip \in BOOLEAN : HasParts([new EXCEPT !.data = data, !.skip = skip], new.class, data, skip, new.m1, new.m2)
  BY <1>2, <1>3, PathChanges, Zenon
<1>6. HasParts([new EXCEPT !.skip = TRUE], new.class, new.data, TRUE, new.m1, new.m2)
  BY <1>2, <1>3, PathChanges, Zenon
<1>7. CASE inside
  <2> DEFINE empty == data = <<>>
  <2>1. empty \in BOOLEAN
    OBVIOUS
  <2>2. HasParts(LinuxPath(path, prefix), new.class, data, empty, new.m1, new.m2)
    BY <1>4, <1>5, <1>7, <2>1
  <2>3. LinuxPath(path, prefix).data = data /\ LinuxPath(path, prefix).skip = empty
    BY <2>2 DEF HasParts
  <2> QED BY <1>7, <2>3 DEF data, inside
<1>8. CASE ~inside
  <2>1. HasParts(LinuxPath(path, prefix), new.class, new.data, TRUE, new.m1, new.m2)
    BY <1>4, <1>6, <1>8
  <2>2. LinuxPath(path, prefix).data = <<>> /\ LinuxPath(path, prefix).skip = TRUE
    BY <1>3, <2>1 DEF HasParts
  <2> QED BY <1>8, <2>2 DEF inside
<1> QED BY <1>7, <1>8

(* The names of an entry below the root directory, and whether it is a directory. *)
Below(root0, pieces, closed) ==
    IF root0 = NoRoot THEN Meant(pieces, closed)
    ELSE IF pieces[1] = root0 /\ (Len(pieces) > 1 \/ closed) THEN Meant(Tail(pieces), closed) ELSE <<>>
IsDir(pieces, closed) == closed \/ pieces[Len(pieces)] = Empty
Prefix(root0) == IF root0 = NoRoot THEN <<>> ELSE root0.linux

\* The text of an entry begins with the root directory if the first name is that directory.
LEMMA RootFirst ==
  ASSUME NEW pieces \in Seq(Pieces), pieces # <<>>, NEW closed \in BOOLEAN, NEW r \in Names
  PROVE  LET path == Joined("linux", pieces, closed)
             under == Slashed(r.linux)
             inside == pieces[1] = r /\ (Len(pieces) > 1 \/ closed)
         IN  /\ r.linux # <<>> /\ r.linux \in Text
             /\ IsPrefix(under, path) <=> inside
             /\ inside => From(path, Len(under) + 1) = Joined("linux", Tail(pieces), closed)
<1> DEFINE path == Joined("linux", pieces, closed)
           u == r.linux
           under == Slashed(u)
           piece == pieces[1]
           ps == Tail(pieces)
           p == piece.linux
           rest == Joined("linux", ps, closed)
           more == ps # <<>> \/ closed
<1>1. /\ piece \in Pieces /\ ps \in Seq(Pieces) /\ pieces = <<piece>> \o ps /\ Len(ps) = Len(pieces) - 1
      /\ Len(pieces) \in Nat
  BY FirstAndLast, LenProperties
<1>2. u \in Free(Slash) /\ u # <<>> /\ u \in Text /\ r \in Named
  <2>1. r \in Named /\ "linux" \in Classes /\ Sep("linux") = Slash
    BY NamedNames DEF Classes, Sep
  <2>2. On("linux", r) = u
    BY DEF On
  <2>3. u \in Free(Slash) /\ u # <<>>
    BY <2>1, <2>2, OnFree
  <2> QED BY <2>1, <2>3 DEF Free
<1>3. under = Cell(u, Slash, <<>>) /\ Slash \in Code /\ <<>> \in Text /\ under \in Text
  <2>1. Len(u) \in 1 .. Len(u)
    BY <1>2, LenIsNat, EmptySeq DEF Text
  <2>2. Last(u) # Slash
    BY <1>2, <2>1 DEF Last, Free
  <2>3. under = Append(u, Slash) /\ Slash \in Code /\ <<>> \in Text
    BY <2>2, Signs, Words DEF Slashed
  <2> HIDE DEF u, under
  <2>4. Append(u, Slash) = u \o <<Slash>> /\ u \o <<Slash>> \in Text
    BY <1>2, <2>3, Joining, Words, Texts
  <2>5. (u \o <<Slash>>) \o <<>> = u \o <<Slash>>
    BY <2>4, Joining
  <2> QED BY <2>3, <2>4, <2>5 DEF Cell
<1> HIDE DEF ps, piece
<1>4. p \in Free(Slash) /\ p \in Text /\ On("linux", piece) = p /\ piece \in NameRec /\ ps \in Seq(NameRec)
  <2>1. p \in Free(Slash) /\ On("linux", piece) = p /\ piece \in NameRec
    BY <1>1, PiecesAre
  <2>2. ps \in Seq(NameRec)
    BY <1>1, PiecesAre, SeqMonotonic
  <2> QED BY <2>1, <2>2 DEF Free
<1>5. path = (p \o End("linux", more)) \o rest /\ rest \in Text
  <2>1. Joined("linux", <<piece>> \o ps, closed) = (On("linux", piece) \o End("linux", ps # <<>> \/ closed)) \o Joined("linux", ps, closed)
    BY <1>4, JoinedFirst
  <2>2. rest \in Text
    BY <1>4, JoinedLast
  <2> QED BY <1>1, <1>4, <2>1, <2>2
<1>6. u = p <=> piece = r
  <2>1. CASE piece = Empty
    <3>1. p = <<>>
      BY <1>1, <2>1, PiecesAre
    <3> QED BY <1>2, <3>1
  <2>2. CASE piece # Empty
    <3>1. piece \in Named
      BY <1>1, <2>2, PiecesAre
    <3> QED BY <1>2, <3>1, NameByLinux
  <2> QED BY <2>1, <2>2
<1>7. more <=> Len(pieces) > 1 \/ closed
  <2>1. ps # <<>> <=> Len(ps) # 0
    BY <1>1, EmptySeq
  <2>2. Len(ps) # 0 <=> Len(pieces) > 1
    <3>1. Len(ps) \in Nat
      BY <1>1, LenProperties
    <3> QED BY <1>1, <3>1
  <2> QED BY <2>1, <2>2
<1> HIDE DEF u, p, rest, under, path
<1>8. CASE more
  <2>1. path = Cell(p, Slash, rest)
    <3>1. End("linux", more) = <<Slash>>
      BY <1>8 DEF End, Sep
    <3> QED BY <1>5, <3>1 DEF Cell
  <2>2. IsPrefix(<<>>, rest)
    <3>1. Len(<<>>) = 0
      OBVIOUS
    <3> QED BY <1>3, <1>5, <3>1, PrefixIs, LenIsNat
  <2>3. IsPrefix(under, path) <=> u = p
    <3>1. IsPrefix(Cell(u, Slash, <<>>), Cell(p, Slash, rest)) <=> u = p /\ IsPrefix(<<>>, rest)
      BY <1>2, <1>3, <1>4, <1>5, Peel
    <3> QED BY <1>3, <2>1, <2>2, <3>1
  <2>4. u = p => From(path, Len(under) + 1) = rest
    <3>1. under = u \o <<Slash>>
      <4>1. u \o <<Slash>> \in Text
        BY <1>2, <1>3, Words, Texts
      <4> QED BY <1>3, <4>1, Joining DEF Cell
    <3>2. u = p => path = under \o rest
      BY <2>1, <3>1 DEF Cell
    <3>3. From(under \o rest, Len(under) + 1) = rest
      BY <1>3, <1>5, FromBehind
    <3> QED BY <3>2, <3>3
  <2> QED BY <1>2, <1>6, <1>7, <1>8, <2>3, <2>4 DEF u, under, path, rest, ps, piece
<1>9. CASE ~more
  <2>1. path = p
    <3>1. End("linux", more) = <<>> /\ ps = <<>> /\ closed \in BOOLEAN
      BY <1>9 DEF End
    <3>2. rest = <<>>
      BY <3>1, JoinedLast DEF rest
    <3>3. p \o <<>> = p
      BY <1>4, Joining
    <3> QED BY <1>5, <3>1, <3>2, <3>3
  <2>2. ~IsPrefix(under, path)
    BY <1>2, <1>3, <1>4, <2>1, Peel
  <2> QED BY <1>2, <1>7, <1>9, <2>2 DEF u, under, path, rest, ps, piece
<1> QED BY <1>8, <1>9

\* The path of an entry of an archive is made of the names meant by it.
LEMMA EntryPath ==
  ASSUME NEW pieces \in Seq(Pieces), pieces # <<>>, NEW closed \in BOOLEAN, NEW root0 \in Roots \cup {NoRoot}
  PROVE  LET from == LinuxPath(Joined("linux", pieces, closed), Prefix(root0))
             below == Below(root0, pieces, closed)
         IN  /\ below \in Seq(Kept)
             /\ IsDir(pieces, closed) => from.data = Joined("linux", below, TRUE)
             /\ ~IsDir(pieces, closed) => from.data = Joined("linux", below, FALSE)
             /\ from.skip <=> below = <<>>
<1> DEFINE path == Joined("linux", pieces, closed)
           from == LinuxPath(path, Prefix(root0))
           below == Below(root0, pieces, closed)
           isDir == IsDir(pieces, closed)
<1>1. path \in Text /\ Prefix(root0) \in Text /\ <<>> \in Seq(Kept) /\ <<>> \in Seq(Named)
  <2>1. pieces \in Seq(NameRec)
    BY PiecesAre, SeqMonotonic
  <2>2. root0 # NoRoot => root0 \in Names
    BY NamesAssumption
  <2>3. Prefix(root0) \in Text
    BY <2>2, NamesAssumption, Words DEF Prefix
  <2> QED BY <2>1, <2>3, JoinedLast, EmptySeq
<1>2. \A c \in BOOLEAN : Joined("linux", <<>>, c) = <<>>
  BY JoinedLast
<1>3. ASSUME NEW ps \in Seq(Pieces), ps # <<>> \/ closed, IsDir(ps, closed) <=> isDir,
             from.data = Normal(Joined("linux", ps, closed)), from.skip <=> from.data = <<>>, below = Meant(ps, closed)
      PROVE  /\ below \in Seq(Kept)
             /\ isDir => from.data = Joined("linux", below, TRUE)
             /\ ~isDir => from.data = Joined("linux", below, FALSE)
             /\ from.skip <=> below = <<>>
  <2> HIDE DEF from, below, isDir
  <2>1. /\ below \in Seq(Kept)
        /\ IsDir(ps, closed) => from.data = Joined("linux", below, TRUE)
        /\ ~IsDir(ps, closed) => from.data = Joined("linux", below, FALSE)
    BY <1>3, NormalNames DEF IsDir
  <2>2. \A c \in BOOLEAN : Joined("linux", below, c) = <<>> <=> below = <<>>
    BY <2>1, PiecesAre, SeqMonotonic, NoNames
  <2> QED BY <1>3, <2>1, <2>2
<1>4. CASE root0 = NoRoot
  <2>1. Prefix(root0) = <<>> /\ below = Meant(pieces, closed)
    BY <1>4 DEF Prefix, Below
  <2>2. from.data = Normal(path) /\ (from.skip <=> from.data = <<>>)
    BY <1>1, <2>1, LinuxPathIs, ZenonT(60)
  <2> HIDE DEF from, below
  <2>3. /\ below \in Seq(Kept)
        /\ isDir => from.data = Joined("linux", below, TRUE)
        /\ ~isDir => from.data = Joined("linux", below, FALSE)
        /\ from.skip <=> below = <<>>
    BY <1>3, <2>1, <2>2
  <2> QED BY <2>3 DEF from, below
<1>5. CASE root0 # NoRoot
  <2> DEFINE inside == pieces[1] = root0 /\ (Len(pieces) > 1 \/ closed)
             u == root0.linux
  <2>1. root0 \in Names /\ Prefix(root0) = u
    BY <1>5, NamesAssumption DEF Prefix
  <2>2. /\ u # <<>> /\ u \in Text
        /\ IsPrefix(Slashed(u), path) <=> inside
        /\ inside => From(path, Len(Slashed(u)) + 1) = Joined("linux", Tail(pieces), closed)
    BY <2>1, RootFirst
  <2>3. CASE inside
    <3>1. from.data = Normal(Joined("linux", Tail(pieces), closed)) /\ (from.skip <=> from.data = <<>>)
      <4> DEFINE text == From(path, Len(Slashed(u)) + 1)
                 names == Joined("linux", Tail(pieces), closed)
      <4>1. from = LinuxPath(path, u) /\ IsPrefix(Slashed(u), path) /\ text = names
        BY <2>1, <2>2, <2>3
      <4>2. (IF u = <<>> THEN path ELSE text) = text
        BY <2>2
      <4> HIDE DEF path, u, from
      <4>3. from.data = Normal(text) /\ (from.skip <=> Normal(text) = <<>>)
        BY <1>1, <2>2, <4>1, <4>2, LinuxPathIs
      <4> HIDE DEF text, names
      <4> QED BY <4>1, <4>3 DEF names
    <3>2. below = Meant(Tail(pieces), closed)
      BY <1>5, <2>3 DEF Below
    <3> DEFINE ps == Tail(pieces)
    <3>3. ps \in Seq(Pieces) /\ Len(ps) = Len(pieces) - 1 /\ pieces = <<pieces[1]>> \o ps /\ pieces[1] \in Pieces /\ Len(pieces) \in Nat
      BY FirstAndLast, LenProperties
    <3>4. ps # <<>> \/ closed
      <4>1. Len(pieces) > 1 => Len(ps) # 0
        BY <3>3
      <4> HIDE DEF ps
      <4> QED BY <2>3, <3>3, <4>1, EmptySeq
    <3>5. IsDir(ps, closed) <=> isDir
      <4>1. CASE closed
        BY <4>1 DEF IsDir
      <4>2. CASE ~closed
        <5>1. ps[Len(ps)] = pieces[Len(pieces)]
          <6>1. Len(pieces) > 1
            BY <2>3, <4>2
          <6> QED BY <3>3, <6>1, HeadTailProperties
        <5> QED BY <5>1 DEF IsDir
      <4> QED BY <4>1, <4>2
    <3> HIDE DEF from, below, isDir
    <3>6. from.data = Normal(Joined("linux", ps, closed)) /\ below = Meant(ps, closed)
      BY <3>1, <3>2
    <3> HIDE DEF ps
    <3>7. /\ below \in Seq(Kept)
          /\ isDir => from.data = Joined("linux", below, TRUE)
          /\ ~isDir => from.data = Joined("linux", below, FALSE)
          /\ from.skip <=> below = <<>>
      BY <1>3, <3>1, <3>3, <3>4, <3>5, <3>6
    <3> QED BY <3>7 DEF from, below, isDir
  <2>4. CASE ~inside
    <3>1. from.data = <<>> /\ from.skip = TRUE
      BY <1>1, <2>1, <2>2, <2>4, LinuxPathIs
    <3>2. below = <<>>
      BY <1>5, <2>4 DEF Below
    <3> HIDE DEF from, below
    <3>3. below \in Seq(Kept) /\ from.data = Joined("linux", below, TRUE) /\ from.data = Joined("linux", below, FALSE) /\ (from.skip <=> below = <<>>)
      BY <1>1, <1>2, <3>1, <3>2
    <3> QED BY <3>3 DEF from, below
  <2> QED BY <2>3, <2>4
<1> QED BY <1>4, <1>5

(* What the names in "trail" have to do with the paths *)

Shown(class) == IF class = "v2" THEN {n \in Names : ~Reserved(n)} ELSE Names \cup Foreign

(* The names that the source path spells; an entry of an archive lies below rootfs. *)
Way == IF source.class = "linux" THEN Tail(trail) ELSE trail

InArchive ==
    IF outcome = "none" THEN dir = TRUE
    ELSE /\ trail = <<>> <=> source.skip
         /\ trail # <<>> => /\ trail[1] = Rootfs /\ Tail(trail) \in Seq(Kept) /\ Goes(trail, dir)
                            /\ source.data = Joined("linux", Tail(trail), dir)
OnDisk ==
    /\ trail \in Seq(Shown(source.class)) /\ source.data = Joined(source.class, trail, dir)
    /\ IF outcome = "none" THEN trail = <<>> /\ dir = TRUE ELSE trail # <<>>
    /\ Len(sizes) - 1 <= Len(trail) /\ (~dir => Len(sizes) - 1 < Len(trail))
    /\ \A k \in 1 .. Len(sizes) : sizes[k] = Len(Joined(source.class, SubSeq(trail, 1, k - 1), TRUE))

(* The target is what the source was last converted into, whatever it was before. *)
Arrived == \E to \in DiskPaths(target.class) : target = Convert(source, to).path /\ outcome = Convert(source, to).outcome

Stands == /\ target.skip = FALSE /\ (outcome # "none" => Arrived)
          /\ source.class = "linux" => InArchive
          /\ source.class # "linux" => OnDisk

\* A sequence whose elements are all in a set.
LEMMA SeqWithin ==
  ASSUME NEW X, NEW Y, NEW s \in Seq(X), \A i \in 1 .. Len(s) : s[i] \in Y
  PROVE  s \in Seq(Y)
<1>1. s \in [1 .. Len(s) -> X] /\ Len(s) \in Nat
  BY LenProperties
<1>2. s \in [1 .. Len(s) -> Y]
  BY <1>1
<1> QED BY <1>1, <1>2

\* The file that was converted last, by its names: the names the path spells, and the names
\* in Linux that they lead to.
LEMMA Standing ==
  ASSUME CopyInv, Stands, outcome # "none", Known, trail # <<>>
  PROVE  LET F == Full(source.class, Way, dir)
         IN  /\ dir \in BOOLEAN /\ source.class \in Classes /\ target.class \in Classes
             /\ Way \in Seq(Named) /\ Spells(source, Way, dir) /\ (\A i \in 1 .. Len(Way) : \E j \in DOMAIN trail : Way[i] = trail[j])
             /\ F \in Seq(Named) /\ F # <<>>
             /\ InLinux <=> Goes(F, dir) /\ F[1] = Rootfs
             /\ InLinux => LinuxNames = Tail(F)
             /\ ~InLinux => F = trail /\ LinuxNames = trail
             /\ Hides(source, Way) <=> source.class = "legacy" /\ InRootfs /\ LinuxNames # <<>> /\ LinuxNames[1] \in Moved
<1> DEFINE F == Full(source.class, Way, dir)
<1>1. /\ dir \in BOOLEAN /\ source.class \in Classes /\ target.class \in Classes /\ trail \in Seq(AllNames)
      /\ source.class = "linux" => InArchive
      /\ source.class # "linux" => OnDisk
  BY PathParts DEF CopyInv, Kinds, Stands, DiskPaths
<1>2. Rootfs \notin Moved /\ Rootfs \in Named /\ Moved \subseteq Named /\ Names \subseteq Named /\ Kept \subseteq Named
  BY RootfsIsNotMoved, NamedNames, PiecesAre
<1>3. /\ trail = <<trail[1]>> \o Tail(trail) /\ Len(Tail(trail)) = Len(trail) - 1 /\ Len(trail) \in Nat \ {0}
      /\ Tail(trail) \in Seq(AllNames) /\ trail[1] \in AllNames
  BY <1>1, FirstAndLast, EmptySeq, LenProperties
<1>4. \A i \in 1 .. Len(Tail(trail)) : Tail(trail)[i] = trail[i + 1] /\ i + 1 \in DOMAIN trail
  BY <1>1, <1>3, HeadTailProperties, LenProperties
<1>5. Tail(trail) # <<>> <=> Len(trail) > 1
  <2>1. Tail(trail) # <<>> <=> Len(Tail(trail)) # 0
    BY <1>3, EmptySeq
  <2> QED BY <1>3, <2>1
<1>6. InRootfs <=> Goes(trail, dir) /\ trail[1] = Rootfs
  BY DEF InRootfs, Top, Goes
<1>7. Top(trail, Moved) <=> Goes(trail, dir) /\ trail[1] \in Moved
  BY DEF Top, Goes
<1>8. CASE source.class = "linux"
  <2>1. trail[1] = Rootfs /\ Tail(trail) \in Seq(Kept) /\ Goes(trail, dir) /\ source.data = Joined("linux", Tail(trail), dir) /\ ~source.skip
    BY <1>1, <1>8 DEF InArchive
  <2>2. Way = Tail(trail) /\ F = <<Rootfs>> \o Tail(trail)
    BY <1>8 DEF Way, Full
  <2>3. F = trail
    BY <1>3, <2>1, <2>2
  <2>4. Way \in Seq(Named)
    BY <1>2, <2>1, <2>2, SeqMonotonic
  <2>5. Spells(source, Way, dir)
    BY <1>5, <1>8, <2>1, <2>2 DEF Spells, Goes
  <2>6. F \in Seq(Named) /\ F # <<>>
    BY <1>1, <1>8, <2>4, FullIsNamed
  <2>7. InLinux /\ LinuxNames = Tail(trail)
    BY <1>6, <2>1 DEF InLinux, LinuxNames
  <2>8. ~Hides(source, Way)
    BY <1>8, <2>1 DEF Hides
  <2> QED BY <1>1, <1>4, <1>8, <2>1, <2>2, <2>3, <2>4, <2>5, <2>6, <2>7, <2>8
<1>9. CASE source.class # "linux"
  <2>1. trail \in Seq(Shown(source.class)) /\ source.data = Joined(source.class, trail, dir)
    BY <1>1, <1>9 DEF OnDisk
  <2>2. Way = trail
    BY <1>9 DEF Way
  <2>3. trail \in Seq(Named)
    <3>1. \A i \in 1 .. Len(trail) : trail[i] \in Shown(source.class) /\ i \in DOMAIN trail
      BY <2>1, LenProperties, ElementOfSeq
    <3>2. \A i \in 1 .. Len(trail) : trail[i] \in Named
      BY <1>2, <3>1 DEF Known, Shown
    <3> QED BY <2>1, <3>2, SeqWithin
  <2>4. Spells(source, Way, dir)
    <3>1. source.class = "v2" => \A i \in 1 .. Len(trail) : ~Reserved(trail[i])
      <4>1. \A i \in 1 .. Len(trail) : trail[i] \in Shown(source.class)
        BY <2>1, ElementOfSeq
      <4> QED BY <4>1 DEF Shown
    <3> QED BY <2>1, <2>2, <3>1 DEF Spells
  <2>5. F \in Seq(Named) /\ F # <<>>
    BY <2>2, <2>3, FullIsNamed
  <2>6. \A i \in 1 .. Len(Way) : Way[i] = trail[i] /\ i \in DOMAIN trail
    BY <1>1, <2>2, LenProperties
  <2>7. Hides(source, Way) <=> source.class = "legacy" /\ Len(trail) > 1 /\ trail[1] = Rootfs /\ trail[2] \in Moved
    BY <1>9, <2>2 DEF Hides, Deep
  <2>8. Len(trail) > 1 => Tail(trail)[1] = trail[2]
    <3>1. Len(trail) > 1 => 1 \in 1 .. Len(Tail(trail)) /\ 1 + 1 = 2
      BY <1>3
    <3> QED BY <1>4, <3>1
  <2>9. CASE source.class = "legacy" /\ Goes(trail, dir) /\ trail[1] \in Moved
    <3>1. F = <<Rootfs>> \o trail
      BY <2>2, <2>9 DEF Full
    <3>2. Tail(F) = trail /\ F[1] = Rootfs /\ Len(F) > 1
      <4>1. <<Rootfs>> \in Seq(Named) /\ Len(<<Rootfs>>) = 1 /\ <<Rootfs>>[1] = Rootfs /\ 1 \in 1 .. Len(<<Rootfs>>)
        BY <1>2
      <4>2. Len(F) = 1 + Len(trail) /\ F[1] = Rootfs
        BY <2>3, <3>1, <4>1, ConcatProperties
      <4>3. Tail(F) = trail
        BY <1>2, <2>3, <3>1
      <4> QED BY <1>3, <4>2, <4>3
    <3>3. ~InRootfs /\ InLinux /\ LinuxNames = trail
      BY <1>2, <1>6, <1>7, <2>9 DEF InLinux, LinuxNames
    <3>4. ~Hides(source, Way)
      BY <1>2, <2>7, <2>9
    <3> QED BY <1>1, <2>2, <2>3, <2>4, <2>5, <2>6, <3>2, <3>3, <3>4 DEF Goes
  <2>10. CASE ~(source.class = "legacy" /\ Goes(trail, dir) /\ trail[1] \in Moved)
    <3>1. F = trail
      BY <1>9, <2>2, <2>10 DEF Full
    <3>2. InLinux <=> InRootfs
      BY <1>7, <2>10 DEF InLinux
    <3>3. (InRootfs => LinuxNames = Tail(trail)) /\ (~InRootfs => LinuxNames = trail)
      BY DEF LinuxNames
    <3>4. Hides(source, Way) <=> source.class = "legacy" /\ InRootfs /\ LinuxNames # <<>> /\ LinuxNames[1] \in Moved
      BY <1>5, <1>6, <2>7, <2>8, <3>3 DEF Goes
    <3> QED BY <1>1, <1>6, <2>2, <2>3, <2>4, <2>5, <2>6, <3>1, <3>2, <3>3, <3>4
  <2> QED BY <2>9, <2>10
<1> QED BY <1>8, <1>9

\* Where a file belongs by its names is where convert puts it.
LEMMA PlaceIs ==
  ASSUME CopyInv, Stands, outcome # "none", Known, trail # <<>>
  PROVE  LET F == Full(source.class, Way, dir)
         IN  /\ NoPlace <=> ~Arrives(source, target.class, Way, dir)
             /\ ~NoPlace => Place = Joined(target.class, Stored(target.class, F, dir), dir)
<1> DEFINE F == Full(source.class, Way, dir)
           class == target.class
           hidden == source.class = "legacy" /\ InRootfs /\ LinuxNames # <<>> /\ LinuxNames[1] \in Moved
<1>1. /\ dir \in BOOLEAN /\ class \in Classes /\ F \in Seq(Named) /\ F # <<>>
      /\ InLinux <=> Goes(F, dir) /\ F[1] = Rootfs
      /\ InLinux => LinuxNames = Tail(F)
      /\ ~InLinux => F = trail /\ LinuxNames = trail
      /\ Hides(source, Way) <=> hidden
  BY Standing
<1>2. Rootfs \notin Moved
  BY RootfsIsNotMoved
<1> HIDE DEF F, hidden
<1>3. /\ F = <<F[1]>> \o Tail(F) /\ Len(Tail(F)) = Len(F) - 1 /\ Len(F) \in Nat \ {0} /\ Tail(F) \in Seq(Named)
  BY <1>1, FirstAndLast, EmptySeq, LenProperties
<1>4. Tail(F) # <<>> <=> Len(F) > 1
  <2>1. Tail(F) # <<>> <=> Len(Tail(F)) # 0
    BY <1>3, EmptySeq
  <2> QED BY <1>3, <2>1
<1>5. Len(F) > 1 => Tail(F)[1] = F[2]
  <2>1. Len(F) > 1 => 1 \in 1 .. Len(Tail(F)) /\ 1 + 1 = 2
    BY <1>3
  <2> QED BY <1>1, <2>1, HeadTailProperties
<1>6. InLinux => F = <<Rootfs>> \o LinuxNames
  BY <1>1, <1>3
<1>7. NoPlace <=> hidden \/ (class = "linux" /\ ~InLinux) \/ (class = "legacy" /\ ~InLinux /\ F[1] \in Moved)
  BY <1>1 DEF NoPlace, hidden
<1>8. Arrives(source, class, Way, dir) <=> ~hidden /\ Fits(class, F, dir)
  BY <1>1 DEF Arrives, F
<1>9. Fits(class, F, dir) <=> ~(class = "linux" /\ ~InLinux) /\ ~(class = "legacy" /\ ~InLinux /\ F[1] \in Moved)
  BY <1>1, <1>2 DEF Fits
<1>10. Deep(F) /\ Goes(Tail(F), dir) <=> InLinux /\ Top(LinuxNames, Moved)
  <2>1. CASE InLinux
    BY <1>1, <1>4, <1>5, <2>1 DEF Deep, Goes, Top
  <2>2. CASE ~InLinux
    BY <1>1, <2>2 DEF Deep, Goes
  <2> QED BY <2>1, <2>2
<1>11. ~NoPlace => Place = Joined(class, Stored(class, F, dir), dir)
  <2>1. CASE class = "linux"
    BY <1>1, <1>7, <2>1 DEF Place, Stored
  <2>2. CASE class # "linux" /\ ~InLinux
    BY <1>1, <1>10, <2>2 DEF Place, Stored
  <2>3. CASE class = "legacy" /\ InLinux /\ Top(LinuxNames, Moved)
    BY <1>1, <1>10, <2>3 DEF Place, Stored
  <2>4. CASE class # "linux" /\ InLinux /\ ~(class = "legacy" /\ Top(LinuxNames, Moved))
    BY <1>1, <1>6, <1>10, <2>4 DEF Place, Stored
  <2> QED BY <2>1, <2>2, <2>3, <2>4
<1> QED BY <1>7, <1>8, <1>9, <1>11 DEF F

\* A file is where it belongs once it has been converted.
LEMMA StandsPlaced == CopyInv /\ Stands => Placed
<1> SUFFICES ASSUME CopyInv, Stands, outcome # "none", Known
             PROVE  IF NoPlace THEN outcome = "refused" ELSE outcome = "done" /\ target.data = Place
  BY DEF Placed
<1>1. PICK to \in DiskPaths(target.class) : target = Convert(source, to).path /\ outcome = Convert(source, to).outcome
  BY DEF Stands, Arrived
<1>2. CASE trail = <<>>
  <2>1. NoPlace
    BY <1>2 DEF NoPlace
  <2>2. source.class = "linux" /\ source.skip
    BY <1>2 DEF Stands, InArchive, OnDisk
  <2>3. outcome = "refused"
    BY <1>1, <2>2 DEF Convert, IsSkipped
  <2> QED BY <2>1, <2>3
<1>3. CASE trail # <<>>
  <2> DEFINE F == Full(source.class, Way, dir)
             G == Stored(target.class, F, dir)
             converted == Convert(source, to)
  <2>1. dir \in BOOLEAN /\ source.class \in Classes /\ target.class \in Classes /\ Way \in Seq(Named) /\ Spells(source, Way, dir)
    BY <1>3, Standing
  <2>2. (NoPlace <=> ~Arrives(source, target.class, Way, dir)) /\ (~NoPlace => Place = Joined(target.class, G, dir))
    BY <1>3, PlaceIs
  <2>3. /\ Arrives(source, target.class, Way, dir) => converted.outcome = "done" /\ converted.path.data = Joined(target.class, G, dir)
        /\ ~Arrives(source, target.class, Way, dir) => converted.outcome = "refused"
    BY <2>1, ConvertsNames
  <2> HIDE DEF G, converted
  <2>4. target = converted.path /\ outcome = converted.outcome
    BY <1>1 DEF converted
  <2> QED BY <2>2, <2>3, <2>4
<1> QED BY <1>2, <1>3

\* And from there it comes back.
LEMMA StandsBack == CopyInv /\ Stands => ComesBack
<1> SUFFICES ASSUME CopyInv, Stands, outcome = "done", Known, ~Lost
             PROVE  IsSource(Convert(target, New(source.class)))
  BY DEF ComesBack
<1>1. Placed /\ outcome # "none"
  BY StandsPlaced
<1>2. ~NoPlace /\ target.data = Place
  BY <1>1 DEF Placed
<1>3. trail # <<>>
  BY <1>2 DEF NoPlace
<1> DEFINE F == Full(source.class, Way, dir)
           class == target.class
<1>4. /\ dir \in BOOLEAN /\ source.class \in Classes /\ class \in Classes
      /\ Way \in Seq(Named) /\ Spells(source, Way, dir) /\ (\A i \in 1 .. Len(Way) : \E j \in DOMAIN trail : Way[i] = trail[j])
      /\ F \in Seq(Named) /\ F # <<>>
      /\ InLinux <=> Goes(F, dir) /\ F[1] = Rootfs
      /\ InLinux => LinuxNames = Tail(F)
      /\ ~InLinux => F = trail /\ LinuxNames = trail
  BY <1>1, <1>3, Standing
<1>5. Arrives(source, class, Way, dir) /\ target.data = Joined(class, Stored(class, F, dir), dir)
  BY <1>1, <1>2, <1>3, PlaceIs
<1>6. target \in DiskPaths(class) /\ target.skip = FALSE
  BY DEF CopyInv, Kinds, Stands
<1>7. class = "v2" => \A i \in 1 .. Len(Way) : ~Reserved(Way[i])
  BY <1>4 DEF Lost
<1>8. ASSUME "legacy" \in {source.class, class}, ~dir, NEW n \in Moved
      PROVE  F # <<Rootfs, n>> /\ F # <<n>>
  <2>1. LinuxNames # <<n>>
    BY <1>8 DEF Lost
  <2>2. n # Rootfs
    BY RootfsIsNotMoved
  <2> HIDE DEF F
  <2>3. F # <<Rootfs, n>>
    <3>1. SUFFICES ASSUME F = <<Rootfs, n>> PROVE FALSE
      OBVIOUS
    <3>2. Len(F) = 2 /\ F[1] = Rootfs /\ Tail(F) = <<n>>
      BY <3>1
    <3>3. Goes(F, dir)
      BY <3>2 DEF Goes
    <3>4. InLinux
      BY <1>4, <3>2, <3>3
    <3> QED BY <1>4, <2>1, <3>2, <3>4
  <2>4. F # <<n>>
    <3>1. SUFFICES ASSUME F = <<n>> PROVE FALSE
      OBVIOUS
    <3>2. F[1] = n
      BY <3>1
    <3>3. CASE InLinux
      BY <1>4, <2>2, <3>2, <3>3
    <3>4. CASE ~InLinux
      BY <1>4, <2>1, <3>1, <3>4
    <3> QED BY <3>3, <3>4
  <2> QED BY <2>3, <2>4
<1>9. "legacy" \in {source.class, class} /\ ~dir =>
          \A n \in Moved : Full(source.class, Way, dir) # <<Rootfs, n>> /\ Full(source.class, Way, dir) # <<n>>
  BY <1>8
<1>10. target.data = Joined(class, Stored(class, Full(source.class, Way, dir), dir), dir)
  BY <1>5
<1> DEFINE back == Convert(target, New(source.class))
<1>11. back.outcome = "done" /\ back.path.data = source.data
  BY <1>4, <1>5, <1>6, <1>7, <1>9, <1>10, NamesComeBack, ZenonT(60)
<1> QED BY <1>11 DEF IsSource

\* What a conversion leaves.
LEMMA IntoArrives ==
  ASSUME CopyInv, Stands, NEW from \in PathType, Into(from)
  PROVE  source' = from /\ target'.class = target.class /\ target'.skip = FALSE /\ Arrived' /\ outcome' # "none"
<1>1. target \in DiskPaths(target.class) /\ target.class \in Classes /\ target.skip = FALSE
  BY PathParts DEF CopyInv, Kinds, DiskPaths, Stands
<1>2. source' = from /\ target'.class = target.class /\ outcome' # "none"
  BY IntoType
<1>3. target' = Convert(from, target).path /\ outcome' = Convert(from, target).outcome
  BY DEF Into, Outcome
<1>4. Convert(from, target).path.skip = target.skip
  BY <1>1, ConvertKeepsSkip
<1>5. Arrived'
  BY <1>1, <1>2, <1>3 DEF Arrived
<1> QED BY <1>1, <1>2, <1>3, <1>4, <1>5

\* It holds at the beginning.
LEMMA InitStands == Init => Stands
<1> SUFFICES ASSUME Init PROVE Stands
  OBVIOUS
<1>1. PICK c \in Sources, d \in Targets : source = New(c) /\ target = New(d)
  BY DEF Init
<1>2. source.data = <<>> /\ target.skip = FALSE /\ source.class = c
  BY <1>1 DEF New
<1>3. sizes = <<0>> /\ outcome = "none" /\ trail = <<>> /\ dir = TRUE
  BY DEF Init
<1>4. \A class : Joined(class, <<>>, TRUE) = <<>> /\ <<>> \in Seq(Shown(class))
  BY JoinedLast, EmptySeq
<1>5. OnDisk
  <2>1. Len(sizes) = 1 /\ sizes[1] = 0 /\ Len(trail) = 0 /\ \A k \in 1 .. Len(sizes) : k = 1
    BY <1>3
  <2>2. SubSeq(trail, 1, 1 - 1) = <<>>
    BY SubSeqEmpty
  <2>3. ASSUME NEW k \in 1 .. Len(sizes) PROVE sizes[k] = Len(Joined(source.class, SubSeq(trail, 1, k - 1), TRUE))
    <3>1. k = 1 /\ Len(<<>>) = 0
      BY <2>1
    <3> QED BY <1>4, <2>1, <2>2, <3>1
  <2>4. trail \in Seq(Shown(source.class)) /\ source.data = Joined(source.class, trail, dir)
    BY <1>2, <1>3, <1>4
  <2>5. Len(sizes) - 1 <= Len(trail) /\ dir = TRUE
    BY <1>3, <2>1
  <2> QED BY <1>3, <2>3, <2>4, <2>5 DEF OnDisk
<1> QED BY <1>2, <1>3, <1>5 DEF Stands, InArchive

\* rootfs stands for itself.
LEMMA RootEntryStands ==
  ASSUME CopyInv, Stands, RootEntry
  PROVE  Stands'
<1>1. New("linux") \in PathType /\ New("linux").class = "linux" /\ New("linux").data = <<>> /\ New("linux").skip = FALSE
  BY NewType DEF DiskPaths, Classes, New
<1>2. Into(New("linux")) /\ trail' = <<Rootfs>> /\ dir' = dir /\ source.class = "linux" /\ outcome = "none"
  BY DEF RootEntry
<1>3. source' = New("linux") /\ target'.skip = FALSE /\ Arrived' /\ outcome' # "none"
  BY <1>1, <1>2, IntoArrives
<1>4. dir' = TRUE
  BY <1>2 DEF Stands, InArchive
<1>5. trail' # <<>> /\ trail'[1] = Rootfs /\ Tail(trail') = <<>> /\ <<>> \in Seq(Kept)
  BY <1>2, EmptySeq
<1>6. Joined("linux", <<>>, TRUE) = <<>>
  BY JoinedLast
<1>7. InArchive'
  BY <1>1, <1>3, <1>4, <1>5, <1>6 DEF InArchive, Goes
<1> QED BY <1>1, <1>3, <1>7 DEF Stands

\* The next entry of the archive stands for the names that are meant.
LEMMA EntryStands ==
  ASSUME CopyInv, Stands, Entry
  PROVE  Stands'
<1>1. PICK k \in 1 .. MaxDepth, closed \in BOOLEAN : \E pieces \in [1 .. k -> Pieces] :
         /\ Into(LinuxPath(Joined("linux", pieces, closed), Prefix(rootPath)))
         /\ LET below == IF rootPath = NoRoot THEN Meant(pieces, closed)
                         ELSE IF pieces[1] = rootPath /\ (k > 1 \/ closed) THEN Meant(Tail(pieces), closed) ELSE <<>>
            IN  trail' = IF below = <<>> THEN <<>> ELSE <<Rootfs>> \o below
         /\ dir' = (closed \/ pieces[k] = Empty)
  BY DEF Entry, Prefix
<1>2. PICK pieces \in [1 .. k -> Pieces] :
         /\ Into(LinuxPath(Joined("linux", pieces, closed), Prefix(rootPath)))
         /\ LET below == IF rootPath = NoRoot THEN Meant(pieces, closed)
                         ELSE IF pieces[1] = rootPath /\ (k > 1 \/ closed) THEN Meant(Tail(pieces), closed) ELSE <<>>
            IN  trail' = IF below = <<>> THEN <<>> ELSE <<Rootfs>> \o below
         /\ dir' = (closed \/ pieces[k] = Empty)
  BY <1>1
<1>3. k \in Nat /\ k >= 1 /\ pieces \in Seq(Pieces) /\ Len(pieces) = k /\ pieces # <<>>
  <2>1. k \in Nat /\ k >= 1
    BY NamesAssumption
  <2>2. \A S : \A s \in [1 .. k -> S] : s \in Seq(S) /\ Len(s) = k
    BY <2>1
  <2>3. pieces \in Seq(Pieces) /\ Len(pieces) = k
    BY <2>2
  <2> QED BY <2>1, <2>3
<1> DEFINE from == LinuxPath(Joined("linux", pieces, closed), Prefix(rootPath))
           below == Below(rootPath, pieces, closed)
<1>4. Into(from) /\ trail' = (IF below = <<>> THEN <<>> ELSE <<Rootfs>> \o below) /\ dir' = IsDir(pieces, closed)
  BY <1>2, <1>3 DEF Below, IsDir
<1>5. rootPath \in Roots \cup {NoRoot}
  BY DEF CopyInv, Kinds
<1>6. /\ below \in Seq(Kept)
      /\ IsDir(pieces, closed) => from.data = Joined("linux", below, TRUE)
      /\ ~IsDir(pieces, closed) => from.data = Joined("linux", below, FALSE)
      /\ from.skip <=> below = <<>>
  BY <1>3, <1>5, EntryPath
<1>7. from \in PathType /\ from.class = "linux"
  <2>1. Joined("linux", pieces, closed) \in Text
    BY <1>3, PiecesAre, SeqMonotonic, JoinedLast
  <2>2. Prefix(rootPath) \in Text
    <3>1. rootPath # NoRoot => rootPath \in Names
      BY <1>5, NamesAssumption
    <3> QED BY <3>1, NamesAssumption, Words DEF Prefix
  <2> QED BY <2>1, <2>2, LinuxPathType
<1> HIDE DEF from, below
<1>8. source' = from /\ target'.skip = FALSE /\ Arrived' /\ outcome' # "none"
  BY <1>4, <1>7, IntoArrives
<1>9. IsDir(pieces, closed) \in BOOLEAN
  BY DEF IsDir
<1>10. dir' \in BOOLEAN /\ (dir' => from.data = Joined("linux", below, TRUE)) /\ (~dir' => from.data = Joined("linux", below, FALSE))
  BY <1>4, <1>6, <1>9
<1>11. from.data = Joined("linux", below, dir')
  <2>1. CASE dir'
    <3>1. dir' = TRUE
      BY <1>10, <2>1
    <3> QED BY <1>10, <3>1
  <2>2. CASE ~dir'
    <3>1. dir' = FALSE
      BY <1>10, <2>2
    <3> QED BY <1>10, <3>1
  <2> QED BY <2>1, <2>2
<1>12. below # <<>> => trail' # <<>> /\ trail'[1] = Rootfs /\ Tail(trail') = below /\ Len(trail') > 1
  <2>1. SUFFICES ASSUME below # <<>> PROVE trail' # <<>> /\ trail'[1] = Rootfs /\ Tail(trail') = below /\ Len(trail') > 1
    OBVIOUS
  <2>2. trail' = <<Rootfs>> \o below
    BY <1>4, <2>1
  <2> DEFINE t == <<Rootfs>> \o below
  <2>3. Kept \subseteq Named /\ Rootfs \in Named /\ below \in Seq(Named)
    BY <1>6, PiecesAre, NamedNames, SeqMonotonic
  <2>4. t # <<>> /\ t[1] = Rootfs /\ Tail(t) = below /\ Len(t) > 1
    <3>1. Len(below) \in Nat \ {0}
      BY <2>1, <2>3, EmptySeq, LenProperties
    <3>2. <<Rootfs>> \in Seq(Named) /\ Len(<<Rootfs>>) = 1 /\ <<Rootfs>>[1] = Rootfs /\ 1 \in 1 .. Len(<<Rootfs>>)
      BY <2>3
    <3>3. Len(t) = 1 + Len(below) /\ t[1] = Rootfs
      BY <2>3, <3>2, ConcatProperties
    <3>4. Tail(t) = below
      BY <2>3
    <3> HIDE DEF t
    <3>5. Len(t) > 1
      BY <3>1, <3>3
    <3>6. t # <<>>
      BY <3>5
    <3> QED BY <3>3, <3>4, <3>5, <3>6
  <2> HIDE DEF t
  <2>5. trail' = t
    BY <2>2 DEF t
  <2> QED BY <2>4, <2>5
<1>13. InArchive'
  <2>1. CASE below = <<>>
    BY <1>4, <1>6, <1>8, <2>1 DEF InArchive
  <2>2. CASE below # <<>>
    BY <1>6, <1>8, <1>11, <1>12, <2>2 DEF InArchive, Goes
  <2> QED BY <2>1, <2>2
<1> QED BY <1>7, <1>8, <1>13 DEF Stands

\* What is shown on a disk are names.
LEMMA ShownNames == \A class : Shown(class) \subseteq NameRec
BY NamesAssumption DEF Shown, NameRec

\* What the open directory is called, in the text of a path that goes on in it.
LEMMA OpenText ==
  ASSUME NEW class, NEW names \in Seq(NameRec), NEW closed \in BOOLEAN, NEW m \in 0 .. Len(names), ~closed => m < Len(names)
  PROVE  LET head == SubSeq(names, 1, m)
             text == Joined(class, names, closed)
         IN  /\ head \in Seq(NameRec) /\ Len(head) = m
             /\ SubSeq(text, 1, Len(Joined(class, head, TRUE))) = Joined(class, head, TRUE)
<1> DEFINE head == SubSeq(names, 1, m)
           rest == SubSeq(names, m + 1, Len(names))
           a == Joined(class, head, TRUE)
           b == Joined(class, rest, closed)
           c == a \o b
<1>1. Len(names) \in Nat /\ m \in Nat /\ m <= Len(names)
  BY LenProperties
<1>2. head \in Seq(NameRec) /\ Len(head) = m /\ rest \in Seq(NameRec) /\ Len(rest) = Len(names) - m
  BY <1>1
<1>3. names = head \o rest
  <2>1. (\A i \in 1 .. m : head[i] = names[i]) /\ (\A i \in 1 .. Len(names) - m : rest[i] = names[m + i])
    BY <1>1, SMTT(60)
  <2> HIDE DEF head, rest
  <2>2. head \o rest \in Seq(NameRec) /\ Len(head \o rest) = Len(names)
    BY <1>1, <1>2, SMTT(60)
  <2>3. ASSUME NEW i \in 1 .. Len(names) PROVE (head \o rest)[i] = names[i]
    <3>1. CASE i <= m
      BY <1>1, <1>2, <2>1, <3>1
    <3>2. CASE i > m
      <4>1. i - m \in 1 .. Len(names) - m /\ m + (i - m) = i
        BY <1>1, <3>2
      <4>2. (head \o rest)[i] = rest[i - m]
        BY <1>1, <1>2, <3>2
      <4> QED BY <2>1, <4>1, <4>2
    <3>3. i \in Nat /\ m \in Nat
      BY <1>1
    <3>4. i <= m \/ i > m
      BY <3>3
    <3> QED BY <3>1, <3>2, <3>4, Zenon
  <2>4. \A S : \A s, t \in Seq(S) : Len(s) = Len(t) /\ (\A i \in 1 .. Len(s) : s[i] = t[i]) => s = t
    OBVIOUS
  <2> QED BY <2>2, <2>3, <2>4
<1>4. rest # <<>> \/ closed
  <2>1. ~closed => Len(rest) # 0
    BY <1>1, <1>2
  <2> QED BY <1>2, <2>1, EmptySeq
<1> HIDE DEF head, rest
<1>5. Joined(class, head \o rest, closed) = c
  BY <1>2, <1>4, JoinedConcat
<1>6. a \in Text /\ b \in Text
  BY <1>2, JoinedLast
<1> HIDE DEF a, b
<1>7. SubSeq(c, 1, Len(a)) = a
  BY <1>6 DEF Text
<1> HIDE DEF c
<1>8. Joined(class, names, closed) = c
  BY <1>3, <1>5
<1>9. SubSeq(Joined(class, names, closed), 1, Len(a)) = a
  BY <1>7, <1>8
<1> QED BY <1>2, <1>9 DEF a, head

\* The names of the open directories stay when the name behind them is another one.
LEMMA SameHead ==
  ASSUME NEW X, NEW names \in Seq(X), NEW n \in X, NEW m \in 0 .. Len(names)
  PROVE  LET new == Append(SubSeq(names, 1, m), n)
         IN  /\ new \in Seq(X) /\ Len(new) = m + 1 /\ new # <<>>
             /\ \A j \in 0 .. m : SubSeq(new, 1, j) = SubSeq(names, 1, j)
             /\ SubSeq(new, 1, m + 1) = new
<1>1. Len(names) \in Nat /\ m \in Nat /\ m <= Len(names)
  BY LenProperties
<1> DEFINE head == SubSeq(names, 1, m)
           new == Append(head, n)
<1>2. head \in Seq(X) /\ Len(head) = m /\ \A i \in 1 .. m : head[i] = names[i]
  BY <1>1
<1>3. new \in Seq(X) /\ Len(new) = m + 1 /\ \A i \in 1 .. m : new[i] = names[i]
  <2> HIDE DEF head
  <2>1. new \in Seq(X) /\ Len(new) = m + 1 /\ \A i \in 1 .. m : new[i] = head[i]
    BY <1>1, <1>2
  <2> QED BY <1>2, <2>1
<1> HIDE DEF head, new
<1>4. ASSUME NEW j \in 0 .. m PROVE SubSeq(new, 1, j) = SubSeq(names, 1, j)
  <2>1. j \in Nat /\ j <= m
    OBVIOUS
  <2>2. SubSeq(new, 1, j) = [i \in 1 .. j |-> new[i]] /\ SubSeq(names, 1, j) = [i \in 1 .. j |-> names[i]]
    BY <1>1, <1>3, <2>1
  <2>3. \A i \in 1 .. j : new[i] = names[i]
    BY <1>1, <1>3, <2>1
  <2> QED BY <2>2, <2>3
<1>5. SubSeq(new, 1, m + 1) = new
  BY <1>1, <1>3
<1>6. new # <<>>
  BY <1>1, <1>3
<1> QED BY <1>3, <1>4, <1>5, <1>6 DEF new, head

\* A visited file stands for the names of the open directory and its own.
LEMMA VisitStands ==
  ASSUME CopyInv, Stands, NEW n \in Shown(source.class), NEW isDir \in BOOLEAN, Visit(n, isDir)
  PROVE  Stands'
<1> DEFINE class == source.class
           k == Len(sizes)
           m == k - 1
           head == SubSeq(trail, 1, m)
           here == Joined(class, head, TRUE)
           end == On(class, n) \o End(class, isDir)
           data == here \o end
           from == [source EXCEPT !.data = data]
           new == Append(head, n)
<1>1. /\ source \in PathType /\ class # "linux" /\ class \in Classes
      /\ sizes \in Seq(Nat) /\ sizes # <<>> /\ k \in Nat /\ k >= 1 /\ Last(sizes) = sizes[k] /\ k \in 1 .. Len(sizes)
  <2>1. source \in PathType /\ class # "linux" /\ sizes \in Seq(Nat) /\ sizes # <<>>
    BY DEF CopyInv, Kinds, OpenDirectories, Visit
  <2>2. class \in Classes
    BY <2>1, PathParts
  <2>3. k \in Nat \ {0}
    BY <2>1, EmptySeq
  <2> QED BY <2>1, <2>2, <2>3 DEF Last
<1>2. /\ trail \in Seq(Shown(class)) /\ source.data = Joined(class, trail, dir) /\ dir \in BOOLEAN
      /\ m <= Len(trail) /\ (~dir => m < Len(trail)) /\ Len(trail) \in Nat
      /\ \A i \in 1 .. k : sizes[i] = Len(Joined(class, SubSeq(trail, 1, i - 1), TRUE))
  <2>1. OnDisk /\ dir \in BOOLEAN
    BY <1>1 DEF CopyInv, Kinds, Stands
  <2> QED BY <2>1, LenProperties DEF OnDisk
<1>3. m \in 0 .. Len(trail)
  BY <1>1, <1>2
<1>4. trail \in Seq(NameRec) /\ n \in NameRec /\ n \in Shown(class)
  BY <1>2, ShownNames, SeqMonotonic
<1>5. head \in Seq(NameRec) /\ SubSeq(Joined(class, trail, dir), 1, Len(here)) = here
  BY <1>2, <1>3, <1>4, OpenText, ZenonT(60)
<1>6. Last(sizes) = Len(here) /\ Here(source.data) = here
  BY <1>1, <1>2, <1>5 DEF Here
<1>7. here \in Text /\ On(class, n) \in Text /\ End(class, isDir) \in Text
  BY <1>4, <1>5, JoinedLast, OnIsText, EndType
<1>8. End(class, isDir) = IF isDir THEN <<Back>> ELSE <<>>
  BY <1>1 DEF End, Sep
<1>9. here \o On(class, n) \o End(class, isDir) = data /\ end \in Text /\ data \in Text
  <2>1. (here \o On(class, n)) \o End(class, isDir) = here \o (On(class, n) \o End(class, isDir))
    BY <1>7, Joining
  <2>2. end \in Text
    BY <1>7, Texts
  <2> HIDE DEF here
  <2>3. data \in Text
    BY <1>7, <2>2, Texts
  <2> QED BY <2>1, <2>2, <2>3
<1>10. Joined(class, new, isDir) = data
  BY <1>4, <1>5, JoinedLast
<1>11. /\ Into(from) /\ sizes' = (IF isDir THEN Append(sizes, Len(data)) ELSE sizes)
       /\ trail' = new /\ dir' = isDir
  <2>1. Here(source.data) \o On(source.class, n) \o (IF isDir THEN <<Back>> ELSE <<>>) = data
    BY <1>6, <1>8, <1>9
  <2> HIDE DEF data, end, here
  <2> QED BY <2>1, Zenon DEF Visit
<1> HIDE DEF data
<1>12. from \in PathType /\ from.class = class /\ from.data = data
  <2>1. HasParts(from, class, data, source.skip, source.m1, source.m2)
    BY <1>1, <1>9, PathParts, PathChanges, Zenon DEF Matchers
  <2> QED BY <1>1, <2>1, PathParts, Zenon DEF HasParts, PathType
<1> HIDE DEF from
<1>13. source' = from /\ target'.skip = FALSE /\ Arrived' /\ outcome' # "none"
  BY <1>11, <1>12, IntoArrives
<1>14. /\ new \in Seq(Shown(class)) /\ Len(new) = m + 1 /\ new # <<>>
       /\ (\A j \in 0 .. m : SubSeq(new, 1, j) = SubSeq(trail, 1, j)) /\ SubSeq(new, 1, m + 1) = new
  <2> DEFINE X == Shown(class)
  <2>1. trail \in Seq(X) /\ n \in X
    BY <1>2, <1>4
  <2> HIDE DEF m, X
  <2>2. ASSUME NEW Y, trail \in Seq(Y), n \in Y
        PROVE  /\ new \in Seq(Y) /\ Len(new) = m + 1 /\ new # <<>>
               /\ (\A j \in 0 .. m : SubSeq(new, 1, j) = SubSeq(trail, 1, j)) /\ SubSeq(new, 1, m + 1) = new
    BY <1>3, <2>2, SameHead, ZenonT(60)
  <2> QED BY <2>1, <2>2 DEF X
<1> HIDE DEF new
<1>15. ASSUME NEW i \in 1 .. k PROVE sizes[i] = Len(Joined(class, SubSeq(new, 1, i - 1), TRUE))
  <2>1. i - 1 \in 0 .. m
    BY <1>1
  <2> QED BY <1>2, <1>14, <2>1
<1>16. /\ Len(sizes') - 1 <= Len(new) /\ (~isDir => Len(sizes') - 1 < Len(new))
       /\ \A i \in 1 .. Len(sizes') : sizes'[i] = Len(Joined(class, SubSeq(new, 1, i - 1), TRUE))
  <2>1. CASE ~isDir
    <3>1. sizes' = sizes
      BY <1>11, <2>1
    <3>2. Len(sizes') - 1 = m /\ m <= Len(new) /\ m < Len(new)
      BY <1>1, <1>14, <3>1
    <3> HIDE DEF m
    <3> QED BY <1>15, <3>1, <3>2
  <2>2. CASE isDir
    <3>1. sizes' = Append(sizes, Len(data)) /\ Len(data) \in Nat
      <4>1. Len(data) \in Nat
        BY <1>9, LenIsNat
      <4> QED BY <1>11, <2>2, <4>1
    <3>2. Len(sizes') = k + 1 /\ sizes'[k + 1] = Len(data) /\ \A i \in 1 .. k : sizes'[i] = sizes[i]
      BY <1>1, <3>1, AppendProperties
    <3>3. isDir = TRUE
      BY <2>2
    <3>4. Joined(class, SubSeq(new, 1, m + 1), TRUE) = data
      BY <1>10, <1>14, <3>3
    <3>5. (k + 1) - 1 = m + 1
      BY <1>1
    <3>6. ASSUME NEW i \in 1 .. k + 1 PROVE sizes'[i] = Len(Joined(class, SubSeq(new, 1, i - 1), TRUE))
      <4>1. CASE i = k + 1
        BY <3>2, <3>4, <3>5, <4>1
      <4>2. CASE i # k + 1
        <5>1. i \in 1 .. k
          BY <1>1, <4>2
        <5> QED BY <1>15, <3>2, <5>1
      <4> QED BY <4>1, <4>2
    <3>7. Len(sizes') - 1 <= Len(new)
      BY <1>1, <1>14, <3>2
    <3> QED BY <2>2, <3>2, <3>6, <3>7
  <2> QED BY <2>1, <2>2
<1>17. source'.class = class /\ source'.data = data
  BY <1>12, <1>13
<1>18. OnDisk'
  BY <1>10, <1>11, <1>13, <1>14, <1>16, <1>17 DEF OnDisk
<1> QED BY <1>1, <1>13, <1>17, <1>18 DEF Stands

\* Leaving a directory leaves a beginning of the open ones.
LEMMA LeaveStands == CopyInv /\ Stands /\ Leave => Stands'
<1> SUFFICES ASSUME CopyInv, Stands, Leave PROVE Stands'
  OBVIOUS
<1>1. /\ source.class # "linux" /\ sizes' = Front(sizes) /\ Len(sizes) > 1
      /\ source' = source /\ target' = target /\ outcome' = outcome /\ trail' = trail /\ dir' = dir
  BY DEF Leave
<1>2. sizes \in Seq(Nat) /\ OnDisk /\ Len(sizes) \in Nat /\ Len(trail) \in Nat
  BY <1>1, LenProperties DEF CopyInv, Kinds, Stands, OnDisk, OpenDirectories
<1>3. Len(sizes') = Len(sizes) - 1 /\ \A i \in 1 .. Len(sizes') : i \in 1 .. Len(sizes) /\ sizes'[i] = sizes[i]
  BY <1>1, <1>2 DEF Front
<1>4. Len(sizes') - 1 <= Len(trail) /\ (~dir => Len(sizes') - 1 < Len(trail))
  BY <1>2, <1>3 DEF OnDisk
<1>5. OnDisk'
  BY <1>1, <1>2, <1>3, <1>4 DEF OnDisk
<1> QED BY <1>1, <1>5 DEF Stands, Arrived

\* Every step keeps what the names have to do with the paths.
LEMMA StandsStep == CopyInv /\ Stands /\ [Next]_vars => Stands'
<1> SUFFICES ASSUME CopyInv, Stands, [Next]_vars PROVE Stands'
  OBVIOUS
<1>1. ASSUME source' = source, target' = target, sizes' = sizes, outcome' = outcome, trail' = trail, dir' = dir
      PROVE  Stands'
  BY <1>1 DEF Stands, Arrived, InArchive, OnDisk
<1>2. CASE Begin
  BY <1>1, <1>2 DEF Begin
<1>3. CASE Leave
  BY <1>3, LeaveStands
<1>4. CASE RootEntry
  BY <1>4, RootEntryStands
<1>5. CASE Entry
  BY <1>5, EntryStands
<1>6. CASE Finish
  BY <1>1, <1>6 DEF Finish
<1>7. CASE UNCHANGED vars
  BY <1>1, <1>7 DEF vars
<1>8. ASSUME NEW n \in Names \cup (IF source.class \in {"v1", "legacy"} THEN Foreign ELSE {}), NEW isDir \in BOOLEAN,
             source.class = "v2" => ~Reserved(n), Visit(n, isDir)
      PROVE  Stands'
  <2>1. source \in PathType /\ source.class \in Classes /\ source.class # "linux"
    BY <1>8, PathParts DEF CopyInv, Kinds, Visit
  <2>2. n \in Shown(source.class)
    BY <1>8, <2>1 DEF Shown, Classes
  <2> QED BY <1>8, <2>2, VisitStands
<1> QED BY <1>2, <1>3, <1>4, <1>5, <1>6, <1>7, <1>8 DEF Next, Finished

\* Whatever was converted into the target before, completely or in part, and however the
\* walk or the archive came to a file, it goes where its names say, for all names WSL may
\* have made, of any length and at any depth, and exactly the files without a place in the
\* target are refused.
THEOREM FilesArePlaced == Spec => []Placed
<1>1. Init => CopyInv /\ Stands
  BY InitInv, InitStands
<1>2. (CopyInv /\ Stands) /\ [Next]_vars => (CopyInv /\ Stands)'
  BY StepInv, StandsStep
<1>3. CopyInv /\ Stands => Placed
  BY StandsPlaced
<1> QED BY <1>1, <1>2, <1>3, PTL DEF Spec

\* Whatever arrives comes back under its own name, for all names WSL may have made: what
\* convert writes of a path, in any of the versions, convert reads as that path again.
THEOREM FilesComeBack == Spec => []ComesBack
<1>1. Init => CopyInv /\ Stands
  BY InitInv, InitStands
<1>2. (CopyInv /\ Stands) /\ [Next]_vars => (CopyInv /\ Stands)'
  BY StepInv, StandsStep
<1>3. CopyInv /\ Stands => ComesBack
  BY StandsBack
<1> QED BY <1>1, <1>2, <1>3, PTL DEF Spec

-----------------------------------------------------------------------------
(* What TreeCopy takes for granted *)

\* Nodes are told apart by their names, and the hidden ones from the others.
LEMMA NodeParts ==
  \A a, b : /\ Node(a, b).names = a /\ Node(a, b).hidden = b
            /\ \A c, d : Node(a, b) = Node(c, d) <=> a = c /\ b = d
<1>1. \A a, b : Node(a, b).names = a /\ Node(a, b).hidden = b
  BY DEF Node
<1> QED BY <1>1

\* What a folder on the way to a node is.
LEMMA OnWayParts ==
  \A n, k : OnWay(n, k).names = SubSeq(n.names, 1, k) /\ OnWay(n, k).hidden = (n.hidden /\ k > 1)
<1>1. \A a, b : Node(a, b).names = a /\ Node(a, b).hidden = b
  BY NodeParts
<1> QED BY <1>1, Zenon DEF OnWay

\* What the names of a node are.
LEMMA NodeIs ==
  ASSUME NEW n \in Nodes
  PROVE  /\ n.names \in Seq(Names \ Foreign) /\ n.names # <<>> /\ Len(n.names) \in Nat \ {0}
         /\ n.hidden \in BOOLEAN /\ n = Node(n.names, n.hidden)
<1>1. n \in [names : Seq(Names \ Foreign), hidden : BOOLEAN] /\ n.names # <<>>
  BY LayoutAssumption, Zenon
<1>2. n.names \in Seq(Names \ Foreign) /\ n.hidden \in BOOLEAN /\ n = [names |-> n.names, hidden |-> n.hidden]
  BY <1>1
<1>3. Len(n.names) \in Nat \ {0}
  BY <1>1, <1>2, EmptySeq
<1> QED BY <1>1, <1>2, <1>3 DEF Node

\* The beginnings of a sequence.
LEMMA Beginnings ==
  ASSUME NEW X, NEW s \in Seq(X), NEW k \in 0 .. Len(s)
  PROVE  /\ SubSeq(s, 1, k) \in Seq(X) /\ Len(SubSeq(s, 1, k)) = k
         /\ \A i \in 1 .. k : SubSeq(s, 1, k)[i] = s[i]
         /\ \A j \in 0 .. k : SubSeq(SubSeq(s, 1, k), 1, j) = SubSeq(s, 1, j)
<1>1. Len(s) \in Nat /\ k \in Nat /\ k <= Len(s) /\ \A i \in 1 .. Len(s) : s[i] \in X
  OBVIOUS
<1>2. ASSUME NEW j \in 0 .. Len(s)
      PROVE  SubSeq(s, 1, j) \in Seq(X) /\ Len(SubSeq(s, 1, j)) = j /\ \A i \in 1 .. j : SubSeq(s, 1, j)[i] = s[i]
  BY <1>1
<1>3. ASSUME NEW j \in 0 .. k PROVE SubSeq(SubSeq(s, 1, k), 1, j) = SubSeq(s, 1, j)
  <2> DEFINE a == SubSeq(s, 1, k)
             b == SubSeq(a, 1, j)
             c == SubSeq(s, 1, j)
  <2>1. a \in Seq(X) /\ Len(a) = k /\ \A i \in 1 .. k : a[i] = s[i]
    BY <1>1, <1>2
  <2>2. c \in Seq(X) /\ Len(c) = j /\ \A i \in 1 .. j : c[i] = s[i]
    BY <1>1, <1>2
  <2> HIDE DEF a, c
  <2>3. b \in Seq(X) /\ Len(b) = j /\ \A i \in 1 .. j : b[i] = a[i]
    BY <1>1, <2>1
  <2> HIDE DEF b
  <2>4. \A i \in 1 .. j : i \in 1 .. k
    BY <1>1
  <2>5. b = c
    BY <1>1, <2>1, <2>2, <2>3, <2>4
  <2> QED BY <2>5 DEF a, b, c
<1> QED BY <1>1, <1>2, <1>3

\* The folders above a node are the beginnings of its way, each above the next.
LEMMA OnWayIs ==
  ASSUME NEW n \in Nodes, NEW k \in 1 .. Len(n.names) - 1
  PROVE  LET d == OnWay(n, k)
         IN  /\ d \in Folders /\ d \in Nodes /\ d.names = SubSeq(n.names, 1, k) /\ d.hidden = (n.hidden /\ k > 1)
             /\ Len(d.names) = k
             /\ \A j \in 1 .. k - 1 : OnWay(d, j) = OnWay(n, j)
<1> DEFINE d == OnWay(n, k)
<1>1. d \in Folders /\ d \in Nodes
  BY LayoutAssumption, Zenon DEF Nodes
<1>2. d.names = SubSeq(n.names, 1, k) /\ d.hidden = (n.hidden /\ k > 1)
  BY OnWayParts, Zenon
<1>3. n.names \in Seq(Names \ Foreign) /\ Len(n.names) \in Nat /\ n.hidden \in BOOLEAN
  BY NodeIs
<1>4. k \in 0 .. Len(n.names) /\ k \in Nat
  BY <1>3
<1>5. Len(SubSeq(n.names, 1, k)) = k /\ \A j \in 0 .. k : SubSeq(SubSeq(n.names, 1, k), 1, j) = SubSeq(n.names, 1, j)
  BY <1>3, <1>4, Beginnings
<1>6. ASSUME NEW j \in 1 .. k - 1 PROVE OnWay(d, j) = OnWay(n, j)
  <2>1. j \in 0 .. k /\ (j > 1 => k > 1)
    BY <1>4
  <2>2. SubSeq(d.names, 1, j) = SubSeq(n.names, 1, j)
    BY <1>2, <1>5, <2>1
  <2>3. (d.hidden /\ j > 1) = (n.hidden /\ j > 1)
    BY <1>2, <1>3, <2>1
  <2> HIDE DEF d
  <2> QED BY <2>2, <2>3, Zenon DEF OnWay
<1> QED BY <1>1, <1>2, <1>5, <1>6

\* The ancestors of a node, and those of each of them.
LEMMA AncestorsAre ==
  ASSUME NEW n \in Nodes
  PROVE  /\ Ancestors[n] = {OnWay(n, k) : k \in 1 .. Len(n.names) - 1}
         /\ \A k \in 1 .. Len(n.names) - 1 : Ancestors[OnWay(n, k)] = {OnWay(n, j) : j \in 1 .. k - 1}
         /\ \A j, k \in 1 .. Len(n.names) - 1 : OnWay(n, j) = OnWay(n, k) <=> j = k
<1>1. \A m \in Nodes : Ancestors[m] = {OnWay(m, k) : k \in 1 .. Len(m.names) - 1}
  BY DEF Ancestors
<1>2. ASSUME NEW k \in 1 .. Len(n.names) - 1 PROVE Ancestors[OnWay(n, k)] = {OnWay(n, j) : j \in 1 .. k - 1}
  <2> DEFINE d == OnWay(n, k)
  <2>1. d \in Nodes /\ Len(d.names) = k /\ \A j \in 1 .. k - 1 : OnWay(d, j) = OnWay(n, j)
    BY OnWayIs
  <2> HIDE DEF d
  <2>2. Ancestors[d] = {OnWay(d, j) : j \in 1 .. k - 1}
    BY <1>1, <2>1
  <2>3. {OnWay(d, j) : j \in 1 .. k - 1} = {OnWay(n, j) : j \in 1 .. k - 1}
    BY <2>1, Zenon
  <2> QED BY <2>2, <2>3 DEF d
<1>3. \A k \in 1 .. Len(n.names) - 1 : Len(OnWay(n, k).names) = k
  BY OnWayIs
<1>4. \A j, k \in 1 .. Len(n.names) - 1 : OnWay(n, j) = OnWay(n, k) <=> j = k
  BY <1>3, Zenon
<1> QED BY <1>1, <1>2, <1>4

\* The mount points and what they hide: rootfs is the only folder above them.
LEMMA MountsAre ==
  /\ TheRoot \in Nodes /\ Len(TheRoot.names) = 1 /\ TheRoot.names[1] = Rootfs /\ ~TheRoot.hidden
  /\ TheRelocated \cup TheShadow \subseteq Folders /\ TheRelocated \cup TheShadow \subseteq Nodes
  /\ \A r \in TheRelocated \cup TheShadow : Len(r.names) = 2 /\ Ancestors[r] = {TheRoot}
<1>1. TheRoot \in Nodes /\ TheRoot.names = <<Rootfs>> /\ ~TheRoot.hidden
  BY LayoutAssumption, NodeParts, Zenon DEF TheRoot, Nodes
<1>2. TheRelocated \cup TheShadow \subseteq Folders /\ TheRelocated \cup TheShadow \subseteq Nodes
  BY Zenon DEF TheRelocated, TheShadow, Nodes
<1>3. ASSUME NEW r \in TheRelocated \cup TheShadow PROVE Len(r.names) = 2 /\ Ancestors[r] = {TheRoot}
  <2>1. PICK m \in Moved : r.names = <<Rootfs, m>>
    BY Zenon DEF TheRelocated, TheShadow, Mounts
  <2>2. r \in Nodes
    BY <1>2, Zenon
  <2>3. Len(r.names) = 2 /\ Len(r.names) - 1 = 1 /\ SubSeq(r.names, 1, 1) = <<Rootfs>>
    <3>1. Len(r.names) = 2 /\ r.names[1] = Rootfs
      BY <2>1
    <3>2. r.names \in Seq(Names \ Foreign) /\ 1 \in 0 .. Len(r.names) /\ 1 \in 1 .. 1
      BY <2>2, <3>1, NodeIs
    <3> DEFINE s == SubSeq(r.names, 1, 1)
    <3>3. s \in Seq(Names \ Foreign) /\ Len(s) = 1 /\ s[1] = r.names[1]
      BY <3>2, Beginnings
    <3> HIDE DEF s
    <3>4. \A X : \A t \in Seq(X) : Len(t) = 1 => t = <<t[1]>>
      OBVIOUS
    <3>5. s = <<Rootfs>>
      BY <3>1, <3>3, <3>4, Zenon
    <3>6. Len(r.names) - 1 = 1
      BY <3>1
    <3> QED BY <3>1, <3>5, <3>6, Zenon DEF s
  <2>4. Ancestors[r] = {OnWay(r, k) : k \in 1 .. 1}
    BY <2>2, <2>3, AncestorsAre, Zenon
  <2>5. OnWay(r, 1) = TheRoot
    <3>1. (r.hidden /\ 1 > 1) = FALSE
      OBVIOUS
    <3> QED BY <2>3, <3>1, Zenon DEF OnWay, TheRoot
  <2>6. 1 .. 1 = {1}
    OBVIOUS
  <2>7. Ancestors[r] = {OnWay(r, 1)}
    BY <2>4, <2>6, Zenon
  <2> QED BY <2>3, <2>5, <2>7
<1> QED BY <1>1, <1>2, <1>3

\* The names of files are a tree as TreeCopy assumes it, so what is proved there holds here.
THEOREM NamesAreForest == Tree!SkeletonAssumption /\ Tree!ForestAssumption
<1> DEFINE Nothing == Node(<<>>, TRUE)
           Old == Node(<<NoRoot>>, TRUE)
<1>1. \A n \in Nodes : n.names # <<>> /\ n.names # <<NoRoot>>
  <2>1. SUFFICES ASSUME NEW n \in Nodes PROVE n.names # <<>> /\ n.names # <<NoRoot>>
    OBVIOUS
  <2>2. n.names \in Seq(Names) /\ n.names # <<>> /\ Len(n.names) \in Nat \ {0}
    <3>1. n.names \in Seq(Names \ Foreign) /\ n.names # <<>> /\ Len(n.names) \in Nat \ {0}
      BY NodeIs
    <3> QED BY <3>1, SeqMonotonic
  <2>3. n.names[1] \in Names
    BY <2>2
  <2>4. n.names[1] # NoRoot
    BY <2>3, NamesAssumption, Zenon
  <2> QED BY <2>2, <2>4
<1>2. /\ Nothing.names = <<>> /\ Old.names = <<NoRoot>> /\ TheBase.names = <<>>
      /\ Nothing.hidden = TRUE /\ Old.hidden = TRUE /\ TheBase.hidden = FALSE
  BY NodeParts, Zenon DEF TheBase
<1> HIDE DEF Nothing, Old
<1>3. TheBase \notin Nodes /\ {Nothing, Old} \cap (Nodes \cup {TheBase}) = {} /\ Old # Nothing
  <2>1. TheBase \notin Nodes /\ Nothing \notin Nodes /\ Old \notin Nodes
    BY <1>1, <1>2, Zenon
  <2>2. Nothing # TheBase /\ Old # TheBase
    BY <1>2, Zenon
  <2>3. Old # Nothing
    <3>1. <<NoRoot>> # <<>>
      OBVIOUS
    <3> QED BY <1>2, <3>1, Zenon
  <2> QED BY <2>1, <2>2, <2>3
<1>4. Ancestors \in [Nodes -> SUBSET Folders]
  <2>1. \A n \in Nodes : {OnWay(n, k) : k \in 1 .. Len(n.names) - 1} \in SUBSET Folders
    BY OnWayIs, Zenon
  <2> QED BY <2>1 DEF Ancestors
<1>5. ASSUME NEW n \in Nodes
      PROVE  /\ n \notin Ancestors[n]
             /\ \A d \in Ancestors[n] : Ancestors[d] \subseteq Ancestors[n]
             /\ \A c, d \in Ancestors[n] : c = d \/ c \in Ancestors[d] \/ d \in Ancestors[c]
  <2> DEFINE L == Len(n.names)
  <2>1. L \in Nat \ {0}
    BY NodeIs
  <2>2. /\ Ancestors[n] = {OnWay(n, k) : k \in 1 .. L - 1}
        /\ \A k \in 1 .. L - 1 : Ancestors[OnWay(n, k)] = {OnWay(n, j) : j \in 1 .. k - 1}
    BY AncestorsAre
  <2>3. \A k \in 1 .. L - 1 : Len(OnWay(n, k).names) = k
    BY OnWayIs
  <2>4. n \notin Ancestors[n]
    <3>1. SUFFICES ASSUME NEW k \in 1 .. L - 1, n = OnWay(n, k) PROVE FALSE
      BY <2>2, Zenon
    <3>2. L = k
      BY <2>3, <3>1, Zenon
    <3> HIDE DEF L
    <3> QED BY <2>1, <3>2
  <2> HIDE DEF L
  <2>5. ASSUME NEW d \in Ancestors[n] PROVE Ancestors[d] \subseteq Ancestors[n]
    <3>1. PICK k \in 1 .. L - 1 : d = OnWay(n, k)
      BY <2>2, Zenon
    <3>2. Ancestors[d] = {OnWay(n, j) : j \in 1 .. k - 1}
      BY <2>2, <3>1, Zenon
    <3>3. \A j \in 1 .. k - 1 : j \in 1 .. L - 1
      BY <2>1
    <3> QED BY <2>2, <3>2, <3>3, Zenon
  <2>6. ASSUME NEW c \in Ancestors[n], NEW d \in Ancestors[n] PROVE c = d \/ c \in Ancestors[d] \/ d \in Ancestors[c]
    <3>1. PICK i \in 1 .. L - 1 : c = OnWay(n, i)
      BY <2>2, Zenon
    <3>2. PICK k \in 1 .. L - 1 : d = OnWay(n, k)
      BY <2>2, Zenon
    <3>3. i = k \/ i \in 1 .. k - 1 \/ k \in 1 .. i - 1
      BY <2>1
    <3>4. /\ Ancestors[c] = {OnWay(n, j) : j \in 1 .. i - 1}
          /\ Ancestors[d] = {OnWay(n, j) : j \in 1 .. k - 1}
      BY <2>2, <3>1, <3>2, Zenon
    <3> QED BY <3>1, <3>2, <3>3, <3>4, Zenon
  <2> QED BY <2>4, <2>5, <2>6
<1>6. Ancestors[TheRoot] = {}
  <2>1. TheRoot \in Nodes /\ Len(TheRoot.names) = 1
    BY MountsAre
  <2>2. Ancestors[TheRoot] = {OnWay(TheRoot, k) : k \in 1 .. Len(TheRoot.names) - 1}
    BY <2>1, AncestorsAre
  <2>3. 1 .. Len(TheRoot.names) - 1 = {}
    BY <2>1
  <2> QED BY <2>2, <2>3, Zenon
<1>7. TheRelocated \cup TheShadow \subseteq Folders /\ \A r \in TheRelocated \cup TheShadow : Ancestors[r] = {TheRoot}
  BY MountsAre
<1>8. /\ Folders \cap Files = {} /\ TheRoot \in Folders /\ IsFiniteSet(Nodes)
      /\ Folders \cup Files = Nodes
  BY LayoutAssumption, Zenon DEF Nodes
<1>9. /\ Sources \ {"linux"} \subseteq {"v1", "v2", "legacy"}
      /\ {IF class = "linux" THEN "archive" ELSE class : class \in Targets} \subseteq {"v1", "v2", "legacy"} \cup {"archive"}
  <2>1. Sources \subseteq {"linux", "v1", "v2", "legacy"} /\ Targets \subseteq {"linux", "v1", "v2", "legacy"}
    BY NamesAssumption, Zenon DEF Classes
  <2> QED BY <2>1
<1>10. Tree!SkeletonAssumption
  BY <1>3, <1>4, <1>7, <1>8, <1>9 DEF Tree!SkeletonAssumption, Tree!Nodes, Tree!Versions, Nothing, Old
<1>11. Tree!ForestAssumption
  <2>1. Tree!Nodes = Nodes
    BY <1>8, Zenon DEF Tree!Nodes
  <2>2. /\ \A n \in Nodes : n \notin Ancestors[n]
        /\ \A n \in Nodes : \A d \in Ancestors[n] : Ancestors[d] \subseteq Ancestors[n]
        /\ \A n \in Nodes : \A c, d \in Ancestors[n] : c = d \/ c \in Ancestors[d] \/ d \in Ancestors[c]
    BY <1>5, Zenon
  <2>3. Tree!IsFiniteSet(Tree!Nodes) /\ Node(<<NoRoot>>, TRUE) # Node(<<>>, TRUE)
    BY <1>3, <1>8, <2>1, Zenon DEF Nothing, Old, IsFiniteSet, Tree!IsFiniteSet
  <2>4. Ancestors[TheRoot] = {} /\ \A r \in TheRelocated \cup TheShadow : Ancestors[r] = {TheRoot}
    BY <1>6, <1>7, Zenon
  <2> QED BY <2>1, <2>2, <2>3, <2>4, Zenon DEF Tree!ForestAssumption
<1> QED BY <1>10, <1>11

\* In every version a node lies in the folder one name up, but /home, /root and /mnt lie
\* beside rootfs in the legacy version.
LEMMA ParentIs ==
  ASSUME NEW n \in Nodes, NEW class
  PROVE  Tree!Parent(class, n) = IF Len(n.names) = 1 \/ (class = "legacy" /\ n \in TheRelocated) THEN TheBase
                                 ELSE OnWay(n, Len(n.names) - 1)
<1> DEFINE L == Len(n.names)
           d0 == OnWay(n, L - 1)
<1>1. L \in Nat \ {0}
  BY NodeIs
<1>2. /\ Ancestors[n] = {OnWay(n, k) : k \in 1 .. L - 1}
      /\ \A k \in 1 .. L - 1 : Ancestors[OnWay(n, k)] = {OnWay(n, j) : j \in 1 .. k - 1}
      /\ \A j, k \in 1 .. L - 1 : OnWay(n, j) = OnWay(n, k) <=> j = k
  BY AncestorsAre
<1> HIDE DEF L
<1>3. Ancestors[n] = {} <=> L = 1
  <2>1. \A d : d \in Ancestors[n] <=> \E k \in 1 .. L - 1 : d = OnWay(n, k)
    BY <1>2, Zenon
  <2>2. L = 1 => \A k : k \notin 1 .. L - 1
    OBVIOUS
  <2>3. L # 1 => 1 \in 1 .. L - 1
    BY <1>1
  <2>4. L = 1 => Ancestors[n] = {}
    BY <2>1, <2>2, Zenon
  <2>5. L # 1 => OnWay(n, 1) \in Ancestors[n]
    BY <2>1, <2>3, Zenon
  <2> QED BY <2>4, <2>5, Zenon
<1>4. CASE L = 1 \/ (class = "legacy" /\ n \in TheRelocated)
  BY <1>3, <1>4, Zenon DEF Tree!Parent, L
<1>5. CASE ~(L = 1 \/ (class = "legacy" /\ n \in TheRelocated))
  <2>1. L - 1 \in 1 .. L - 1 /\ (L - 1) - 1 = L - 2 /\ \A j \in 1 .. L - 1 : j \in 1 .. L - 2 <=> j # L - 1
    BY <1>1, <1>5
  <2>2. d0 \in Ancestors[n] /\ Ancestors[d0] = {OnWay(n, j) : j \in 1 .. L - 2}
    BY <1>2, <2>1, Zenon
  <2>3. \A j \in 1 .. L - 2 : j \in 1 .. L - 1
    BY <1>1
  <2>4. Ancestors[d0] = Ancestors[n] \ {d0}
    <3>1. \A j \in 1 .. L - 1 : OnWay(n, j) = d0 <=> j = L - 1
      BY <1>2, <2>1, Zenon
    <3>2. \A d : d \in Ancestors[n] <=> \E j \in 1 .. L - 1 : d = OnWay(n, j)
      BY <1>2, Zenon
    <3>3. \A d : d \in Ancestors[d0] <=> \E j \in 1 .. L - 2 : d = OnWay(n, j)
      BY <2>2, Zenon
    <3> HIDE DEF d0
    <3>4. \A d : d \in Ancestors[d0] <=> d \in Ancestors[n] /\ d # d0
      BY <2>1, <2>3, <3>1, <3>2, <3>3, Zenon
    <3> QED BY <3>4, Zenon
  <2>5. ASSUME NEW d \in Ancestors[n], Ancestors[d] = Ancestors[n] \ {d} PROVE d = d0
    <3>1. PICK k \in 1 .. L - 1 : d = OnWay(n, k)
      BY <1>2, Zenon
    <3>2. SUFFICES ASSUME d # d0 PROVE FALSE
      OBVIOUS
    <3>3. PICK j \in 1 .. k - 1 : d0 = OnWay(n, j)
      <4>1. d0 \in Ancestors[d]
        BY <2>2, <2>5, <3>2, Zenon
      <4>2. Ancestors[d] = {OnWay(n, j) : j \in 1 .. k - 1}
        BY <1>2, <3>1, Zenon
      <4> HIDE DEF d0
      <4> QED BY <4>1, <4>2, Zenon
    <3>4. k \in Int /\ j \in 1 .. L - 1 /\ j # L - 1
      BY <1>1
    <3> QED BY <1>2, <2>1, <3>3, <3>4, Zenon
  <2>6. d0 = CHOOSE d \in Ancestors[n] : Ancestors[d] = Ancestors[n] \ {d}
    <3> HIDE DEF d0
    <3>1. \A d \in Ancestors[n] : Ancestors[d] = Ancestors[n] \ {d} <=> d = d0
      BY <2>4, <2>5, Zenon
    <3>2. \E d \in Ancestors[n] : Ancestors[d] = Ancestors[n] \ {d}
      BY <2>2, <2>4, Zenon
    <3>3. LET e == CHOOSE d \in Ancestors[n] : Ancestors[d] = Ancestors[n] \ {d}
          IN  e \in Ancestors[n] /\ Ancestors[e] = Ancestors[n] \ {e}
      BY <3>2, Zenon
    <3> QED BY <3>1, <3>3, Zenon
  <2> QED BY <1>3, <1>5, <2>6, Zenon DEF Tree!Parent, L
<1> QED BY <1>4, <1>5

(* What lies behind /home, /root and /mnt, and these directories themselves: beside rootfs
   in the legacy version. *)
Moves(n) ==
    /\ ~n.hidden /\ Len(n.names) > 1 /\ n.names[1] = Rootfs /\ n.names[2] \in Moved
    /\ Len(n.names) > 2 \/ n \in Folders

\* A node has a name of a mount point in front of it if and only if its second one is moved.
LEMMA InMounts ==
  ASSUME NEW n \in Nodes
  PROVE  /\ n.names \in Mounts <=> Len(n.names) = 2 /\ n.names[1] = Rootfs /\ n.names[2] \in Moved
         /\ \A r : r.names \in Mounts =>
              (IsPrefix(r.names, n.names) <=> Len(n.names) > 1 /\ r.names = <<n.names[1], n.names[2]>>)
         /\ Len(n.names) > 1 => SubSeq(n.names, 1, 2) = <<n.names[1], n.names[2]>>
<1> DEFINE ns == n.names
           X == Names \ Foreign
<1>1. ns \in Seq(X) /\ Len(ns) \in Nat
  BY NodeIs
<1> HIDE DEF ns, X
<1>2. Len(ns) = 2 => ns = <<ns[1], ns[2]>>
  BY <1>1
<1>3. \A a, b : Len(<<a, b>>) = 2 /\ <<a, b>>[1] = a /\ <<a, b>>[2] = b
  OBVIOUS
<1>4. ns \in Mounts <=> Len(ns) = 2 /\ ns[1] = Rootfs /\ ns[2] \in Moved
  <2>1. ns \in Mounts <=> \E m \in Moved : ns = <<Rootfs, m>>
    BY Zenon DEF Mounts
  <2>2. ASSUME NEW m \in Moved, ns = <<Rootfs, m>> PROVE Len(ns) = 2 /\ ns[1] = Rootfs /\ ns[2] \in Moved
    BY <1>3, <2>2
  <2>3. ASSUME Len(ns) = 2, ns[1] = Rootfs, ns[2] \in Moved PROVE \E m \in Moved : ns = <<Rootfs, m>>
    BY <1>2, <2>3, Zenon
  <2> QED BY <2>1, <2>2, <2>3, Zenon
<1>5. Len(ns) > 1 => SubSeq(ns, 1, 2) = <<ns[1], ns[2]>>
  <2> SUFFICES ASSUME Len(ns) > 1 PROVE SubSeq(ns, 1, 2) = <<ns[1], ns[2]>>
    OBVIOUS
  <2> DEFINE s == SubSeq(ns, 1, 2)
  <2>1. 2 \in 0 .. Len(ns) /\ 1 \in 1 .. 2 /\ 2 \in 1 .. 2
    BY <1>1
  <2>2. s \in Seq(X) /\ Len(s) = 2 /\ s[1] = ns[1] /\ s[2] = ns[2]
    BY <1>1, <2>1, Beginnings
  <2> HIDE DEF s
  <2>3. s = <<s[1], s[2]>>
    BY <2>2
  <2> QED BY <2>2, <2>3 DEF s
<1>6. ASSUME NEW r, r.names \in Mounts
      PROVE  IsPrefix(r.names, ns) <=> Len(ns) > 1 /\ r.names = <<ns[1], ns[2]>>
  <2>1. PICK m \in Moved : r.names = <<Rootfs, m>>
    BY <1>6, Zenon DEF Mounts
  <2>2. Len(r.names) = 2 /\ (2 <= Len(ns) <=> Len(ns) > 1)
    BY <1>1, <1>3, <2>1
  <2>3. SubSeq(<<Rootfs, m>>, 1, 2) = <<Rootfs, m>>
    <3>1. <<Rootfs, m>> \in Seq({Rootfs, m})
      OBVIOUS
    <3> QED BY <1>3, <3>1, SubSeqFull
  <2>4. SubSeq(r.names, 1, Len(r.names)) = r.names
    BY <2>1, <2>2, <2>3
  <2>5. IsPrefix(r.names, ns) <=> 2 <= Len(ns) /\ r.names = SubSeq(ns, 1, 2)
    BY <2>2, <2>4, Zenon DEF IsPrefix
  <2> QED BY <1>5, <2>2, <2>5, Zenon
<1> QED BY <1>4, <1>5, <1>6 DEF ns

\* What is hidden lies behind a mount point.
LEMMA HiddenIs ==
  ASSUME NEW n \in Nodes, n.hidden
  PROVE  /\ Len(n.names) > 1 /\ n.names[1] = Rootfs /\ n.names[2] \in Moved
         /\ Len(n.names) = 2 => n \in Folders
<1>1. PICK m \in Mounts : IsPrefix(m, n.names)
  BY LayoutAssumption, Zenon
<1> DEFINE r == Node(m, TRUE)
<1>2. r.names = m
  BY NodeParts, Zenon
<1> HIDE DEF r
<1>3. Len(n.names) > 1 /\ m = <<n.names[1], n.names[2]>>
  BY <1>1, <1>2, InMounts, Zenon
<1>4. PICK w \in Moved : m = <<Rootfs, w>>
  BY <1>1, Zenon DEF Mounts
<1>5. n.names[1] = Rootfs /\ n.names[2] \in Moved
  <2>1. m[1] = n.names[1] /\ m[2] = n.names[2]
    BY <1>3
  <2>2. m[1] = Rootfs /\ m[2] = w
    BY <1>4
  <2> QED BY <2>1, <2>2
<1>6. Len(n.names) = 2 => n.names \in Mounts
  BY <1>5, InMounts, Zenon
<1> QED BY <1>3, <1>5, <1>6, LayoutAssumption, Zenon

\* What TreeCopy has under the mount points is what is hidden, and what it has under the
\* root directory has its name in front.
LEMMA UnderNodes ==
  ASSUME NEW n \in Nodes
  PROVE  /\ Tree!Under(n, TheShadow) <=> n.hidden
         /\ Tree!Under(n, {TheRoot}) <=> n.names[1] = Rootfs
<1> DEFINE L == Len(n.names)
<1>1. L \in Nat \ {0} /\ n = Node(n.names, n.hidden) /\ n.names \in Seq(Names \ Foreign) /\ n.hidden \in BOOLEAN
  BY NodeIs
<1>2. Ancestors[n] = {OnWay(n, k) : k \in 1 .. L - 1}
  BY AncestorsAre
<1>3. \A k \in 1 .. L - 1 : /\ OnWay(n, k) \in Folders
                           /\ OnWay(n, k).names = SubSeq(n.names, 1, k) /\ OnWay(n, k).hidden = (n.hidden /\ k > 1)
  BY OnWayIs, Zenon
<1> HIDE DEF L
<1>4. ASSUME n.hidden PROVE Tree!Under(n, TheShadow)
  <2>1. L > 1 /\ n.names[1] = Rootfs /\ n.names[2] \in Moved /\ (L = 2 => n \in Folders)
    BY <1>4, HiddenIs, Zenon DEF L
  <2>2. CASE L = 2
    <3>1. n.names \in Mounts
      BY <2>1, <2>2, InMounts, Zenon DEF L
    <3>2. n \in TheShadow
      BY <1>4, <2>1, <2>2, <3>1, Zenon DEF TheShadow
    <3> QED BY <3>2, Zenon DEF Tree!Under
  <2>3. CASE L # 2
    <3>1. 2 \in 1 .. L - 1 /\ 2 > 1
      BY <1>1, <2>1, <2>3
    <3>2. OnWay(n, 2) \in Folders /\ OnWay(n, 2).hidden /\ OnWay(n, 2).names = SubSeq(n.names, 1, 2)
      BY <1>3, <1>4, <3>1, Zenon
    <3>3. SubSeq(n.names, 1, 2) = <<n.names[1], n.names[2]>>
      BY <2>1, InMounts, Zenon DEF L
    <3>4. OnWay(n, 2).names \in Mounts
      BY <2>1, <3>2, <3>3, Zenon DEF Mounts
    <3>5. OnWay(n, 2) \in TheShadow /\ OnWay(n, 2) \in Ancestors[n]
      BY <1>2, <3>1, <3>2, <3>4, Zenon DEF TheShadow
    <3> QED BY <3>5, Zenon DEF Tree!Under
  <2> QED BY <2>2, <2>3
<1>5. ASSUME Tree!Under(n, TheShadow) PROVE n.hidden
  <2>1. n \in TheShadow \/ \E d \in Ancestors[n] : d \in TheShadow
    BY <1>5, Zenon DEF Tree!Under
  <2>2. \A d \in Ancestors[n] : d.hidden => n.hidden
    BY <1>2, <1>3, Zenon
  <2> QED BY <2>1, <2>2, Zenon DEF TheShadow
<1>6. TheRoot.names = <<Rootfs>> /\ <<Rootfs>>[1] = Rootfs
  BY NodeParts, Zenon DEF TheRoot
<1>7. ASSUME Tree!Under(n, {TheRoot}) PROVE n.names[1] = Rootfs
  <2>1. CASE n = TheRoot
    BY <1>6, <2>1, Zenon
  <2>2. CASE n # TheRoot
    <3>1. TheRoot \in Ancestors[n]
      BY <1>7, <2>2, Zenon DEF Tree!Under
    <3>2. PICK k \in 1 .. L - 1 : TheRoot = OnWay(n, k)
      BY <1>2, <3>1, Zenon
    <3>3. k \in 0 .. L /\ 1 \in 1 .. k
      BY <1>1
    <3>4. SubSeq(n.names, 1, k)[1] = n.names[1]
      BY <1>1, <3>3, Beginnings, Zenon DEF L
    <3> QED BY <1>3, <1>6, <3>2, <3>4, Zenon
  <2> QED BY <2>1, <2>2
<1>8. ASSUME n.names[1] = Rootfs PROVE Tree!Under(n, {TheRoot})
  <2>1. 1 \in 0 .. L /\ 1 \in 1 .. 1
    BY <1>1
  <2> DEFINE s == SubSeq(n.names, 1, 1)
  <2>2. s \in Seq(Names \ Foreign) /\ Len(s) = 1 /\ s[1] = Rootfs
    <3>1. n.names \in Seq(Names \ Foreign) /\ 1 \in 0 .. Len(n.names)
      BY <1>1, <2>1, Zenon DEF L
    <3>2. s \in Seq(Names \ Foreign) /\ Len(s) = 1 /\ \A i \in 1 .. 1 : s[i] = n.names[i]
      BY <3>1, Beginnings
    <3> HIDE DEF s
    <3> QED BY <1>8, <2>1, <3>2, Zenon
  <2>3. \A X : \A t \in Seq(X) : Len(t) = 1 => t = <<t[1]>>
    OBVIOUS
  <2> HIDE DEF s
  <2>4. s = <<Rootfs>>
    BY <2>2, <2>3, Zenon
  <2>5. CASE L = 1
    <3>1. n.hidden = FALSE
      <4>1. ~(L > 1)
        BY <2>5
      <4> QED BY <1>1, <4>1, HiddenIs, Zenon DEF L
    <3>2. n.names = <<Rootfs>>
      BY <1>1, <1>8, <2>3, <2>5, Zenon DEF L
    <3>3. n = TheRoot
      BY <1>1, <3>1, <3>2, Zenon DEF TheRoot
    <3> QED BY <3>3, Zenon DEF Tree!Under
  <2>6. CASE L # 1
    <3>1. 1 \in 1 .. L - 1 /\ ~(1 > 1)
      BY <1>1, <2>6
    <3>2. OnWay(n, 1) = TheRoot
      <4>1. (n.hidden /\ 1 > 1) = FALSE
        BY <3>1, Zenon
      <4> QED BY <2>4, <4>1, Zenon DEF OnWay, TheRoot, s
    <3>3. TheRoot \in Ancestors[n]
      BY <1>2, <3>1, <3>2, Zenon
    <3> QED BY <3>3, Zenon DEF Tree!Under
  <2> QED BY <2>5, <2>6
<1> QED BY <1>4, <1>5, <1>7, <1>8

\* A sequence and its last element.
LEMMA CutLast ==
  ASSUME NEW X, NEW s \in Seq(X), s # <<>>
  PROVE  LET L == Len(s)
             f == SubSeq(s, 1, L - 1)
         IN  /\ Last(s) = s[L] /\ s = Append(f, s[L]) /\ (L = 1 => f = <<>>) /\ (L > 1 => Tail(s) = Append(Tail(f), s[L]))
             /\ L = 2 => Tail(s) = <<s[2]>>
<1> DEFINE L == Len(s)
           f == SubSeq(s, 1, L - 1)
<1>1. L \in Nat \ {0} /\ Last(s) = s[L] /\ s[L] \in X
  BY EmptySeq DEF Last
<1>2. L - 1 \in 0 .. L /\ L - 1 \in Nat /\ (L - 1) + 1 = L
  BY <1>1
<1>3. f \in Seq(X) /\ Len(f) = L - 1 /\ \A i \in 1 .. L - 1 : f[i] = s[i]
  BY <1>2, Beginnings
<1> HIDE DEF f
<1>4. s = Append(f, s[L])
  <2>1. Len(s) = Len(f) + 1 /\ (\A i \in 1 .. Len(f) : s[i] = f[i]) /\ s[Len(f) + 1] = s[L]
    BY <1>2, <1>3
  <2> QED BY <1>1, <1>3, <2>1, OneMore
<1>5. L = 1 => f = <<>>
  BY <1>1, <1>3, EmptySeq
<1>6. ASSUME L > 1 PROVE Tail(s) = Append(Tail(f), s[L])
  <2> DEFINE x == s[L]
  <2>1. f # <<>> /\ x \in X
    BY <1>1, <1>2, <1>3, <1>6, EmptySeq
  <2> HIDE DEF x
  <2>2. Tail(Append(f, x)) = Append(Tail(f), x)
    BY <1>3, <2>1, AppendProperties
  <2> QED BY <1>4, <2>2 DEF x
<1>7. L = 2 => Tail(s) = <<s[2]>>
  <2>1. L = 2 => f = <<s[1]>>
    BY <1>3
  <2>2. \A x, y : Tail(<<x>>) = <<>> /\ Append(<<>>, y) = <<y>>
    OBVIOUS
  <2> SUFFICES ASSUME L = 2 PROVE Tail(s) = <<s[2]>>
    OBVIOUS
  <2>3. 2 > 1
    OBVIOUS
  <2> HIDE DEF L
  <2>4. Tail(s) = Append(Tail(f), s[2])
    BY <1>6, <2>3, Zenon
  <2> QED BY <2>1, <2>2, <2>4, Zenon
<1> QED BY <1>1, <1>4, <1>5, <1>6, <1>7 DEF f

\* The entry of a node has the names of its way, without rootfs if the legacy version moves it.
LEMMA EntryIs ==
  ASSUME NEW n \in Nodes, NEW class
  PROVE  EntryOf(class, n) = IF class = "legacy" /\ Moves(n) THEN Tail(n.names) ELSE n.names
<1> DEFINE ns == n.names
           L == Len(ns)
           P == Tree!Parent(class, n)
<1>1. ns \in Seq(Names \ Foreign) /\ ns # <<>> /\ L \in Nat \ {0} /\ n.hidden \in BOOLEAN
  BY NodeIs
<1>2. /\ Last(ns) = ns[L] /\ ns = Append(SubSeq(ns, 1, L - 1), ns[L])
      /\ L = 1 => SubSeq(ns, 1, L - 1) = <<>>
      /\ L > 1 => Tail(ns) = Append(Tail(SubSeq(ns, 1, L - 1)), ns[L])
      /\ L = 2 => Tail(ns) = <<ns[2]>>
  <2> HIDE DEF ns
  <2> QED BY <1>1, CutLast
<1>3. P = IF L = 1 \/ (class = "legacy" /\ n \in TheRelocated) THEN TheBase ELSE OnWay(n, L - 1)
  BY ParentIs
<1>4. EntryOf(class, n) = Append(WayTo(class, P), Last(ns))
  BY Zenon DEF EntryOf
<1>5. WayTo(class, TheBase) = <<>>
  <2>1. TheBase.names = <<>>
    BY NodeParts, Zenon DEF TheBase
  <2>2. \A r \in TheRelocated : ~IsPrefix(r.names, <<>>)
    <3>1. \A r \in TheRelocated : Len(r.names) = 2
      BY MountsAre, Zenon
    <3>2. Len(<<>>) = 0 /\ ~(2 <= 0)
      OBVIOUS
    <3> QED BY <3>1, <3>2, Zenon DEF IsPrefix
  <2> QED BY <2>1, <2>2, Zenon DEF WayTo
<1>6. n \in TheRelocated => Moves(n) /\ L = 2
  <2> SUFFICES ASSUME n \in TheRelocated PROVE Moves(n) /\ L = 2
    OBVIOUS
  <2>1. n \in Folders /\ ~n.hidden /\ ns \in Mounts
    BY Zenon DEF TheRelocated
  <2>2. L = 2 /\ ns[1] = Rootfs /\ ns[2] \in Moved
    BY <2>1, InMounts, Zenon
  <2>3. L > 1
    BY <2>2
  <2> QED BY <2>1, <2>2, <2>3, Zenon DEF Moves
<1> HIDE DEF P
<1>7. CASE L = 1
  <2>1. ~(L > 1) /\ SubSeq(ns, 1, L - 1) = <<>>
    BY <1>2, <1>7
  <2>2. ~Moves(n)
    BY <2>1, Zenon DEF Moves
  <2>3. EntryOf(class, n) = Append(<<>>, ns[L])
    BY <1>2, <1>3, <1>4, <1>5, <1>7, Zenon
  <2>4. ns = Append(<<>>, ns[L])
    BY <1>2, <2>1
  <2> HIDE DEF L, ns
  <2> QED BY <2>2, <2>3, <2>4, Zenon DEF ns
<1>8. CASE class = "legacy" /\ n \in TheRelocated
  <2>1. L = 2 /\ Moves(n) /\ Tail(ns) = <<ns[2]>>
    BY <1>2, <1>6, <1>8
  <2>2. EntryOf(class, n) = Append(<<>>, ns[2])
    BY <1>2, <1>3, <1>4, <1>5, <1>8, <2>1, Zenon
  <2>3. \A x : Append(<<>>, x) = <<x>>
    OBVIOUS
  <2> HIDE DEF L, ns
  <2> QED BY <1>8, <2>1, <2>2, <2>3, Zenon DEF ns
<1>9. CASE L # 1 /\ ~(class = "legacy" /\ n \in TheRelocated)
  <2> DEFINE k == L - 1
             d == OnWay(n, k)
  <2>1. k \in 1 .. L - 1 /\ k \in Nat /\ L > 1 /\ (k > 1 <=> L > 2) /\ (L > 2 => 2 \in 0 .. k /\ 2 \in 1 .. k /\ 1 \in 1 .. k)
    <3> HIDE DEF L
    <3> QED BY <1>1, <1>9
  <2>2. /\ d \in Nodes /\ d.names = SubSeq(ns, 1, k) /\ d.hidden = (n.hidden /\ k > 1) /\ Len(d.names) = k
    BY <2>1, OnWayIs
  <2>3. k > 1 => d.names[1] = ns[1] /\ d.names[2] = ns[2]
    <3>1. k \in 0 .. L
      BY <1>1, <2>1
    <3>2. \A i \in 1 .. k : SubSeq(ns, 1, k)[i] = ns[i]
      <4> HIDE DEF ns, k
      <4> QED BY <1>1, <3>1, Beginnings
    <3>3. k > 1 => 1 \in 1 .. k /\ 2 \in 1 .. k
      BY <2>1, Zenon
    <3>4. \A i \in 1 .. k : d.names[i] = ns[i]
      BY <2>2, <3>2
    <3> HIDE DEF d, k
    <3> QED BY <3>3, <3>4, Zenon
  <2>4. EntryOf(class, n) = Append(WayTo(class, d), ns[L])
    BY <1>2, <1>3, <1>4, <1>9, Zenon
  <2> HIDE DEF d, k, L, ns
  <2>5. ASSUME Moves(n), class = "legacy" PROVE WayTo(class, d) = Tail(d.names) /\ k > 1
    <3>1. /\ ~n.hidden /\ L > 1 /\ ns[1] = Rootfs /\ ns[2] \in Moved
          /\ L > 2 \/ n \in Folders
      BY <2>5, Zenon DEF Moves, L, ns
    <3>2. L > 2
      <4>1. SUFFICES ASSUME ~(L > 2) PROVE FALSE
        OBVIOUS
      <4>2. L = 2
        BY <1>1, <2>1, <4>1
      <4>3. n.names \in Mounts
        BY <3>1, <4>2, InMounts, Zenon DEF L, ns
      <4>4. n \in TheRelocated
        BY <3>1, <4>1, <4>3, Zenon DEF TheRelocated
      <4> QED BY <1>9, <2>5, <4>4, Zenon
    <3> DEFINE r == OnWay(n, 2)
    <3>3. r \in Folders /\ r.names = SubSeq(ns, 1, 2) /\ ~r.hidden
      <4>1. 2 \in 1 .. Len(n.names) - 1
        BY <1>1, <3>2 DEF L, ns
      <4>2. r \in Folders /\ r.names = SubSeq(n.names, 1, 2) /\ r.hidden = (n.hidden /\ 2 > 1)
        BY <4>1, OnWayIs
      <4> HIDE DEF r
      <4> QED BY <3>1, <4>2, Zenon DEF ns
    <3> HIDE DEF r
    <3>4. r.names = <<ns[1], ns[2]>>
      BY <3>1, <3>3, InMounts, Zenon DEF L, ns
    <3>5. r.names \in Mounts
      BY <3>1, <3>4, Zenon DEF Mounts
    <3>6. r \in TheRelocated
      BY <3>3, <3>5, Zenon DEF TheRelocated
    <3>7. k > 1
      BY <2>1, <3>2
    <3>8. IsPrefix(r.names, d.names)
      BY <2>2, <2>3, <3>4, <3>5, <3>7, InMounts, Zenon
    <3>9. ~d.hidden
      BY <2>2, <3>1, Zenon
    <3> QED BY <2>5, <3>6, <3>7, <3>8, <3>9, Zenon DEF WayTo
  <2>6. ASSUME ~(Moves(n) /\ class = "legacy") PROVE WayTo(class, d) = d.names
    <3>1. SUFFICES ASSUME class = "legacy", ~d.hidden, NEW r \in TheRelocated, IsPrefix(r.names, d.names) PROVE Moves(n)
      BY <2>6, Zenon DEF WayTo
    <3>2. r.names \in Mounts
      BY Zenon DEF TheRelocated
    <3>3. k > 1 /\ r.names = <<d.names[1], d.names[2]>>
      BY <2>2, <3>1, <3>2, InMounts, Zenon
    <3>4. r.names = <<ns[1], ns[2]>>
      BY <2>3, <3>3, Zenon
    <3>5. r.names[1] = Rootfs /\ r.names[2] \in Moved
      <4>1. r \in Nodes
        BY <3>1, MountsAre, Zenon
      <4> QED BY <3>2, <4>1, InMounts, Zenon
    <3>6. \A a, b : <<a, b>>[1] = a /\ <<a, b>>[2] = b
      OBVIOUS
    <3>7. ns[1] = Rootfs /\ ns[2] \in Moved
      BY <3>4, <3>5, <3>6
    <3>8. ~n.hidden /\ L > 1 /\ L > 2
      BY <2>1, <2>2, <3>1, <3>3
    <3> QED BY <3>7, <3>8, Zenon DEF Moves, L, ns
  <2>7. ns = Append(d.names, ns[L]) /\ (k > 1 => Tail(ns) = Append(Tail(d.names), ns[L]))
    <3>1. ns = Append(SubSeq(ns, 1, k), ns[L]) /\ (L > 1 => Tail(ns) = Append(Tail(SubSeq(ns, 1, k)), ns[L]))
      BY <1>2, Zenon DEF k
    <3> QED BY <2>1, <2>2, <3>1, Zenon
  <2>8. CASE class = "legacy" /\ Moves(n)
    BY <2>4, <2>5, <2>7, <2>8, Zenon DEF ns
  <2>9. CASE ~(class = "legacy" /\ Moves(n))
    BY <2>4, <2>6, <2>7, <2>9, Zenon DEF ns
  <2> QED BY <2>8, <2>9
<1> QED BY <1>7, <1>8, <1>9

\* The rest of a sequence behind its first element.
LEMMA BehindFirst ==
  ASSUME NEW X, NEW s \in Seq(X), s # <<>>
  PROVE  /\ Tail(s) \in Seq(X) /\ (Tail(s) # <<>> <=> Len(s) > 1) /\ Len(Tail(s)) = Len(s) - 1
         /\ Len(s) > 1 => Tail(s)[1] = s[2]
<1>1. Len(s) \in Nat \ {0}
  BY EmptySeq
<1>2. Tail(s) \in Seq(X) /\ Len(Tail(s)) = Len(s) - 1
  BY HeadTailProperties
<1>3. Tail(s) # <<>> <=> Len(Tail(s)) # 0
  BY <1>2, EmptySeq
<1>4. Len(s) > 1 => Tail(s)[1] = s[2]
  <2>1. Len(s) > 1 => 1 \in 1 .. Len(Tail(s)) /\ 1 + 1 = 2
    BY <1>1, <1>2
  <2> QED BY <2>1, HeadTailProperties
<1> QED BY <1>1, <1>2, <1>3, <1>4

\* A file that lies where TreeCopy has it, by what its names say: what Placed says of it.
LEMMA ReachedIs ==
  ASSUME NEW n \in Nodes, Reached(n), ~Unknown(n)
  PROVE  /\ Known /\ trail # <<>>
         /\ n.hidden => NoPlace
         /\ ~n.hidden /\ n.names[1] = Rootfs => InLinux /\ LinuxNames = Tail(n.names)
         /\ ~n.hidden /\ n.names[1] # Rootfs => ~InLinux /\ trail = n.names /\ trail[1] = n.names[1]
         /\ ~n.hidden => ~(source.class = "legacy" /\ InRootfs /\ LinuxNames # <<>> /\ LinuxNames[1] \in Moved)
<1> DEFINE ns == n.names
           L == Len(ns)
           legacy == source.class = "legacy"
<1>1. ns \in Seq(Names \ Foreign) /\ ns # <<>> /\ L \in Nat \ {0} /\ n.hidden \in BOOLEAN
  BY NodeIs
<1>2. trail = (IF legacy /\ Moves(n) THEN Tail(ns) ELSE ns) /\ (dir <=> n \in Folders) /\ Tree!Present(n)
  BY EntryIs, Zenon DEF Reached
<1>3. n.hidden => legacy /\ L > 1 /\ ns[1] = Rootfs /\ ns[2] \in Moved
  <2>1. Tree!Under(n, TheShadow) <=> n.hidden
    BY UnderNodes
  <2>2. [version |-> source.class].version = source.class
    OBVIOUS
  <2>3. n.hidden => legacy
    BY <1>2, <2>1, <2>2, Zenon DEF Tree!Present
  <2> QED BY <2>3, HiddenIs, Zenon
<1>4. ns[1] \in Moved => ~legacy
  BY Zenon DEF Unknown
<1>5. legacy /\ n \in Files => ~(L = 2 /\ ns[1] = Rootfs /\ ns[2] \in Moved)
  <2>1. legacy => ~(n \in Files /\ ns \in Mounts)
    BY Zenon DEF Unknown
  <2> QED BY <2>1, InMounts, Zenon
<1>6. n \in Folders \/ n \in Files
  BY Zenon DEF Nodes
<1>7. Rootfs \notin Moved
  BY RootfsIsNotMoved
<1>8. L = 1 /\ ns[1] = Rootfs => n \in Folders
  <2> SUFFICES ASSUME L = 1, ns[1] = Rootfs PROVE n \in Folders
    OBVIOUS
  <2>1. ~(L > 1)
    OBVIOUS
  <2>2. n.hidden = FALSE
    BY <1>1, <1>3, <2>1, Zenon
  <2>3. n = Node(ns, FALSE)
    BY <2>2, NodeIs, Zenon
  <2>4. ns = <<Rootfs>>
    <3>1. \A X : \A t \in Seq(X) : Len(t) = 1 => t = <<t[1]>>
      OBVIOUS
    <3> QED BY <1>1, <3>1, Zenon
  <2>5. n = TheRoot
    BY <2>3, <2>4, Zenon DEF TheRoot
  <2> QED BY <2>5, LayoutAssumption, Zenon
<1>9. /\ Tail(ns) \in Seq(Names \ Foreign) /\ (Tail(ns) # <<>> <=> L > 1) /\ Len(Tail(ns)) = L - 1
      /\ L > 1 => Tail(ns)[1] = ns[2]
  <2> HIDE DEF ns
  <2> QED BY <1>1, BehindFirst
<1> HIDE DEF L, ns
<1>10. Moves(n) <=> ~n.hidden /\ L > 1 /\ ns[1] = Rootfs /\ ns[2] \in Moved /\ (L > 2 \/ n \in Folders)
  BY Zenon DEF Moves, L, ns
<1>11. trail \in Seq(Names \ Foreign) /\ Known
  <2>1. trail \in Seq(Names \ Foreign)
    BY <1>1, <1>2, <1>9, Zenon
  <2>2. \A i \in DOMAIN trail : trail[i] \in Names \ Foreign
    BY <2>1
  <2> QED BY <2>1, <2>2, Zenon DEF Known
<1>12. CASE legacy /\ Moves(n)
  <2>1. trail = Tail(ns) /\ L > 1 /\ ns[1] = Rootfs /\ ns[2] \in Moved /\ ~n.hidden /\ (L > 2 \/ n \in Folders)
    BY <1>2, <1>10, <1>12, Zenon
  <2>2. trail # <<>> /\ trail[1] \in Moved /\ Len(trail) = L - 1
    BY <1>9, <2>1, Zenon
  <2>3. Len(trail) > 1 \/ dir
    <3>1. L \in Nat /\ Len(trail) = L - 1
      BY <1>1, <2>2, Zenon
    <3>2. L > 2 => Len(trail) > 1
      BY ONLY <3>1
    <3> QED BY <1>2, <2>1, <3>2, Zenon
  <2>4. ~InRootfs /\ InLinux
    BY <1>7, <1>12, <2>2, <2>3, Zenon DEF InRootfs, InLinux, Top
  <2>5. LinuxNames = Tail(ns)
    BY <2>1, <2>4, Zenon DEF LinuxNames
  <2> QED BY <1>11, <2>1, <2>2, <2>4, <2>5, Zenon DEF ns
<1>13. CASE ~(legacy /\ Moves(n))
  <2>1. trail = ns /\ trail # <<>>
    BY <1>1, <1>2, <1>13, Zenon
  <2>2. Len(trail) > 1 <=> L > 1
    BY <2>1, Zenon DEF L
  <2>3. ns[1] = Rootfs => Len(trail) > 1 \/ dir
    <3>1. ~(L > 1) => L = 1
      BY <1>1
    <3> QED BY <1>2, <1>8, <2>2, <3>1, Zenon
  <2>4. InRootfs <=> ns[1] = Rootfs
    BY <2>1, <2>3, Zenon DEF InRootfs, Top
  <2>5. InLinux <=> ns[1] = Rootfs
    BY <1>4, <2>1, <2>4, Zenon DEF InLinux, Top
  <2>6. InRootfs => LinuxNames = Tail(ns)
    BY <2>1, Zenon DEF LinuxNames
  <2>7. n.hidden => NoPlace
    <3> SUFFICES ASSUME n.hidden PROVE NoPlace
      OBVIOUS
    <3>1. legacy /\ InRootfs /\ LinuxNames = Tail(ns) /\ Tail(ns) # <<>> /\ Tail(ns)[1] \in Moved
      BY <1>3, <1>9, <2>4, <2>6, Zenon DEF L, ns
    <3> QED BY <3>1, Zenon DEF NoPlace
  <2>8. ~n.hidden => ~(legacy /\ InRootfs /\ LinuxNames # <<>> /\ LinuxNames[1] \in Moved)
    <3> SUFFICES ASSUME ~n.hidden, legacy, InRootfs, LinuxNames # <<>>, LinuxNames[1] \in Moved PROVE FALSE
      BY Zenon
    <3>1. ns[1] = Rootfs /\ L > 1 /\ ns[2] \in Moved
      BY <1>9, <2>4, <2>6, Zenon
    <3>2. ~(L > 2) /\ n \notin Folders
      BY <1>10, <1>13, <3>1, Zenon
    <3>3. L = 2
      BY <1>1, <3>1, <3>2
    <3> QED BY <1>5, <1>6, <3>1, <3>2, <3>3, Zenon DEF L, ns
  <2> QED BY <1>11, <2>1, <2>4, <2>5, <2>6, <2>7, <2>8, Zenon DEF ns
<1> QED BY <1>12, <1>13

\* A file in its place is in the place that TreeCopy has for it.
LEMMA PlacedFollows == TypeOK /\ Placed => FollowsLayout
<1> SUFFICES ASSUME TypeOK, Placed, outcome # "none", NEW n \in Nodes, Reached(n), ~Unknown(n)
             PROVE  IF Tree!HasPlace(n)
                    THEN /\ outcome = "done"
                         /\ target.data = IF target.class = "linux" THEN Joined("linux", Tail(n.names), dir)
                                          ELSE Joined(target.class, EntryOf(target.class, n), dir)
                    ELSE outcome = "refused"
  BY Zenon DEF FollowsLayout
<1> DEFINE ns == n.names
           class == target.class
<1>1. ns \in Seq(Names \ Foreign) /\ ns # <<>> /\ Len(ns) \in Nat \ {0} /\ n.hidden \in BOOLEAN
  BY NodeIs
<1>2. /\ Known /\ trail # <<>>
      /\ n.hidden => NoPlace
      /\ ~n.hidden /\ ns[1] = Rootfs => InLinux /\ LinuxNames = Tail(ns)
      /\ ~n.hidden /\ ns[1] # Rootfs => ~InLinux /\ trail = ns /\ trail[1] = ns[1]
      /\ ~n.hidden => ~(source.class = "legacy" /\ InRootfs /\ LinuxNames # <<>> /\ LinuxNames[1] \in Moved)
  BY ReachedIs
<1>3. IF NoPlace THEN outcome = "refused" ELSE outcome = "done" /\ target.data = Place
  BY <1>2, Zenon DEF Placed
<1>4. EntryOf(class, n) = IF class = "legacy" /\ Moves(n) THEN Tail(ns) ELSE ns
  BY EntryIs
<1>5. Tree!HasPlace(n) <=> ~n.hidden /\ (class = "linux" => ns[1] = Rootfs)
  <2>1. (Tree!Under(n, TheShadow) <=> n.hidden) /\ (Tree!Under(n, {TheRoot}) <=> ns[1] = Rootfs)
    BY UnderNodes
  <2>2. (IF class = "linux" THEN "archive" ELSE class) = "archive" <=> class = "linux" \/ class = "archive"
    OBVIOUS
  <2>3. class # "archive"
    <3>1. class \in {"linux", "v1", "v2", "legacy"}
      BY Zenon DEF TypeOK, PathOK, Classes
    <3> QED BY <3>1
  <2> QED BY <2>1, <2>2, <2>3, Zenon DEF Tree!HasPlace
<1>6. class = "legacy" => ns[1] \notin Moved /\ ~(n \in Files /\ ns \in Mounts)
  BY Zenon DEF Unknown
<1> HIDE DEF ns
<1>7. CASE n.hidden
  BY <1>2, <1>3, <1>5, <1>7, Zenon
<1>8. CASE ~n.hidden /\ ns[1] # Rootfs
  <2>1. ~InLinux /\ trail = ns /\ trail[1] = ns[1] /\ ~Moves(n)
    BY <1>2, <1>8, Zenon DEF Moves, ns
  <2>2. CASE class = "linux"
    <3>1. NoPlace
      BY <2>1, <2>2, Zenon DEF NoPlace
    <3> QED BY <1>3, <1>5, <1>8, <2>2, <3>1, Zenon
  <2>3. CASE class # "linux"
    <3>1. ~NoPlace
      BY <1>2, <1>6, <1>8, <2>1, <2>3, Zenon DEF NoPlace
    <3>2. Place = Joined(class, ns, dir)
      BY <2>1, <2>3 DEF Place
    <3> QED BY <1>3, <1>4, <1>5, <1>8, <2>1, <2>3, <3>1, <3>2, Zenon
  <2> QED BY <2>2, <2>3
<1>9. CASE ~n.hidden /\ ns[1] = Rootfs
  <2>1. InLinux /\ LinuxNames = Tail(ns) /\ ~NoPlace
    BY <1>2, <1>9, Zenon DEF NoPlace
  <2>2. Tree!HasPlace(n) /\ outcome = "done" /\ target.data = Place
    BY <1>3, <1>5, <1>9, <2>1, Zenon
  <2>3. ns = <<Rootfs>> \o Tail(ns)
    BY <1>1, <1>9, FirstAndLast
  <2> DEFINE L == Len(ns)
  <2>4. Top(Tail(ns), Moved) <=> Moves(n)
    <3>1. /\ Tail(ns) # <<>> <=> L > 1
          /\ L > 1 => Tail(ns)[1] = ns[2]
          /\ Len(Tail(ns)) = L - 1
      BY <1>1, BehindFirst
    <3>2. Len(Tail(ns)) > 1 <=> L > 2
      BY <1>1, <3>1
    <3>3. dir <=> n \in Folders
      BY Zenon DEF Reached
    <3>4. Moves(n) <=> L > 1 /\ ns[2] \in Moved /\ (L > 2 \/ n \in Folders)
      BY <1>9, Zenon DEF Moves, ns
    <3> HIDE DEF L
    <3> QED BY <3>1, <3>2, <3>3, <3>4, Zenon DEF Top
  <2>5. CASE class = "linux"
    <3>1. Place = Joined("linux", Tail(ns), dir)
      BY <2>1, <2>5 DEF Place
    <3> QED BY <2>2, <2>5, <3>1, Zenon DEF ns
  <2>6. CASE class = "legacy" /\ Moves(n)
    <3>1. Top(LinuxNames, Moved)
      BY <2>1, <2>6, <2>4, Zenon
    <3>2. Place = Joined("legacy", Tail(ns), dir)
      BY <2>1, <2>6, <3>1 DEF Place
    <3> QED BY <1>4, <2>2, <2>6, <3>2, Zenon
  <2>7. CASE class # "linux" /\ ~(class = "legacy" /\ Moves(n))
    <3>1. ~(class = "legacy" /\ Top(LinuxNames, Moved))
      BY <2>1, <2>7, <2>4, Zenon
    <3>2. Place = Joined(class, ns, dir)
      BY <2>1, <2>3, <2>7, <3>1 DEF Place
    <3> QED BY <1>4, <2>2, <2>7, <3>2, Zenon
  <2> QED BY <2>5, <2>6, <2>7
<1> QED BY <1>7, <1>8, <1>9

\* What TreeCopy takes for granted of the folders and the places of files is what the paths
\* say, for all names WSL may have made, for any tree of files with such names, however the
\* walk came to a file and whatever was converted before.
THEOREM LayoutKept == Spec => []FollowsLayout
<1>1. Init => CopyInv /\ Stands
  BY InitInv, InitStands
<1>2. (CopyInv /\ Stands) /\ [Next]_vars => (CopyInv /\ Stands)'
  BY StepInv, StandsStep
<1>3. CopyInv /\ Stands => FollowsLayout
  BY InvTypes, StandsPlaced, PlacedFollows
<1> QED BY <1>1, <1>2, <1>3, PTL DEF Spec

=============================================================================
