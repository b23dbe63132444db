-------------------------- MODULE TreeCopyProofs --------------------------
(***************************************************************************)
(* What a copy of a file tree, an export and its installation promise for  *)
(* every tree, every order of the enumeration, every version of source and *)
(* target, any number of failing calls.                                    *)
(***************************************************************************)
EXTENDS TreeCopy, TLAPS, FiniteSetTheorems, WellFoundedInduction

-----------------------------------------------------------------------------
(* Where the walk is *)

(* The folders that the walk of a tree enters before it comes to a file. *)
Walked(version, n) ==
    IF version = "legacy" /\ Under(n, Relocated) THEN Above[n] \ {Rootfs} ELSE Above[n]
W(n) == Walked(tree.version, n)

(* What the walk has still to come to, and what it has come by. *)
Ahead == {n \in Nodes : Present(n) /\ \E i \in DOMAIN stack : \E x \in stack[i].left : x = n \/ x \in W(n)}
Seen(n) == Present(n) /\ n \notin Ahead

(* The open directories lie in each other, and nothing above them is to come. *)
Walking ==
    /\ stack \in Seq([dir : Folders \cup {Base}, left : SUBSET Nodes])
    /\ \A i \in DOMAIN stack :
          /\ stack[i].left \subseteq Children(stack[i].dir)
          /\ stack[i].dir = Base <=> i = 1
          /\ i > 1 => Seen(stack[i].dir)
          /\ \A j \in DOMAIN stack : 1 < i /\ i < j => stack[i].dir \in W(stack[j].dir)

-----------------------------------------------------------------------------
(* The parts of the invariant *)

Writers ==
    [made     : [Nodes -> Nodes \cup {Nothing, Old}],
     settled  : SUBSET Folders,
     deferred : Seq(Folders),
     ignored  : SUBSET Nodes,
     entries  : Seq([node : Nodes, link : Files \cup {Nothing}]),
     error    : BOOLEAN]

Nested(s) == \A i, j \in DOMAIN s : i < j => s[i] \in Above[s[j]]

Typed ==
    /\ tree \in Trees /\ pass \in {"copy", "install"} /\ target \in Versions \cup {"archive"}
    /\ phase \in {"walk", "extract", "close", "done"}
    /\ outcome \in {"none", "ok", "error", "killed"} /\ mishaps \in 0 .. MaxMishaps
    /\ firstOf \in [Files -> Files \cup {Nothing}] /\ cut \in BOOLEAN
    /\ writer \in Writers /\ Nested(writer.deferred)

(* Which phase belongs to which pass, and what has come to its end by then. *)
Course ==
    /\ phase = "walk" => pass = "copy"
    /\ phase = "extract" => pass = "install"
    /\ pass = "install" => target \in Versions /\ stack = <<>>
    /\ phase \in {"walk", "extract"} => outcome = "none" /\ ~writer.error
    /\ outcome = "ok" => stack = <<>> /\ ~writer.error
    /\ outcome = "ok" /\ pass = "install" => writer.entries = <<>>
    /\ phase = "done" /\ mishaps = 0 => writer.deferred = <<>>
    /\ cut => mishaps > 0

(* What has a place in every target so far. *)
InPlace(n) == ~Under(n, Shadow) /\ (Archived => Under(n, {Rootfs}))

(* id_map: the first of several hard links that was visited. *)
Linked ==
    \A f \in Files :
        /\ First(f) # Nothing => /\ First(f) \in Links(f) /\ Links(f) # {f}
                                 /\ Seen(First(f)) /\ InPlace(First(f))
        /\ Seen(f) /\ InPlace(f) /\ Links(f) # {f} => First(f) # Nothing

(* The file whose target a file shares. *)
Same(f) == IF First(f) = Nothing THEN f ELSE First(f)

Entry(i) == writer.entries[i].node
Entered == {Entry(i) : i \in DOMAIN writer.entries}
Waiting == IF pass = "copy" THEN Ahead ELSE Entered

(* What the tree has so far, as long as nothing has failed. *)
Copied ==
    target \in Versions /\ ~writer.error =>
        /\ pass = "install" => \A n \in Nodes : writer.made[n] # Old
        /\ \A n \in Nodes :
              IF Kept(n) /\ n \notin Waiting
              THEN IF n \in Folders THEN writer.made[n] # Nothing ELSE writer.made[n] = Same(n)
              ELSE writer.made[n] \in {Nothing, Old}

(* ignored_files: files of a type that the target does not take. *)
Ignored ==
    /\ pass = "install" => writer.ignored = {}
    /\ pass = "copy" /\ ~writer.error => \A f \in Files :
          f \in writer.ignored <=> Seen(f) /\ InPlace(f) /\ ~Kept(f) /\ tree.type[f] # "broken"

(* Of the folders that have been made, each has its attributes or waits for them, and
   nothing more will be put into one that has. *)
Exempt(d) == d = Rootfs /\ tree.version = "legacy"
Pile(w) == {w.deferred[i] : i \in DOMAIN w.deferred}
Deferred == Pile(writer)
Reached ==
    target \in Versions /\ ~writer.error => \A d \in Folders :
        Kept(d) /\ d \notin Waiting /\ ~Exempt(d) => d \in writer.settled \cup Deferred
Firm ==
    target = "v2" /\ phase \in {"walk", "extract"} =>
        /\ \A d \in writer.settled \cup Deferred : d \notin Waiting
        /\ \A d \in writer.settled : ~Exempt(d) => \A m \in Waiting : d \notin Above[m]
InRow ==
    phase = "extract" => \A d \in Deferred : \A i, j \in DOMAIN writer.entries :
        i < j /\ d \in Above[Entry(j)] => d \in Above[Entry(i)]
Settled == Reached /\ Firm /\ InRow

(* An entry comes once, behind the folders above it and the file it is a link to. *)
Earlier(i, n) == writer.made[n] # Nothing \/ \E j \in DOMAIN writer.entries : j < i /\ Entry(j) = n
EntryOK(i, n, link) ==
    /\ Seen(n) /\ InPlace(n) /\ n # Rootfs
    /\ n \in Folders => n \notin tree.bare /\ link = Nothing
    /\ n \in Files => /\ tree.type[n] = "plain" \/ (tree.type[n] = "broken" /\ Same(n) # n)
                      /\ link = IF Same(n) = n THEN Nothing ELSE Same(n)
                      /\ link # Nothing /\ tree.type[n] = "plain" => Earlier(i, link)
    /\ \A d \in Above[n] : d = Rootfs \/ d \in tree.bare \/ Earlier(i, d)

(* The entries of an archive are those of a walk: what is in a folder follows it and is
   not interrupted. *)
Entries ==
    Archived /\ ~writer.error =>
        /\ \A i \in DOMAIN writer.entries :
              /\ EntryOK(i, Entry(i), writer.entries[i].link)
              /\ \A j \in DOMAIN writer.entries : i < j =>
                    /\ Entry(i) # Entry(j)
                    /\ \A k \in DOMAIN writer.entries :
                          j < k /\ Entry(i) \in Above[Entry(k)] => Entry(i) \in Above[Entry(j)]
                    /\ \A m \in Ahead : Entry(i) \in Above[m] => Entry(i) \in Above[Entry(j)]
        /\ pass = "copy" =>
              /\ writer.made = [n \in Nodes |-> Nothing]
              /\ \A n \in Nodes : Kept(n) /\ Seen(n) /\ n # Rootfs => n \in Entered

Inv ==
    /\ Typed /\ Course /\ Walking /\ Linked /\ Copied /\ Ignored /\ Settled /\ Entries
    /\ FailsForCause

-----------------------------------------------------------------------------
(* Trees *)

\* A set of numbers has a least one.
LEMMA LeastNumber ==
    ASSUME NEW S, S \subseteq Nat, S # {}
    PROVE  \E x \in S : \A y \in S : x <= y
<1>1. PICK x \in S : \A y \in S : ~(<<y, x>> \in OpToRel(<, Nat))
  BY NatLessThanWellFounded, WFMin
<1>2. \A y \in S : ~(y < x)
  <2>1. ASSUME NEW y \in S, y < x PROVE <<y, x>> \in OpToRel(<, Nat)
    BY <2>1 DEF OpToRel
  <2> QED BY <1>1, <2>1
<1> QED BY <1>2

\* The folders above a file are finitely many.
LEMMA AboveFinite ==
    ASSUME NEW n \in Nodes
    PROVE  Above[n] \subseteq Folders /\ Above[n] \subseteq Nodes /\ IsFiniteSet(Above[n])
<1>1. Above[n] \subseteq Folders BY SkeletonAssumption
<1>2. Above[n] \subseteq Nodes BY <1>1 DEF Nodes
<1> QED BY <1>1, <1>2, ForestAssumption, FS_Subset

\* A folder above a folder has fewer above itself.
LEMMA FewerAbove ==
    ASSUME NEW n \in Nodes, NEW d \in Above[n]
    PROVE  /\ d \in Nodes /\ Cardinality(Above[d]) \in Nat /\ Cardinality(Above[n]) \in Nat
           /\ Cardinality(Above[d]) < Cardinality(Above[n])
<1>1. d \in Nodes BY AboveFinite
<1>2. IsFiniteSet(Above[d]) /\ IsFiniteSet(Above[n]) BY <1>1, AboveFinite
<1>3. Cardinality(Above[d]) \in Nat /\ Cardinality(Above[n]) \in Nat
  BY <1>2, FS_CardinalityType
<1>4. Above[d] \subseteq Above[n] /\ d \notin Above[d] BY <1>1, ForestAssumption
<1>5. Cardinality(Above[d]) <= Cardinality(Above[n]) /\ Cardinality(Above[n]) # Cardinality(Above[d])
  BY <1>2, <1>4, FS_Subset
<1> QED BY <1>1, <1>3, <1>5

\* A file below another one has a parent, and every folder above it is that one or
\* above that one.
LEMMA ParentAbove ==
    ASSUME NEW n \in Nodes, Above[n] # {}
    PROVE  \E d \in Above[n] : Above[d] = Above[n] \ {d}
<1> DEFINE Fewer(d) == Cardinality(Above[n]) - Cardinality(Above[d])
           S == {Fewer(d) : d \in Above[n]}
<1>1. \A d \in Above[n] : /\ d \in Nodes /\ Cardinality(Above[d]) \in Nat /\ Cardinality(Above[n]) \in Nat
                          /\ Cardinality(Above[d]) < Cardinality(Above[n])
  BY FewerAbove
<1>2. S \subseteq Nat /\ S # {} BY <1>1
<1>3. PICK x \in S : \A y \in S : x <= y
  <2> HIDE DEF S
  <2> QED BY <1>2, LeastNumber
<1>4. PICK d \in Above[n] : x = Fewer(d) BY <1>3
<1>5. ASSUME NEW c \in Above[n], d \in Above[c] PROVE FALSE
  <2>1. Cardinality(Above[d]) < Cardinality(Above[c]) BY <1>1, <1>5, FewerAbove
  <2>2. Fewer(d) <= Fewer(c) BY <1>3, <1>4, <1>5
  <2> QED BY <2>1, <2>2, <1>1, <1>5
<1>6. \A c \in Above[n] : c = d \/ c \in Above[d] BY <1>5, ForestAssumption
<1>7. Above[d] \subseteq Above[n] /\ d \notin Above[d] BY <1>1, ForestAssumption
<1> QED BY <1>6, <1>7

\* The folders of the walk are folders of the tree, lie in each other, and are those
\* of the tree but for the root directory.
LEMMA WalkedTree ==
    ASSUME NEW version, NEW n \in Nodes
    PROVE  /\ Walked(version, n) \subseteq Above[n] /\ n \notin Walked(version, n)
           /\ \A d \in Above[n] : d # Rootfs \/ version # "legacy" => d \in Walked(version, n)
           /\ \A d \in Walked(version, n) : /\ d \in Nodes /\ d \in Folders
                                            /\ Walked(version, d) \subseteq Walked(version, n)
           /\ \A c, d \in Walked(version, n) :
                 c = d \/ c \in Walked(version, d) \/ d \in Walked(version, c)
<1>1. Walked(version, n) \subseteq Above[n] BY DEF Walked
<1>2. n \notin Walked(version, n) BY <1>1, ForestAssumption
<1>3. \A d \in Above[n] : d # Rootfs \/ version # "legacy" => d \in Walked(version, n)
  BY DEF Walked
<1>4. \A d \in Above[n] : d \in Nodes /\ d \in Folders BY AboveFinite
<1>5. ASSUME NEW d \in Walked(version, n)
      PROVE  Walked(version, d) \subseteq Walked(version, n)
  <2>1. d \in Above[n] /\ Above[d] \subseteq Above[n] BY <1>1, <1>5, ForestAssumption
  <2>2. CASE version = "legacy" /\ Under(n, Relocated)
    <3>1. d # Rootfs BY <2>2, <1>5 DEF Walked
    <3>2. Under(d, Relocated)
      <4>1. CASE n \in Relocated
        <5>1. Above[n] = {Rootfs} BY <4>1, ForestAssumption
        <5> QED BY <5>1, <2>1, <3>1
      <4>2. CASE n \notin Relocated
        <5>1. PICK r \in Relocated : r \in Above[n] BY <4>2, <2>2 DEF Under
        <5>2. Above[r] = {Rootfs} BY ForestAssumption
        <5>3. d = r \/ d \in Above[r] \/ r \in Above[d] BY <5>1, <2>1, ForestAssumption
        <5> QED BY <5>1, <5>2, <5>3, <3>1 DEF Under
      <4> QED BY <4>1, <4>2
    <3> QED BY <2>1, <2>2, <3>2 DEF Walked
  <2>3. CASE ~(version = "legacy" /\ Under(n, Relocated))
    BY <2>1, <2>3, <1>1 DEF Walked
  <2> QED BY <2>2, <2>3
<1>6. ASSUME NEW c \in Walked(version, n), NEW d \in Walked(version, n)
      PROVE  c = d \/ c \in Walked(version, d) \/ d \in Walked(version, c)
  <2>1. c = d \/ c \in Above[d] \/ d \in Above[c] BY <1>1, <1>6, ForestAssumption
  <2>2. CASE version = "legacy" /\ Under(n, Relocated)
    BY <2>1, <2>2 DEF Walked
  <2>3. CASE version = "legacy" /\ ~Under(n, Relocated)
    <3>1. \A e \in Above[n] : Above[e] \subseteq Above[n] BY ForestAssumption
    <3>2. c \in Above[n] /\ d \in Above[n] BY <1>1, <1>6
    <3>3. ~Under(c, Relocated) /\ ~Under(d, Relocated) BY <2>3, <3>1, <3>2 DEF Under
    <3> QED BY <2>1, <3>3 DEF Walked
  <2>4. CASE version # "legacy"
    BY <2>1, <2>4 DEF Walked
  <2> QED BY <2>2, <2>3, <2>4
<1> QED BY <1>1, <1>2, <1>3, <1>4, <1>5, <1>6

\* Parent is the lowest folder of the walk to a file, or the base directory.
LEMMA ParentWalked ==
    ASSUME NEW version, NEW n \in Nodes
    PROVE  \/ Parent(version, n) = Base /\ Walked(version, n) = {}
           \/ /\ Parent(version, n) \in Walked(version, n)
              /\ Walked(version, n) = {Parent(version, n)} \cup Walked(version, Parent(version, n))
<1> DEFINE p == Parent(version, n)
<1>1. CASE Above[n] = {}
  BY <1>1 DEF Parent, Walked
<1>2. CASE Above[n] # {} /\ version = "legacy" /\ n \in Relocated
  <2>1. Above[n] = {Rootfs} BY <1>2, ForestAssumption
  <2>2. Walked(version, n) = {} BY <1>2, <2>1 DEF Walked, Under
  <2> QED BY <1>2, <2>2 DEF Parent
<1>3. CASE Above[n] # {} /\ ~(version = "legacy" /\ n \in Relocated)
  <2>1. p = CHOOSE d \in Above[n] : Above[d] = Above[n] \ {d} BY <1>3 DEF Parent
  <2>2. \E d \in Above[n] : Above[d] = Above[n] \ {d} BY <1>3, ParentAbove
  <2>3. p \in Above[n] /\ Above[p] = Above[n] \ {p} BY <2>1, <2>2
  <2>4. CASE version = "legacy" /\ Under(n, Relocated)
    <3>1. PICK r \in Relocated : r \in Above[n] BY <1>3, <2>4 DEF Under
    <3>2. Above[r] = {Rootfs} /\ Above[Rootfs] = {} BY ForestAssumption
    <3>3. r = p \/ r \in Above[p] BY <2>3, <3>1
    <3>4. p # Rootfs BY <3>2, <3>3
    <3>5. Under(p, Relocated) BY <3>1, <3>3 DEF Under
    <3> QED BY <2>3, <2>4, <3>4, <3>5 DEF Walked
  <2>5. CASE version = "legacy" /\ ~Under(n, Relocated)
    <3>1. ~Under(p, Relocated) BY <2>3, <2>5 DEF Under
    <3> QED BY <2>3, <2>5, <3>1 DEF Walked
  <2>6. CASE version # "legacy"
    BY <2>3, <2>6 DEF Walked
  <2> QED BY <2>4, <2>5, <2>6
<1> QED BY <1>1, <1>2, <1>3

\* On the way to a file there is a child of every folder above it, and of the base
\* directory.
LEMMA ChildTowards ==
    ASSUME NEW version, NEW m \in Nodes, NEW d, d = Base \/ d \in Walked(version, m)
    PROVE  \E c \in Nodes : Parent(version, c) = d /\ (c = m \/ c \in Walked(version, m))
<1> DEFINE T == {x \in {m} \cup Walked(version, m) : d = Base \/ d \in Walked(version, x)}
           S == {Cardinality(Above[x]) : x \in T}
<1>1. m \in T /\ T \subseteq Nodes BY WalkedTree
<1>2. \A x \in T : IsFiniteSet(Above[x]) BY <1>1, AboveFinite
<1>3. S \subseteq Nat /\ S # {} BY <1>1, <1>2, FS_CardinalityType
<1>4. PICK k \in S : \A y \in S : k <= y
  <2> HIDE DEF S
  <2> QED BY <1>3, LeastNumber
<1>5. PICK c \in T : k = Cardinality(Above[c]) BY <1>4
<1> DEFINE p == Parent(version, c)
<1>6. CASE p = Base /\ Walked(version, c) = {}
  BY <1>1, <1>5, <1>6
<1>7. CASE /\ p \in Walked(version, c)
           /\ Walked(version, c) = {p} \cup Walked(version, p)
  <2>1. p \in Walked(version, m) BY <1>1, <1>5, <1>7, WalkedTree
  <2>2. p \in Above[c] BY <1>1, <1>7, WalkedTree
  <2>3. Cardinality(Above[p]) < Cardinality(Above[c]) /\ Cardinality(Above[p]) \in Nat
     /\ Cardinality(Above[c]) \in Nat
    BY <1>1, <2>2, FewerAbove
  <2>4. p \notin T BY <1>4, <1>5, <2>3
  <2>5. d = p BY <1>5, <1>7, <2>1, <2>4
  <2> QED BY <1>1, <1>5, <2>5
<1> QED BY <1>1, <1>6, <1>7, ParentWalked

-----------------------------------------------------------------------------
(* The walk *)

\* What is in a place that is not walked is not walked either.
LEMMA PresentAbove ==
    ASSUME NEW m \in Nodes, Present(m), NEW d \in Above[m]
    PROVE  Present(d)
<1>1. Above[d] \subseteq Above[m] BY ForestAssumption
<1> QED BY <1>1 DEF Present, Under

\* The folders above a file that the walk has come by are behind it, too.
LEMMA SeenAbove ==
    ASSUME NEW m \in Nodes, Seen(m), NEW d \in W(m)
    PROVE  d \in Nodes /\ Seen(d)
<1>1. d \in Above[m] /\ d \in Nodes /\ W(d) \subseteq W(m) BY WalkedTree DEF W
<1>2. Present(d) BY <1>1, PresentAbove DEF Seen
<1>3. d \notin Ahead BY <1>1 DEF Seen, Ahead
<1> QED BY <1>1, <1>2, <1>3 DEF Seen

\* The root directory is in no place that is not walked.
LEMMA RootPresent == Present(Rootfs) /\ Rootfs \in Nodes /\ ~Under(Rootfs, Shadow) /\ W(Rootfs) = {}
<1>1. Above[Rootfs] = {} /\ \A r \in Relocated \cup Shadow : Above[r] = {Rootfs}
  BY ForestAssumption
<1>2. Rootfs \in Nodes BY SkeletonAssumption DEF Nodes
<1>3. ~Under(Rootfs, Shadow) BY <1>1 DEF Under
<1> QED BY <1>1, <1>2, <1>3 DEF Present, W, Walked

\* What enum_directory takes is in front of the walk, the folders above it are open; in
\* the legacy version rootfs was taken before what is beside it.
LEMMA Taken ==
    ASSUME Walking, NEW n \in Nodes, Take(n)
    PROVE  /\ n \in Ahead /\ Present(n) /\ Len(stack) \in DOMAIN stack /\ n \in stack[Len(stack)].left
           /\ Parent(tree.version, n) = stack[Len(stack)].dir
           /\ \A d \in W(n) : Seen(d)
           /\ \A i \in DOMAIN stack : i > 1 => stack[i].dir \in W(n)
           /\ tree.version = "legacy" /\ n \in Relocated => Seen(Rootfs)
<1> DEFINE L == Len(stack)
           top == stack[L]
<1>1. stack \in Seq([dir : Folders \cup {Base}, left : SUBSET Nodes]) /\ stack # <<>>
  BY DEF Walking, Take
<1>2. L \in Nat /\ L \in DOMAIN stack /\ DOMAIN stack = 1 .. L BY <1>1
<1>3. Top = top /\ n \in top.left BY <1>1 DEF Take, Top, Last
<1>4. top.left \subseteq Children(top.dir) /\ (top.dir = Base <=> L = 1) /\ (L > 1 => Seen(top.dir))
  BY <1>2 DEF Walking
<1>5. Present(n) /\ Parent(tree.version, n) = top.dir BY <1>3, <1>4 DEF Children
<1>6. n \in Ahead BY <1>2, <1>3, <1>5 DEF Ahead
<1>7. (L = 1 /\ W(n) = {}) \/ (L > 1 /\ top.dir \in W(n) /\ W(n) = {top.dir} \cup W(top.dir))
  <2>1. CASE top.dir = Base /\ W(n) = {} BY <1>4, <2>1
  <2>2. CASE top.dir \in W(n) /\ W(n) = {top.dir} \cup W(top.dir)
    <3>1. top.dir \in Nodes BY <2>2, WalkedTree DEF W
    <3>2. top.dir # Base BY <3>1, SkeletonAssumption
    <3> QED BY <1>2, <1>4, <2>2, <3>2
  <2> QED BY <1>5, <2>1, <2>2, ParentWalked DEF W
<1>8. ASSUME NEW d \in W(n) PROVE Seen(d)
  <2>1. L > 1 /\ (d = top.dir \/ d \in W(top.dir)) /\ top.dir \in W(n) BY <1>7, <1>8
  <2>2. top.dir \in Nodes BY <2>1, WalkedTree DEF W
  <2> QED BY <1>4, <2>1, <2>2, SeenAbove
<1>9. ASSUME NEW i \in DOMAIN stack, i > 1 PROVE stack[i].dir \in W(n)
  <2>1. CASE i = L BY <1>7, <1>9, <2>1
  <2>2. CASE i < L
    <3>1. stack[i].dir \in W(top.dir) BY <1>2, <1>9, <2>2 DEF Walking
    <3> QED BY <1>2, <1>7, <2>2, <1>9, <3>1
  <2> QED BY <1>2, <2>1, <2>2
<1>10. ASSUME tree.version = "legacy", n \in Relocated PROVE Seen(Rootfs)
  <2>1. Above[n] = {Rootfs} BY <1>10, ForestAssumption
  <2>2. W(n) = {} BY <1>10, <2>1 DEF W, Walked, Under
  <2>3. L = 1 BY <1>7, <2>2
  <2>4. ASSUME Rootfs \in Ahead PROVE FALSE
    <3>1. PICK i \in DOMAIN stack : Rootfs \in stack[i].left BY <2>4, RootPresent DEF Ahead
    <3>2. Rootfs \in top.left BY <1>2, <2>3, <3>1
    <3>3. n = Rootfs BY <1>3, <1>10, <3>2 DEF Take
    <3> QED BY <2>1, <3>3, ForestAssumption
  <2> QED BY <2>4, RootPresent DEF Seen
<1> QED BY <1>2, <1>3, <1>5, <1>6, <1>8, <1>9, <1>10

Advance(n) ==
    stack' = IF n \in Folders THEN Append(Rest(n), [dir |-> n, left |-> Children(n)]) ELSE Rest(n)

\* The directories on the stack after a step.
LEMMA AdvanceStack ==
    ASSUME Walking, NEW n \in Nodes, Take(n), Advance(n)
    PROVE  /\ Len(stack) \in Nat /\ DOMAIN stack = 1 .. Len(stack) /\ Len(stack) > 0
           /\ stack' \in Seq([dir : Folders \cup {Base}, left : SUBSET Nodes])
           /\ DOMAIN stack' = 1 .. IF n \in Folders THEN Len(stack) + 1 ELSE Len(stack)
           /\ \A i \in DOMAIN stack :
                 /\ stack'[i].dir = stack[i].dir
                 /\ stack'[i].left = IF i = Len(stack) THEN stack[i].left \ {n} ELSE stack[i].left
           /\ n \in Folders => /\ stack'[Len(stack) + 1].dir = n
                               /\ stack'[Len(stack) + 1].left = Children(n)
<1> DEFINE L == Len(stack)
           R == [dir : Folders \cup {Base}, left : SUBSET Nodes]
<1>1. stack \in Seq(R) /\ stack # <<>> BY DEF Walking, Take
<1>2. L \in Nat /\ L > 0 /\ DOMAIN stack = 1 .. L BY <1>1
<1>3. stack[L] \in R
  <2> HIDE DEF R
  <2> QED BY <1>1, <1>2
<1>4. [stack[L] EXCEPT !.left = @ \ {n}] \in R BY <1>3
<1>5. Rest(n) = [stack EXCEPT ![L] = [stack[L] EXCEPT !.left = @ \ {n}]] BY DEF Rest
<1>6. Rest(n) \in Seq(R) /\ Len(Rest(n)) = L BY <1>1, <1>2, <1>4, <1>5
<1>7. \A i \in 1 .. L : Rest(n)[i].dir = stack[i].dir
                     /\ Rest(n)[i].left = IF i = L THEN stack[i].left \ {n} ELSE stack[i].left
  BY <1>1, <1>2, <1>3, <1>5, ZenonT(60)
<1>8. [dir |-> n, left |-> Children(n)] \in R \/ n \notin Folders BY DEF Children
<1>9. CASE n \in Folders
  <2>1. stack' = Append(Rest(n), [dir |-> n, left |-> Children(n)]) BY <1>9 DEF Advance
  <2> HIDE DEF R
  <2>2. stack' \in Seq(R) /\ Len(stack') = L + 1 BY <1>6, <1>8, <1>9, <2>1
  <2>3. \A i \in 1 .. L : stack'[i] = Rest(n)[i] BY <1>2, <1>6, <2>1
  <2>4. stack'[L + 1] = [dir |-> n, left |-> Children(n)] BY <1>6, <2>1
  <2>5. DOMAIN stack' = 1 .. L + 1 BY <2>2
  <2>6. \A i \in 1 .. L : /\ stack'[i].dir = stack[i].dir
                          /\ stack'[i].left = IF i = L THEN stack[i].left \ {n} ELSE stack[i].left
    BY <2>3, <1>7
  <2>7. stack'[L + 1].dir = n /\ stack'[L + 1].left = Children(n) BY <2>4
  <2> QED BY <1>2, <1>9, <2>2, <2>5, <2>6, <2>7 DEF R
<1>10. CASE n \notin Folders
  <2>1. stack' = Rest(n) BY <1>10 DEF Advance
  <2>2. stack' \in Seq(R) /\ Len(stack') = L BY <1>6, <2>1
  <2>3. DOMAIN stack' = 1 .. L
    <3> HIDE DEF R
    <3> QED BY <2>2
  <2>4. \A i \in 1 .. L : /\ stack'[i].dir = stack[i].dir
                          /\ stack'[i].left = IF i = L THEN stack[i].left \ {n} ELSE stack[i].left
    BY <2>1, <1>7
  <2> QED BY <1>2, <1>10, <2>2, <2>3, <2>4
<1> QED BY <1>9, <1>10

\* The way of the walk depends on the tree, which stays.
LEMMA SameTree ==
    ASSUME tree' = tree
    PROVE  /\ \A m : (Present(m))' <=> Present(m)
           /\ \A m : (W(m))' = W(m)
           /\ \A d : (Children(d))' = Children(d)
<1>1. \A m : (Present(m))' <=> Present(m) BY DEF Present
<1>2. \A m : (W(m))' = W(m) BY DEF W
<1>3. \A d : (Children(d))' = Children(d) BY DEF Children, Present
<1> QED BY <1>1, <1>2, <1>3

\* A step takes one file from what is to come.  What it leaves behind stays behind:
\* whatever comes from now on is not in a folder that is neither this one nor above it.
LEMMA MoveOn ==
    ASSUME Walking, NEW n \in Nodes, Take(n), Advance(n), tree' = tree
    PROVE  /\ Walking' /\ Ahead' = Ahead \ {n}
           /\ \A m \in Ahead' : \A d \in W(m) : d \in Ahead' \/ d = n \/ d \in W(n)
<1> DEFINE L == Len(stack)
<1>1. /\ L \in Nat /\ DOMAIN stack = 1 .. L /\ L > 0
      /\ stack' \in Seq([dir : Folders \cup {Base}, left : SUBSET Nodes])
      /\ DOMAIN stack' = 1 .. IF n \in Folders THEN L + 1 ELSE L
      /\ \A i \in DOMAIN stack :
            /\ stack'[i].dir = stack[i].dir
            /\ stack'[i].left = IF i = L THEN stack[i].left \ {n} ELSE stack[i].left
      /\ n \in Folders => /\ stack'[L + 1].dir = n
                          /\ stack'[L + 1].left = Children(n)
  BY AdvanceStack
<1>2. /\ \A m : (Present(m))' <=> Present(m)
      /\ \A m : (W(m))' = W(m)
      /\ \A d : (Children(d))' = Children(d)
  BY SameTree
<1>3. /\ n \in Ahead /\ Present(n) /\ n \in stack[L].left
      /\ Parent(tree.version, n) = stack[L].dir
      /\ \A d \in W(n) : Seen(d)
      /\ \A i \in DOMAIN stack : i > 1 => stack[i].dir \in W(n)
  BY Taken
<1>4. \A i \in DOMAIN stack : /\ stack[i].left \subseteq Children(stack[i].dir)
                              /\ stack[i].dir = Base <=> i = 1
                              /\ i > 1 => Seen(stack[i].dir)
  BY DEF Walking
<1>5. \A m \in Nodes : n \in W(m) => n \in Folders
  BY WalkedTree DEF W
<1>6. Ahead' = {m \in Nodes : Present(m) /\ \E i \in DOMAIN stack' : \E x \in stack'[i].left : x = m \/ x \in W(m)}
  BY <1>2 DEF Ahead
<1>7. n \in Folders => \A c \in Children(n) : n \in W(c) /\ W(c) = {n} \cup W(n)
  <2>1. SUFFICES ASSUME n \in Folders, NEW c \in Children(n) PROVE n \in W(c) /\ W(c) = {n} \cup W(n)
    OBVIOUS
  <2>2. n # Base BY SkeletonAssumption
  <2> QED BY <2>1, <2>2, ParentWalked DEF Children, W
<1>8. ASSUME NEW m \in Ahead' PROVE m \in Ahead /\ m # n
  <2>0. PICK i \in DOMAIN stack' : \E x \in stack'[i].left : x = m \/ x \in W(m) BY <1>6, <1>8
  <2>1. PICK x \in stack'[i].left : x = m \/ x \in W(m) BY <2>0
  <2>2. m \in Nodes /\ Present(m) BY <1>6, <1>8
  <2>3. CASE i \in DOMAIN stack
    <3>1. x \in stack[i].left /\ ~(i = L /\ x = n) BY <1>1, <2>1, <2>3
    <3>2. m \in Ahead BY <2>1, <2>2, <2>3, <3>1 DEF Ahead
    <3>3. ASSUME x = n PROVE FALSE
      <4>1. i < L /\ stack[i].dir = stack[L].dir BY <1>1, <1>3, <1>4, <2>3, <3>1, <3>3 DEF Children
      <4>2. i # 1 BY <1>1, <1>4, <4>1
      <4>3. stack[i].dir \in W(stack[L].dir) BY <1>1, <2>3, <4>1, <4>2 DEF Walking
      <4>4. stack[L].dir \in Nodes BY <1>1, <1>3, <4>1, <4>2, WalkedTree DEF W
      <4> QED BY <4>1, <4>3, <4>4, WalkedTree DEF W
    <3>4. ASSUME x \in W(n) PROVE FALSE
      <4>1. x \in Nodes /\ Present(x) BY <1>4, <2>3, <3>1 DEF Children
      <4>2. x \in Ahead BY <2>3, <3>1, <4>1 DEF Ahead
      <4> QED BY <1>3, <3>4, <4>2 DEF Seen
    <3> QED BY <2>1, <3>2, <3>3, <3>4
  <2>4. CASE i \notin DOMAIN stack
    <3>1. n \in Folders /\ x \in Children(n) BY <1>1, <2>1, <2>4
    <3>2. n \in W(x) BY <1>7, <3>1
    <3>3. n \in W(m) BY <2>1, <2>2, <3>2, WalkedTree DEF W
    <3>4. n # m BY <2>2, <3>3, WalkedTree DEF W
    <3>5. m \in Ahead BY <1>1, <1>3, <2>2, <3>3 DEF Ahead
    <3> QED BY <3>4, <3>5
  <2> QED BY <2>3, <2>4
<1>9. ASSUME NEW m \in Ahead, m # n PROVE m \in Ahead'
  <2>0. PICK i \in DOMAIN stack : \E x \in stack[i].left : x = m \/ x \in W(m) BY <1>9 DEF Ahead
  <2>1. PICK x \in stack[i].left : x = m \/ x \in W(m) BY <2>0
  <2>2. m \in Nodes /\ Present(m) BY <1>9 DEF Ahead
  <2>3. CASE i # L \/ x # n
    <3>1. i \in DOMAIN stack' BY <1>1
    <3>2. x \in stack'[i].left BY <1>1, <2>1, <2>3
    <3> QED BY <1>6, <2>1, <2>2, <3>1, <3>2
  <2>4. CASE i = L /\ x = n
    <3>1. n \in W(m) /\ n \in Folders BY <1>5, <1>9, <2>1, <2>2, <2>4
    <3>2. PICK c \in Nodes : Parent(tree.version, c) = n /\ (c = m \/ c \in W(m))
      BY <2>2, <3>1, ChildTowards DEF W
    <3>3. Present(c) BY <2>2, <3>2, PresentAbove, WalkedTree DEF W
    <3>4. c \in Children(n) BY <3>2, <3>3 DEF Children
    <3>5. L + 1 \in DOMAIN stack' /\ c \in stack'[L + 1].left BY <1>1, <3>1, <3>4
    <3> QED BY <1>6, <2>2, <3>2, <3>5
  <2> QED BY <2>3, <2>4
<1>10. Ahead' = Ahead \ {n} BY <1>8, <1>9
<1>11. ASSUME NEW m \in Ahead', NEW d \in W(m), d \notin Ahead' PROVE d = n \/ d \in W(n)
  <2>0. PICK i \in DOMAIN stack' : \E x \in stack'[i].left : x = m \/ x \in W(m) BY <1>6, <1>11
  <2>1. PICK x \in stack'[i].left : x = m \/ x \in W(m) BY <2>0
  <2>2. m \in Nodes /\ Present(m) BY <1>6, <1>11
  <2>3. d \in Nodes /\ Present(d) BY <2>2, <1>11, PresentAbove, WalkedTree DEF W
  <2>4. x # d /\ x \notin W(d) BY <1>6, <1>11, <2>1, <2>3
  <2>5. x \in Nodes /\ d \in W(x)
    <3>1. x \in Nodes BY <2>1, <2>2, WalkedTree DEF W
    <3>2. x = m \/ d \in W(x) BY <1>11, <2>1, <2>2, <2>4, WalkedTree DEF W
    <3> QED BY <1>11, <3>1, <3>2
  <2>6. CASE i \in DOMAIN stack
    <3>1. Parent(tree.version, x) = stack[i].dir BY <1>1, <1>4, <2>1, <2>6 DEF Children
    <3>2. stack[i].dir \in W(x) /\ W(x) = {stack[i].dir} \cup W(stack[i].dir)
      BY <2>5, <3>1, ParentWalked DEF W
    <3>3. stack[i].dir \in Nodes
      <4>1. W(x) \subseteq Nodes BY ONLY <2>5, WalkedTree DEF W
      <4> QED BY ONLY <3>2, <4>1
    <3>4. i > 1 BY <1>1, <1>4, <2>6, <3>3, SkeletonAssumption
    <3>5. stack[i].dir \in W(n) BY <1>3, <2>6, <3>4
    <3> QED BY <2>5, <3>2, <3>5, WalkedTree DEF W
  <2>7. CASE i \notin DOMAIN stack
    <3>1. n \in Folders /\ x \in Children(n) BY <1>1, <2>1, <2>7
    <3> QED BY <1>7, <2>5, <3>1
  <2> QED BY <2>6, <2>7
<1>12. \A m : Seen(m) => (Seen(m))' BY <1>2, <1>10 DEF Seen
<1>13. (Seen(n))' BY <1>2, <1>3, <1>10 DEF Seen
<1>14. Walking'
  <2>1. ASSUME NEW i \in DOMAIN stack'
        PROVE  /\ stack'[i].left \subseteq Children(stack'[i].dir)
               /\ stack'[i].dir = Base <=> i = 1
               /\ i > 1 => (Seen(stack[i].dir))'
    <3>1. CASE i \in DOMAIN stack BY <1>1, <1>4, <1>12, <3>1
    <3>2. CASE i \notin DOMAIN stack
      <4>1. n \in Folders /\ i = L + 1 BY <1>1, <2>1, <3>2
      <4>2. n # Base BY SkeletonAssumption
      <4> QED BY <1>1, <1>13, <4>1, <4>2
    <3> QED BY <3>1, <3>2
  <2>2. ASSUME NEW i \in DOMAIN stack', NEW j \in DOMAIN stack', 1 < i, i < j
        PROVE  stack'[i].dir \in W(stack'[j].dir)
    <3>1. i \in DOMAIN stack BY <1>1, <2>2
    <3>2. CASE j \in DOMAIN stack BY <1>1, <2>2, <3>1, <3>2 DEF Walking
    <3>3. CASE j \notin DOMAIN stack
      <4>1. n \in Folders /\ j = L + 1 BY <1>1, <2>2, <3>3
      <4> QED BY <1>1, <1>3, <2>2, <3>1, <4>1
    <3> QED BY <3>2, <3>3
  <2> QED BY <1>1, <1>2, <2>1, <2>2 DEF Walking
<1> QED BY <1>10, <1>11, <1>14

\* A directory with nothing left in it is left without passing over anything.
LEMMA MoveBack ==
    ASSUME Walking, stack # <<>>, Top.left = {}, stack' = Front(stack), tree' = tree
    PROVE  Walking' /\ Ahead' = Ahead /\ (Len(stack) > 1 \/ stack' = <<>>)
<1> DEFINE L == Len(stack)
           R == [dir : Folders \cup {Base}, left : SUBSET Nodes]
<1>1. stack \in Seq(R) BY DEF Walking
<1>2. L \in Nat /\ L > 0 /\ DOMAIN stack = 1 .. L BY <1>1
<1>3. stack[L].left = {} BY <1>2 DEF Top, Last
<1>4. /\ stack' \in Seq(R) /\ Len(stack') = L - 1 /\ DOMAIN stack' = 1 .. L - 1
      /\ \A i \in 1 .. L - 1 : stack'[i] = stack[i]
  <2> HIDE DEF R
  <2> QED BY <1>1, <1>2 DEF Front
<1>5. /\ \A m : (Present(m))' <=> Present(m)
      /\ \A m : (W(m))' = W(m)
      /\ \A d : (Children(d))' = Children(d)
  BY SameTree
<1>6. Ahead' = {m \in Nodes : Present(m) /\ \E i \in DOMAIN stack' : \E x \in stack'[i].left : x = m \/ x \in W(m)}
  BY <1>5 DEF Ahead
<1>7. ASSUME NEW i \in DOMAIN stack, NEW x \in stack[i].left
      PROVE  i \in DOMAIN stack' /\ stack'[i].left = stack[i].left
  <2>1. i # L BY <1>3, <1>7
  <2> QED BY <1>2, <1>4, <1>7, <2>1
<1>8. Ahead \subseteq Ahead' BY <1>6, <1>7 DEF Ahead
<1>9. \A i \in DOMAIN stack' : i \in DOMAIN stack /\ stack'[i] = stack[i] BY <1>2, <1>4
<1>10. Ahead' \subseteq Ahead BY <1>6, <1>9 DEF Ahead
<1>11. Ahead' = Ahead BY <1>8, <1>10
<1>12. \A m : (Seen(m))' <=> Seen(m) BY <1>5, <1>11 DEF Seen
<1>13. Walking' BY <1>4, <1>5, <1>9, <1>12 DEF Walking
<1>14. L > 1 \/ stack' = <<>>
  <2> HIDE DEF R
  <2> QED BY <1>2, <1>4
<1> QED BY <1>11, <1>13, <1>14

\* What does not move the walk leaves its place alone.
LEMMA StandStill ==
    ASSUME UNCHANGED <<tree, stack>>
    PROVE  (Walking => Walking') /\ Ahead' = Ahead /\ \A m : (Seen(m))' <=> Seen(m)
<1>1. /\ \A m : (Present(m))' <=> Present(m)
      /\ \A m : (W(m))' = W(m)
      /\ \A d : (Children(d))' = Children(d)
  BY SameTree
<1>2. Ahead' = Ahead BY <1>1 DEF Ahead
<1>3. \A m : (Seen(m))' <=> Seen(m) BY <1>1, <1>2 DEF Seen
<1> QED BY <1>1, <1>2, <1>3 DEF Walking

\* In front of the walk is everything; at its end there is nothing.
LEMMA WalkStarts ==
    ASSUME stack = <<[dir |-> Base, left |-> Children(Base)]>>
    PROVE  Walking /\ Ahead = {n \in Nodes : Present(n)}
<1> DEFINE first == [dir |-> Base, left |-> Children(Base)]
           R == [dir : Folders \cup {Base}, left : SUBSET Nodes]
<1>1. first \in R BY DEF Children
<1>2. stack \in Seq(R) /\ DOMAIN stack = {1} /\ stack[1].dir = Base /\ stack[1].left = Children(Base)
  <2>1. stack = <<first>> OBVIOUS
  <2>2. stack \in Seq(R) /\ DOMAIN stack = {1} /\ stack[1] = first
    <3> HIDE DEF R, first
    <3> QED BY <1>1, <2>1
  <2> QED BY <2>2
<1>3. Walking
  <2> HIDE DEF R
  <2>1. \A i \in DOMAIN stack : i = 1 BY <1>2
  <2>2. ~(1 > 1) OBVIOUS
  <2> QED BY <1>2, <2>1, <2>2 DEF Walking, R
<1>4. ASSUME NEW n \in Nodes, Present(n) PROVE n \in Ahead
  <2>1. PICK c \in Nodes : Parent(tree.version, c) = Base /\ (c = n \/ c \in W(n))
    BY ChildTowards DEF W
  <2>2. Present(c) BY <1>4, <2>1, PresentAbove, WalkedTree DEF W
  <2>3. c \in stack[1].left /\ 1 \in DOMAIN stack BY <1>2, <2>1, <2>2 DEF Children
  <2> QED BY <1>4, <2>1, <2>3 DEF Ahead
<1> QED BY <1>3, <1>4 DEF Ahead

LEMMA WalkEnds == stack = <<>> => Ahead = {}
BY DEF Ahead

-----------------------------------------------------------------------------
(* What the operations of a writer do *)

\* The folders that stay on the stack of deferred attributes are the first ones, up to
\* the last that the new folder is in.
LEMMA LeavingLast ==
    ASSUME NEW w, w.deferred \in Seq(Folders), NEW n
    PROVE  /\ Leaving(w, n) \in 0 .. Len(w.deferred)
           /\ Leaving(w, n) > 0 => w.deferred[Leaving(w, n)] \in Above[n] \cup {n}
           /\ \A i \in DOMAIN w.deferred : i > Leaving(w, n) => w.deferred[i] \notin Above[n] \cup {n}
<1> DEFINE s == w.deferred
           k == Leaving(w, n)
           I == {i \in 1 .. Len(s) : s[i] = n \/ s[i] \in Above[n]}
           F == {Len(s) - i : i \in I}
<1>1. Len(s) \in Nat /\ DOMAIN s = 1 .. Len(s) OBVIOUS
<1>2. k = IF I # {} THEN Max(I) ELSE 0 BY DEF Leaving, SelectLastInSeq
<1>3. CASE I = {} BY <1>1, <1>2, <1>3
<1>4. CASE I # {}
  <2>0. I \subseteq 1 .. Len(s) OBVIOUS
  <2>1. F \subseteq Nat /\ F # {}
    <3>1. Len(s) \in Nat /\ \A i \in I : i \in 1 .. Len(s) BY <1>1, <2>0
    <3>2. \A i \in I : Len(s) - i \in Nat
      <4> HIDE DEF I, s
      <4> QED BY <3>1
    <3> HIDE DEF I, s
    <3> QED BY <1>4, <3>2
  <2>2. PICK y \in F : \A z \in F : y <= z
    <3> HIDE DEF F
    <3> QED BY <2>1, LeastNumber
  <2>3. PICK x \in I : y = Len(s) - x BY <2>2
  <2>4. \A i \in I : x >= i
    <3>1. \A i \in I : y <= Len(s) - i BY <2>2
    <3> HIDE DEF I, s
    <3> QED BY <1>1, <2>0, <2>3, <3>1
  <2>5. k = CHOOSE z \in I : \A i \in I : z >= i BY <1>2, <1>4 DEF Max
  <2>6. k \in I /\ \A i \in I : k >= i
    <3> HIDE DEF I, k
    <3> QED BY <2>4, <2>5
  <2> QED BY <1>1, <2>6
<1> QED BY <1>3, <1>4

\* A writer whose stack of folders is replaced.
LEMMA FolderAttrDoes ==
    ASSUME NEW w \in Writers, Nested(w.deferred), NEW n \in Folders, target = "v2" => n \notin Pile(w),
           NEW v, v = FolderAttr(w, n)
    PROVE  /\ v \in Writers /\ Nested(v.deferred)
           /\ v.made = w.made /\ v.ignored = w.ignored /\ v.entries = w.entries /\ v.error = w.error
           /\ target = "v2" => /\ Pile(v) = {d \in Pile(w) : d \in Above[n]} \cup {n}
                               /\ v.settled = w.settled \cup {d \in Pile(w) : d \notin Above[n]}
           /\ target # "v2" => v.deferred = w.deferred /\ v.settled = w.settled \cup {n}
<1>1. CASE target # "v2"
  <2>1. v = [w EXCEPT !.settled = @ \cup {n}] BY <1>1 DEF FolderAttr
  <2> QED BY <1>1, <2>1, ZenonT(60) DEF Writers
<1>2. CASE target = "v2"
  <2> DEFINE s == w.deferred
             k == Leaving(w, n)
             t == Append(SubSeq(s, 1, k), n)
             G == {s[i] : i \in k + 1 .. Len(s)}
  <2>1. s \in Seq(Folders) /\ Len(s) \in Nat /\ DOMAIN s = 1 .. Len(s) BY DEF Writers
  <2>2. /\ k \in 0 .. Len(s)
        /\ k > 0 => s[k] \in Above[n] \cup {n}
        /\ \A i \in DOMAIN s : i > k => s[i] \notin Above[n] \cup {n}
    BY <2>1, LeavingLast
  <2>3. v = [w EXCEPT !.deferred = t, !.settled = @ \cup G]
    BY <1>2 DEF FolderAttr
  <2>4. \A i \in 1 .. Len(s) : s[i] \in Folders /\ s[i] \in Pile(w) /\ s[i] # n /\ s[i] \in Nodes
    BY <1>2, <2>1 DEF Pile, Nodes
  <2>5. n \in Nodes BY DEF Nodes
  <2>6. \A i \in 1 .. k : s[i] \in Above[n]
    <3>1. SUFFICES ASSUME NEW i \in 1 .. k PROVE s[i] \in Above[n] OBVIOUS
    <3>2. s[k] \in Above[n] BY <2>1, <2>2, <2>4, <3>1
    <3>3. i = k \/ s[i] \in Above[s[k]] BY <2>1, <2>2, <3>1 DEF Nested
    <3> QED BY <2>5, <3>2, <3>3, ForestAssumption
  <2>7. SubSeq(s, 1, k) \in Seq(Folders) /\ Len(SubSeq(s, 1, k)) = k
     /\ \A i \in 1 .. k : SubSeq(s, 1, k)[i] = s[i]
    <3> HIDE DEF k, s
    <3> QED BY <2>1, <2>2
  <2>8. t \in Seq(Folders) /\ DOMAIN t = 1 .. k + 1 /\ t[k + 1] = n /\ \A i \in 1 .. k : t[i] = s[i]
    <3> DEFINE u == SubSeq(s, 1, k)
    <3>1. t = Append(u, n) OBVIOUS
    <3>2. u \in Seq(Folders) /\ Len(u) = k /\ \A i \in 1 .. k : u[i] = s[i] BY <2>7
    <3>3. k \in Nat BY <2>1, <2>2
    <3> HIDE DEF u, k, t, s
    <3> QED BY <3>1, <3>2, <3>3
  <2>9. G \subseteq Folders BY <2>1, <2>2, <2>4
  <2>10. v \in Writers /\ v.made = w.made /\ v.ignored = w.ignored /\ v.entries = w.entries /\ v.error = w.error
      /\ v.deferred = t /\ v.settled = w.settled \cup G
    <3> HIDE DEF t, G
    <3> QED BY <2>3, <2>8, <2>9 DEF Writers
  <2>11. Nested(t)
    <3>1. SUFFICES ASSUME NEW i \in 1 .. k + 1, NEW j \in 1 .. k + 1, i < j PROVE t[i] \in Above[t[j]]
      <4> HIDE DEF t
      <4> QED BY <2>8 DEF Nested
    <3>2. i \in 1 .. k /\ t[i] = s[i] BY <2>2, <2>8, <3>1
    <3>3. CASE j \in 1 .. k
      <4>1. i \in DOMAIN s /\ j \in DOMAIN s BY <2>1, <2>2, <3>2, <3>3
      <4>2. s[i] \in Above[s[j]] BY <3>1, <4>1 DEF Nested
      <4> HIDE DEF t
      <4> QED BY <2>8, <3>2, <3>3, <4>2
    <3>4. CASE j = k + 1 BY <2>6, <2>8, <3>2, <3>4
    <3> QED BY <2>2, <3>3, <3>4
  <2>12. G = {d \in Pile(w) : d \notin Above[n]}
    <3>1. \A i \in k + 1 .. Len(s) : i \in DOMAIN s /\ i > k BY <2>1, <2>2
    <3>2. \A i \in DOMAIN s : i \in 1 .. k \/ i \in k + 1 .. Len(s) BY <2>1, <2>2
    <3> QED BY <2>2, <2>6, <3>1, <3>2 DEF Pile
  <2>13. {t[i] : i \in DOMAIN t} = {d \in Pile(w) : d \in Above[n]} \cup {n}
    <3>1. \A i \in 1 .. k : i \in DOMAIN s /\ s[i] \in Pile(w) BY <2>1, <2>2, <2>4
    <3>2. \A i \in DOMAIN s : s[i] \in Above[n] => i \in 1 .. k BY <2>1, <2>2
    <3>3. \A i \in DOMAIN t : t[i] \in {d \in Pile(w) : d \in Above[n]} \cup {n}
      <4> HIDE DEF t
      <4> QED BY <2>2, <2>6, <2>8, <3>1
    <3>4. \A d \in Pile(w) : d \in Above[n] => \E i \in DOMAIN t : t[i] = d
      <4> HIDE DEF t
      <4>1. SUFFICES ASSUME NEW i \in DOMAIN s, s[i] \in Above[n] PROVE \E j \in DOMAIN t : t[j] = s[i]
        BY DEF Pile
      <4> QED BY <2>2, <2>8, <3>2, <4>1
    <3>5. \E i \in DOMAIN t : t[i] = n
      <4> HIDE DEF t
      <4> QED BY <2>2, <2>8
    <3> HIDE DEF t
    <3> QED BY <3>3, <3>4, <3>5
  <2> HIDE DEF t, G
  <2> QED BY <1>2, <2>10, <2>11, <2>12, <2>13 DEF Pile
<1> QED BY <1>1, <1>2

\* What a file that appears in the tree changes.
LEMMA PutDoes ==
    ASSUME NEW w \in Writers, NEW n \in Nodes, NEW m \in Nodes \cup {Old}, NEW v, v = Put(w, n, m)
    PROVE  /\ v \in Writers /\ v.deferred = w.deferred
           /\ v.made = [w.made EXCEPT ![n] = m]
           /\ v.ignored = w.ignored /\ v.entries = w.entries /\ v.error = w.error
           /\ v.settled = IF target = "v2" THEN w.settled \ {Parent(target, n)} ELSE w.settled
BY DEF Put, Writers

(* The attributes of folders, in a step that puts a file into its folder: those that
   have theirs keep them but for this folder, those on the stack stay there or get theirs
   if the new file is not in them. *)
Attributed(w, v, n) ==
    /\ v.settled \subseteq w.settled \cup {d \in Pile(w) : d \notin Above[n]} \cup {d \in {n} : target # "v2"}
    /\ Pile(v) \subseteq Pile(w) \cup {n}
    /\ Pile(w) \subseteq v.settled \cup Pile(v)
    /\ \A d \in w.settled : d \in v.settled \/ (target = "v2" /\ d = Parent(target, n))

Landed(w, v, n, m) ==
    /\ v \in Writers /\ Nested(v.deferred) /\ Attributed(w, v, n)
    /\ v.made = [w.made EXCEPT ![n] = m]
    /\ v.ignored = w.ignored /\ v.entries = w.entries /\ v.error = w.error

\* In a file system, write_new_file passes a file over, fails for one of three causes, or
\* makes it; the folder it makes has attributes or waits for them.
LEMMA NewFileDoes ==
    ASSUME NEW w \in Writers, Nested(w.deferred), target \in Versions, NEW n \in Nodes, target = "v2" => n \notin Pile(w),
           NEW type, NEW v, v = NewFile(w, n, type)
    PROVE  \/ ~Supported(type) /\ v = [w EXCEPT !.ignored = @ \cup {n}]
           \/ /\ Supported(type) /\ v = Failed(w)
              /\ \/ ~There(w, Parent(target, n))
                 \/ n \in Folders /\ type = "none"
                 \/ n \in Files /\ There(w, n)
           \/ /\ Supported(type) /\ There(w, Parent(target, n))
              /\ n \in Files => ~There(w, n) /\ Landed(w, v, n, n)
              /\ n \in Folders => /\ type # "none" /\ n \in v.settled \cup Pile(v)
                                  /\ Landed(w, v, n, IF There(w, n) THEN w.made[n] ELSE n)
<1>7. PICK x : x = Put(w, n, n) OBVIOUS
<1>8. /\ x \in Writers /\ x.deferred = w.deferred
      /\ x.made = [w.made EXCEPT ![n] = n]
      /\ x.ignored = w.ignored /\ x.entries = w.entries /\ x.error = w.error
      /\ x.settled = IF target = "v2" THEN w.settled \ {Parent(target, n)} ELSE w.settled
  BY <1>7 DEF Put, Writers
<1> DEFINE p == Parent(target, n)
<1>0. target # "archive" BY DEF Versions
<1>1. CASE ~Supported(type) BY <1>1 DEF NewFile
<1>2. CASE Supported(type) /\ ~There(w, p) BY <1>0, <1>2 DEF NewFile
<1>3. CASE Supported(type) /\ There(w, p) /\ n \in Folders /\ type = "none"
  BY <1>0, <1>3 DEF NewFile
<1>4. CASE Supported(type) /\ There(w, p) /\ n \in Folders /\ type # "none"
  <2> DEFINE u == IF There(w, n) THEN w ELSE Put(w, n, n)
             file == IF There(w, n) THEN w.made[n] ELSE n
  <2>1. v = FolderAttr(u, n) BY <1>0, <1>4 DEF NewFile
  <2>2. /\ u \in Writers /\ u.deferred = w.deferred /\ u.made = [w.made EXCEPT ![n] = file]
        /\ u.ignored = w.ignored /\ u.entries = w.entries /\ u.error = w.error
        /\ u.settled = w.settled \/ (target = "v2" /\ u.settled = w.settled \ {p})
    <3>1. CASE There(w, n)
      <4>1. w.made \in [Nodes -> Nodes \cup {Nothing, Old}] BY DEF Writers
      <4>2. w.made = [w.made EXCEPT ![n] = w.made[n]] BY <4>1
      <4> QED BY <3>1, <4>2
    <3>2. CASE ~There(w, n)
      BY <3>2, <1>7, <1>8
    <3> QED BY <3>1, <3>2
  <2>3. Pile(u) = Pile(w) BY <2>2 DEF Pile
  <2> HIDE DEF u
  <2>4. /\ v \in Writers /\ Nested(v.deferred)
        /\ v.made = u.made /\ v.ignored = u.ignored /\ v.entries = u.entries /\ v.error = u.error
        /\ target = "v2" => /\ Pile(v) = {d \in Pile(u) : d \in Above[n]} \cup {n}
                            /\ v.settled = u.settled \cup {d \in Pile(u) : d \notin Above[n]}
        /\ target # "v2" => v.deferred = u.deferred /\ v.settled = u.settled \cup {n}
    BY <1>4, <2>1, <2>2, <2>3, FolderAttrDoes
  <2>5. target # "v2" => Pile(v) = Pile(u) BY <2>4 DEF Pile
  <2>6. Attributed(w, v, n) /\ n \in v.settled \cup Pile(v)
    BY <2>2, <2>3, <2>4, <2>5 DEF Attributed
  <2>7. Landed(w, v, n, file) BY <2>2, <2>4, <2>6 DEF Landed
  <2>8. n \notin Files BY <1>4, SkeletonAssumption
  <2> QED BY <1>4, <2>6, <2>7, <2>8
<1>5. CASE Supported(type) /\ There(w, p) /\ n \notin Folders /\ There(w, n)
  BY <1>0, <1>5 DEF NewFile, Nodes
<1>6. CASE Supported(type) /\ There(w, p) /\ n \notin Folders /\ ~There(w, n)
  <2>1. v = Put(w, n, n) BY <1>0, <1>6 DEF NewFile
  <2>2. /\ v \in Writers /\ v.deferred = w.deferred /\ v.made = [w.made EXCEPT ![n] = n]
        /\ v.ignored = w.ignored /\ v.entries = w.entries /\ v.error = w.error
        /\ v.settled = IF target = "v2" THEN w.settled \ {Parent(target, n)} ELSE w.settled
    BY <1>7, <1>8, <2>1
  <2>3. Pile(v) = Pile(w) BY <2>2 DEF Pile
  <2> QED BY <1>6, <2>2, <2>3 DEF Landed, Attributed
<1> QED BY <1>1, <1>2, <1>3, <1>4, <1>5, <1>6

\* write_hard_link passes over what belongs to an ignored file, fails for one of three
\* causes, or makes another name for the file.
LEMMA HardLinkDoes ==
    ASSUME NEW w \in Writers, Nested(w.deferred), target \in Versions, NEW n \in Nodes, NEW m \in Nodes,
           NEW v, v = HardLink(w, n, m)
    PROVE  \/ m \in w.ignored /\ v = [w EXCEPT !.ignored = @ \cup {n}]
           \/ /\ m \notin w.ignored /\ v = Failed(w)
              /\ ~There(w, m) \/ There(w, n) \/ ~There(w, Parent(target, n))
           \/ /\ m \notin w.ignored /\ There(w, m) /\ Landed(w, v, n, w.made[m])
              /\ There(w, Parent(target, n)) /\ ~There(w, n)
<1>0. target # "archive" BY DEF Versions
<1>1. CASE m \in w.ignored BY <1>1 DEF HardLink
<1>2. CASE m \notin w.ignored /\ (~There(w, m) \/ There(w, n) \/ ~There(w, Parent(target, n)))
  BY <1>0, <1>2 DEF HardLink
<1>3. CASE m \notin w.ignored /\ There(w, m) /\ ~There(w, n) /\ There(w, Parent(target, n))
  <2>1. v = Put(w, n, w.made[m]) BY <1>0, <1>3 DEF HardLink
  <2>2. m # Base BY SkeletonAssumption
  <2>3. w.made[m] \in Nodes \cup {Old} BY <1>3, <2>2 DEF Writers, There
  <2>4. /\ v \in Writers /\ v.deferred = w.deferred /\ v.made = [w.made EXCEPT ![n] = w.made[m]]
        /\ v.ignored = w.ignored /\ v.entries = w.entries /\ v.error = w.error
        /\ v.settled = IF target = "v2" THEN w.settled \ {Parent(target, n)} ELSE w.settled
    BY <2>1, <2>3, PutDoes
  <2>5. Pile(v) = Pile(w) BY <2>4 DEF Pile
  <2> QED BY <1>3, <2>4, <2>5 DEF Landed, Attributed
<1> QED BY <1>1, <1>2, <1>3

\* What a writer that passes over a file, one that fails, and one that adds an entry have.
LEMMA WriterKinds ==
    ASSUME NEW w \in Writers
    PROVE  /\ Failed(w) \in Writers /\ Failed(w).error
           /\ Failed(w).made = w.made /\ Failed(w).settled = w.settled /\ Failed(w).deferred = w.deferred
           /\ Failed(w).ignored = w.ignored /\ Failed(w).entries = w.entries
           /\ \A n \in Nodes : LET v == [w EXCEPT !.ignored = @ \cup {n}]
                               IN  /\ v \in Writers /\ v.ignored = w.ignored \cup {n}
                                   /\ v.made = w.made /\ v.settled = w.settled /\ v.deferred = w.deferred
                                   /\ v.entries = w.entries /\ v.error = w.error
BY DEF Failed, Writers

-----------------------------------------------------------------------------
(* A step that handles one file, in either pass *)

\* What has to be copied depends on the tree and the pass.
LEMMA SamePass ==
    ASSUME UNCHANGED <<tree, pass, target>>
    PROVE  /\ \A m : (Kept(m))' <=> Kept(m)
           /\ \A m : (InPlace(m))' <=> InPlace(m)
           /\ \A m : (Present(m))' <=> Present(m)
           /\ \A m : (W(m))' = W(m)
           /\ \A m : (Links(m))' = Links(m)
           /\ \A m : (Exempt(m))' <=> Exempt(m)
           /\ Archived' <=> Archived
<1>1. \A m : (Present(m))' <=> Present(m) BY DEF Present
<1>2. Archived' <=> Archived BY DEF Archived
<1>3. \A m : (Kept(m))' <=> Kept(m) BY <1>1, <1>2 DEF Kept
<1>4. \A m : (InPlace(m))' <=> InPlace(m) BY <1>2 DEF InPlace
<1>5. \A m : (Exempt(m))' <=> Exempt(m) BY DEF Exempt
<1>6. \A m : (W(m))' = W(m) BY DEF W
<1>7. \A m : (Links(m))' = Links(m) BY DEF Links
<1> QED BY <1>1, <1>2, <1>3, <1>4, <1>5, <1>6, <1>7

\* Parent leads to a folder above a file, if it is not the base directory.
LEMMA ParentOf ==
    ASSUME NEW version, NEW n \in Nodes
    PROVE  \/ Parent(version, n) = Base
           \/ /\ Parent(version, n) \in Above[n] /\ Parent(version, n) \in Walked(version, n)
              /\ Parent(version, n) \in Nodes /\ Parent(version, n) \in Folders
BY ParentWalked, WalkedTree

Handled(n) ==
    /\ n \in Waiting /\ Waiting' = Waiting \ {n}
    /\ UNCHANGED <<tree, pass, target>>
    /\ target \in Versions /\ ~writer.error /\ phase \in {"walk", "extract"}

\* A folder that has its attributes keeps them when another file is put somewhere.
LEMMA SettledStep ==
    ASSUME writer \in Writers, Reached, Firm, NEW n \in Nodes, Handled(n),
           Attributed(writer, writer', n),
           ~writer'.error /\ n \in Folders /\ Kept(n) => n \in writer'.settled \cup Pile(writer'),
           target = "v2" => \A d \in Deferred : ~Exempt(d) /\ d \notin Above[n] =>
                               \A m \in Waiting' : d \notin Above[m]
    PROVE  /\ Reached' /\ Firm'
           /\ \A d \in writer.settled : ~Exempt(d) => d \in writer'.settled
<1>1. /\ \A m : (Kept(m))' <=> Kept(m)
      /\ \A m : (Exempt(m))' <=> Exempt(m)
  BY SamePass DEF Handled
<1>2. Deferred = Pile(writer) /\ Deferred' = Pile(writer') BY DEF Deferred, Pile
<1>3. target = "v2" =>
         /\ \A d \in writer.settled \cup Deferred : d \notin Waiting
         /\ \A d \in writer.settled : ~Exempt(d) => \A m \in Waiting : d \notin Above[m]
  BY DEF Firm, Handled
<1>4. ASSUME NEW d \in writer.settled, ~Exempt(d) PROVE d \in writer'.settled
  <2>1. d \in Folders /\ d # Base BY <1>4, SkeletonAssumption DEF Writers, Nodes
  <2>2. CASE target = "v2" /\ d = Parent(target, n)
    <3>1. d \in Above[n] BY <2>1, <2>2, ParentOf
    <3> QED BY <1>3, <1>4, <2>2, <3>1 DEF Handled
  <2> QED BY <1>4, <2>2 DEF Attributed
<1>5. Reached'
  <2>1. SUFFICES ASSUME ~writer'.error, NEW d \in Folders, Kept(d), d \notin Waiting', ~Exempt(d)
                 PROVE  d \in writer'.settled \cup Pile(writer')
    BY <1>1, <1>2 DEF Reached
  <2>2. CASE d = n BY <2>1, <2>2
  <2>3. CASE d # n
    <3>1. d \notin Waiting BY <2>1, <2>3 DEF Handled
    <3>2. d \in writer.settled \cup Pile(writer) BY <1>2, <2>1, <3>1 DEF Reached, Handled
    <3> QED BY <1>4, <2>1, <3>2 DEF Attributed
  <2> QED BY <2>2, <2>3
<1>6. Firm'
  <2>1. SUFFICES ASSUME target = "v2"
                 PROVE  /\ \A d \in writer'.settled \cup Pile(writer') : d \notin Waiting'
                        /\ \A d \in writer'.settled : ~Exempt(d) => \A m \in Waiting' : d \notin Above[m]
    BY <1>1, <1>2 DEF Firm, Handled
  <2>2. ASSUME NEW d \in writer'.settled \cup Pile(writer') PROVE d \notin Waiting'
    <3>1. d \in writer.settled \cup Pile(writer) \/ d = n BY <2>2 DEF Attributed
    <3> QED BY <1>2, <1>3, <2>1, <3>1 DEF Handled
  <2>3. ASSUME NEW d \in writer'.settled, ~Exempt(d), NEW m \in Waiting' PROVE d \notin Above[m]
    <3>1. d \in writer.settled \/ (d \in Deferred /\ d \notin Above[n]) BY <1>2, <2>1, <2>3 DEF Attributed
    <3> QED BY <1>3, <2>1, <2>3, <3>1 DEF Handled
  <2> QED BY <2>2, <2>3
<1> QED BY <1>4, <1>5, <1>6

\* One file is added to what the tree has so far.
LEMMA CopiedStep ==
    ASSUME writer \in Writers, Copied, NEW n \in Nodes, Handled(n),
           \A m \in Files : Kept(m) /\ m \notin Waiting => (Same(m))' = Same(m),
           ~writer'.error =>
              /\ \A m \in Nodes : m # n => writer'.made[m] = writer.made[m]
              /\ pass = "install" => writer'.made[n] # Old
              /\ IF Kept(n) THEN IF n \in Folders THEN writer'.made[n] # Nothing
                                                  ELSE writer'.made[n] = (Same(n))'
                 ELSE writer'.made[n] \in {Nothing, Old}
    PROVE  Copied'
<1>1. \A m : (Kept(m))' <=> Kept(m) BY SamePass DEF Handled
<1>2. SUFFICES ASSUME ~writer'.error, NEW m \in Nodes
               PROVE  /\ pass = "install" => writer'.made[m] # Old
                      /\ IF Kept(m) /\ m \notin Waiting'
                         THEN IF m \in Folders THEN writer'.made[m] # Nothing ELSE writer'.made[m] = (Same(m))'
                         ELSE writer'.made[m] \in {Nothing, Old}
  BY <1>1 DEF Copied, Handled
<1>3. CASE m = n BY <1>2, <1>3 DEF Handled
<1>4. CASE m # n
  <2>1. writer'.made[m] = writer.made[m] /\ (m \in Waiting' <=> m \in Waiting) BY <1>2, <1>4 DEF Handled
  <2>2. m \in Files \/ m \in Folders BY DEF Nodes
  <2> QED BY <1>2, <2>1, <2>2 DEF Copied, Handled
<1> QED BY <1>3, <1>4

-----------------------------------------------------------------------------
(* The walk: copying to another tree *)

\* A file is one of several links exactly if its count of links says so.
LEMMA Counted ==
    ASSUME NEW f \in Files
    PROVE  f \in Links(f) /\ (Cardinality(Links(f)) > 1 <=> Links(f) # {f})
<1>1. f \in Links(f) BY DEF Links
<1>2. IsFiniteSet(Links(f))
  <2>1. Links(f) \subseteq Nodes BY DEF Links, Nodes
  <2> QED BY <2>1, ForestAssumption, FS_Subset
<1>3. IsFiniteSet({f}) /\ Cardinality({f}) = 1 BY FS_Singleton
<1>4. Cardinality(Links(f)) \in Nat BY <1>2, FS_CardinalityType
<1>5. 1 <= Cardinality(Links(f)) /\ (Cardinality(Links(f)) = 1 => Links(f) = {f})
  <2>1. {f} \in SUBSET Links(f) BY <1>1
  <2> QED BY <1>2, <1>3, <2>1, FS_Subset
<1> QED BY <1>1, <1>3, <1>4, <1>5

\* The step that visits a file, whatever the writer makes of it.
Visit(n) ==
    /\ Take(n) /\ Advance(n)
    /\ firstOf' = IF n \in Files /\ HasPlace(n) /\ Cardinality(Links(n)) > 1 /\ First(n) = Nothing
                  THEN [firstOf EXCEPT ![tree.first[n]] = n] ELSE firstOf
    /\ UNCHANGED <<tree, pass, target, cut, mishaps>>

LEMMA TreeTypes ==
    ASSUME Typed, NEW f \in Files
    PROVE  /\ tree.first[f] \in Files /\ tree.type[f] = tree.type[tree.first[f]]
           /\ \A g \in Links(f) : /\ g \in Files /\ tree.type[g] = tree.type[f]
                                  /\ tree.first[g] = tree.first[f]
                                  /\ Links(g) = Links(f) /\ First(g) = First(f)
           /\ First(f) \in Files \cup {Nothing}
           /\ f # Nothing
<1>1. tree.first \in [Files -> Files] /\ tree.type[f] = tree.type[tree.first[f]]
   /\ \A g \in Files : tree.type[g] = tree.type[tree.first[g]]
  BY DEF Typed, Trees
<1>2. f # Nothing BY SkeletonAssumption DEF Nodes
<1> QED BY <1>1, <1>2 DEF Links, First, Typed

\* What a visit leaves as it was, and what it adds.
LEMMA VisitMoves ==
    ASSUME Typed, Course, Walking, Linked, NEW n \in Nodes, Visit(n)
    PROVE  /\ phase = "walk" /\ pass = "copy" /\ outcome = "none" /\ ~writer.error
           /\ Walking' /\ Ahead' = Ahead \ {n} /\ n \in Ahead /\ Present(n)
           /\ \A m \in Ahead' : \A d \in W(m) : d \in Ahead' \/ d = n \/ d \in W(n)
           /\ \A d \in W(n) : Seen(d)
           /\ tree.version = "legacy" /\ n \in Relocated => Seen(Rootfs)
           /\ \A m : (Seen(m))' <=> Seen(m) \/ m = n
           /\ ~Seen(n)
           /\ HasPlace(n) <=> InPlace(n)
<1>1. phase = "walk" /\ pass = "copy" /\ outcome = "none" /\ ~writer.error BY DEF Visit, Take, Course
<1>2. Walking' /\ Ahead' = Ahead \ {n}
   /\ \A m \in Ahead' : \A d \in W(m) : d \in Ahead' \/ d = n \/ d \in W(n)
  BY MoveOn DEF Visit
<1>3. /\ n \in Ahead /\ Present(n)
      /\ \A d \in W(n) : Seen(d)
      /\ tree.version = "legacy" /\ n \in Relocated => Seen(Rootfs)
  BY Taken DEF Visit
<1>4. \A m : (Present(m))' <=> Present(m) BY SameTree DEF Visit
<1>5. (\A m : (Seen(m))' <=> Seen(m) \/ m = n) /\ ~Seen(n) BY <1>2, <1>3, <1>4 DEF Seen
<1>6. HasPlace(n) <=> InPlace(n) BY <1>1 DEF HasPlace, InPlace, Archived
<1> QED BY <1>1, <1>2, <1>3, <1>5, <1>6

\* id_map keeps the first file visited of several links.
LEMMA LinkedStep ==
    ASSUME Typed, Course, Walking, Linked, NEW n \in Nodes, Visit(n)
    PROVE  /\ Linked' /\ firstOf' \in [Files -> Files \cup {Nothing}]
           /\ \A f \in Files : Seen(f) /\ InPlace(f) => (Same(f))' = Same(f)
           /\ n \in Files /\ InPlace(n) => (Same(n))' = IF First(n) = Nothing THEN n ELSE First(n)
           /\ n \in Files /\ InPlace(n) /\ First(n) # Nothing => /\ First(n) \in Links(n)
                                                                /\ Links(n) # {n} /\ First(n) # n
                                                                /\ Seen(First(n)) /\ InPlace(First(n))
                                                                /\ First(First(n)) = First(n)
<1>1. /\ \A m : (Seen(m))' <=> Seen(m) \/ m = n
      /\ ~Seen(n) /\ (HasPlace(n) <=> InPlace(n))
  BY VisitMoves
<1>2. /\ \A m : (InPlace(m))' <=> InPlace(m)
      /\ \A m : (Links(m))' = Links(m)
  BY SamePass DEF Visit
<1>3. firstOf \in [Files -> Files \cup {Nothing}] /\ tree.first \in [Files -> Files] /\ tree' = tree
  BY DEF Typed, Trees, Visit
<1>4. \A f : (First(f))' = firstOf'[tree.first[f]] BY <1>3 DEF First
<1>5. \A f \in Files : f # Nothing /\ f \in Links(f) /\ (Cardinality(Links(f)) > 1 <=> Links(f) # {f})
  BY TreeTypes, Counted
<1>6. \A f \in Files : /\ First(f) # Nothing => /\ First(f) \in Links(f) /\ Links(f) # {f}
                                                /\ Seen(First(f)) /\ InPlace(First(f))
                       /\ Seen(f) /\ InPlace(f) /\ Links(f) # {f} => First(f) # Nothing
  BY DEF Linked
<1>7. CASE n \in Files /\ InPlace(n) /\ Links(n) # {n} /\ First(n) = Nothing
  <2>1. firstOf' = [firstOf EXCEPT ![tree.first[n]] = n] BY <1>1, <1>5, <1>7 DEF Visit
  <2>2. \A f \in Files : (First(f))' = IF tree.first[f] = tree.first[n] THEN n ELSE First(f)
    BY <1>3, <1>4, <1>7, <2>1 DEF First
  <2>3. firstOf' \in [Files -> Files \cup {Nothing}] BY <1>3, <1>7, <2>1
  <2>4. \A f \in Files : tree.first[f] = tree.first[n] => n \in Links(f) /\ Links(f) = Links(n) /\ First(f) = First(n)
    BY <1>7 DEF Links, First
  <2>5. Linked'
    <3>1. SUFFICES ASSUME NEW f \in Files
                   PROVE  /\ (First(f))' # Nothing => /\ (First(f))' \in Links(f) /\ Links(f) # {f}
                                                      /\ (Seen(First(f)))' /\ InPlace((First(f))')
                          /\ (Seen(f))' /\ InPlace(f) /\ Links(f) # {f} => (First(f))' # Nothing
      BY <1>2, <2>3 DEF Linked
    <3>2. CASE tree.first[f] = tree.first[n]
      <4>1. Links(f) # {f}
        <5>1. CASE f = n BY <1>7, <5>1
        <5>2. CASE f # n BY <2>4, <3>2, <5>2
        <5> QED BY <5>1, <5>2
      <4>2. (First(f))' = n BY <2>2, <3>2
      <4>3. (Seen(First(f)))'
        <5>1. (Seen(First(f)))' <=> Seen((First(f))') \/ (First(f))' = n BY <1>1, <4>2 DEF Seen, Ahead, Present, W
        <5> QED BY <4>2, <5>1
      <4> QED BY <1>5, <1>7, <2>4, <3>2, <4>1, <4>2, <4>3
    <3>3. CASE tree.first[f] # tree.first[n]
      <4>1. (First(f))' = First(f) BY <2>2, <3>3
      <4>2. f # n BY <3>3
      <4>3. (Seen(First(f)))' <=> Seen(First(f)) \/ First(f) = n
        BY <1>1, <4>1 DEF Seen, Ahead, Present, W
      <4> QED BY <1>1, <1>6, <4>1, <4>2, <4>3
    <3> QED BY <3>2, <3>3
  <2>6. \A f \in Files : Seen(f) /\ InPlace(f) => (Same(f))' = Same(f)
    BY <1>1, <1>5, <1>6, <1>7, <2>2, <2>4 DEF Same
  <2>7. (Same(n))' = n BY <1>7, <2>2 DEF Same
  <2> QED BY <1>7, <2>3, <2>5, <2>6, <2>7
<1>8. CASE ~(n \in Files /\ InPlace(n) /\ Links(n) # {n} /\ First(n) = Nothing)
  <2>1. firstOf' = firstOf BY <1>1, <1>5, <1>8 DEF Visit
  <2>2. \A f : (First(f))' = First(f) BY <1>4, <2>1 DEF First
  <2>3. Linked'
    <3>1. SUFFICES ASSUME NEW f \in Files
                   PROVE  /\ First(f) # Nothing => /\ First(f) \in Links(f) /\ Links(f) # {f}
                                                   /\ (Seen(First(f)))' /\ InPlace(First(f))
                          /\ (Seen(f))' /\ InPlace(f) /\ Links(f) # {f} => First(f) # Nothing
      BY <1>2, <2>2 DEF Linked
    <3>2. (Seen(First(f)))' <=> Seen(First(f)) \/ First(f) = n
      BY <1>1, <2>2 DEF Seen, Ahead, Present, W
    <3> QED BY <1>1, <1>6, <1>8, <3>1, <3>2
  <2>4. \A f \in Files : (Same(f))' = Same(f) BY <2>2 DEF Same
  <2>5. n \in Files /\ First(n) # Nothing => First(First(n)) = First(n) BY <1>6, TreeTypes
  <2> QED BY <1>1, <1>3, <1>6, <2>1, <2>3, <2>4, <2>5 DEF Same
<1> QED BY <1>7, <1>8

\* What the properties of a step follow from, if the target is a file system.
CopiesWell(w, n) ==
    /\ w \in Writers /\ Nested(w.deferred) /\ Attributed(writer, w, n)
    /\ w.entries = writer.entries
    /\ w.error => w.made = writer.made /\ Causes(n)
    /\ ~w.error =>
          /\ n \in Folders /\ Kept(n) => n \in w.settled \cup Pile(w)
          /\ \A m \in Nodes : m # n => w.made[m] = writer.made[m]
          /\ IF Kept(n) THEN IF n \in Folders THEN w.made[n] # Nothing
                                              ELSE w.made[n] = IF First(n) = Nothing THEN n ELSE First(n)
             ELSE w.made[n] \in {Nothing, Old}
          /\ w.ignored = IF n \in Files /\ InPlace(n) /\ ~Kept(n) /\ tree.type[n] # "broken"
                         THEN writer.ignored \cup {n} ELSE writer.ignored

LEMMA CopiesStep ==
    ASSUME Inv, NEW n \in Nodes, Visit(n), target \in Versions, NEW w, Write(w), CopiesWell(w, n)
    PROVE  /\ Inv'
           /\ \A d \in writer.settled : ~Exempt(d) => d \in writer'.settled
<1>1. Typed /\ Course /\ Walking /\ Linked BY DEF Inv
<1>2. /\ phase = "walk" /\ pass = "copy" /\ outcome = "none" /\ ~writer.error
      /\ Walking' /\ Ahead' = Ahead \ {n} /\ n \in Ahead /\ Present(n)
      /\ \A m \in Ahead' : \A d \in W(m) : d \in Ahead' \/ d = n \/ d \in W(n)
      /\ \A m : (Seen(m))' <=> Seen(m) \/ m = n
      /\ ~Seen(n)
  BY <1>1, VisitMoves
<1>3. /\ Linked' /\ firstOf' \in [Files -> Files \cup {Nothing}]
      /\ \A f \in Files : Seen(f) /\ InPlace(f) => (Same(f))' = Same(f)
      /\ n \in Files /\ InPlace(n) => (Same(n))' = IF First(n) = Nothing THEN n ELSE First(n)
  BY <1>1, LinkedStep
<1>4. writer' = w /\ UNCHANGED <<tree, pass, target, cut, mishaps>> BY DEF Write, Visit
<1>5. /\ \A m : (Kept(m))' <=> Kept(m)
      /\ \A m : (InPlace(m))' <=> InPlace(m)
  BY <1>4, SamePass
<1>6. target # "archive" /\ ~Archived BY <1>2 DEF Archived, Versions
<1>7. Handled(n) BY <1>2, <1>4 DEF Handled, Waiting
<1>8. \A m \in Nodes : Kept(m) /\ m \notin Ahead => Seen(m) /\ InPlace(m)
  BY DEF Kept, InPlace, Seen
<1>9. writer \in Writers /\ Nested(writer.deferred) BY <1>1 DEF Typed
<1>10. Copied'
  <2>1. \A m \in Files : Kept(m) /\ m \notin Waiting => (Same(m))' = Same(m)
    BY <1>2, <1>3, <1>8 DEF Waiting, Nodes
  <2>2. Kept(n) => InPlace(n) BY DEF Kept, InPlace
  <2>3. n \in Files \/ n \in Folders BY DEF Nodes
  <2>4. ~writer'.error =>
              /\ \A m \in Nodes : m # n => writer'.made[m] = writer.made[m]
              /\ IF Kept(n) THEN IF n \in Folders THEN writer'.made[n] # Nothing
                                                  ELSE writer'.made[n] = (Same(n))'
                 ELSE writer'.made[n] \in {Nothing, Old}
    BY <1>3, <1>4, <2>2, <2>3 DEF CopiesWell
  <2>5. pass # "install" BY <1>2
  <2>6. Copied BY DEF Inv
  <2> QED BY <1>7, <1>9, <2>1, <2>4, <2>5, <2>6, CopiedStep
<1>11. Reached' /\ Firm' /\ \A d \in writer.settled : ~Exempt(d) => d \in writer'.settled
  <2>1. ASSUME target = "v2", NEW d \in Deferred, ~Exempt(d), d \notin Above[n], NEW m \in Waiting'
        PROVE  d \notin Above[m]
    <3>1. d \notin Waiting BY <1>2, <2>1 DEF Inv, Settled, Firm
    <3>2. m \in Ahead' /\ d \notin Ahead /\ m \in Ahead /\ m \in Nodes
      BY <1>2, <1>4, <2>1, <3>1 DEF Waiting, Ahead
    <3>3. d \notin W(n) BY <2>1, WalkedTree DEF W
    <3>4. d \notin W(m) BY <1>2, <3>2, <3>3
    <3> QED BY <2>1, <3>2, <3>4, WalkedTree DEF W, Exempt
  <2>2. Reached /\ Firm BY DEF Inv, Settled
  <2>3. Attributed(writer, writer', n)
     /\ (~writer'.error /\ n \in Folders /\ Kept(n) => n \in writer'.settled \cup Pile(writer'))
    BY <1>4 DEF CopiesWell
  <2> QED BY <1>7, <1>9, <2>1, <2>2, <2>3, SettledStep
<1>12. /\ writer'.error => phase' = "close" /\ outcome' = "error"
       /\ ~writer'.error => phase' = "walk" /\ outcome' = "none"
  BY <1>2, <1>4 DEF Write
<1>13. InRow' BY <1>12 DEF InRow
<1>14. Ignored'
  <2>1. n \in Files => n \notin writer.ignored BY <1>2 DEF Inv, Ignored
  <2>2. ASSUME ~writer'.error, NEW f \in Files
        PROVE  f \in writer'.ignored <=> (Seen(f))' /\ InPlace(f) /\ ~Kept(f) /\ tree.type[f] # "broken"
    <3>1. f \in writer.ignored <=> Seen(f) /\ InPlace(f) /\ ~Kept(f) /\ tree.type[f] # "broken"
      BY <1>2 DEF Inv, Ignored
    <3>2. writer'.ignored = IF n \in Files /\ InPlace(n) /\ ~Kept(n) /\ tree.type[n] # "broken"
                            THEN writer.ignored \cup {n} ELSE writer.ignored
      BY <1>4, <2>2 DEF CopiesWell
    <3>3. CASE f = n BY <1>2, <2>1, <3>2, <3>3
    <3>4. CASE f # n BY <1>2, <3>1, <3>2, <3>4
    <3> QED BY <3>3, <3>4
  <2> QED BY <1>2, <1>4, <1>5, <2>2 DEF Ignored
<1>15. Entries' BY <1>4, <1>6 DEF Entries, Archived
<1>16. FailsForCause'
  <2>1. writer'.error => (Causes(n))'
    <3>1. SUFFICES ASSUME writer'.error PROVE (Causes(n))' OBVIOUS
    <3>2. writer'.made = writer.made /\ Causes(n) BY <1>4, <3>1 DEF CopiesWell
    <3>3. \A m : (Present(m))' <=> Present(m) BY <1>4, SamePass
    <3>4. \A m : (Links(m))' = Links(m) BY <1>4, SamePass
    <3> QED BY <1>4, <1>5, <3>2, <3>3, <3>4 DEF Causes
  <2> QED BY <1>12, <2>1 DEF FailsForCause
<1>17. Typed'
  <2>1. writer' \in Writers /\ Nested(writer'.deferred) BY <1>4 DEF CopiesWell
  <2> QED BY <1>1, <1>3, <1>4, <1>12, <2>1 DEF Typed
<1>18. Course' BY <1>1, <1>2, <1>4, <1>12 DEF Course
<1> QED BY <1>2, <1>3, <1>10, <1>11, <1>13, <1>14, <1>15, <1>16, <1>17, <1>18 DEF Inv, Settled

\* The folder that a file is put into has been made, in whichever version.
LEMMA ParentThere ==
    ASSUME Inv, NEW n \in Nodes, Visit(n), target \in Versions, HasPlace(n)
    PROVE  There(writer, Parent(target, n))
<1> DEFINE p == Parent(target, n)
<1>1. /\ pass = "copy" /\ ~writer.error /\ Present(n)
      /\ \A d \in W(n) : Seen(d)
      /\ tree.version = "legacy" /\ n \in Relocated => Seen(Rootfs)
  BY VisitMoves DEF Inv
<1>2. CASE p = Base BY <1>2 DEF There
<1>3. CASE /\ p \in Above[n] /\ p \in Walked(target, n)
           /\ p \in Nodes /\ p \in Folders
  <2>1. Seen(p)
    <3>1. CASE p \in W(n) BY <1>1, <3>1
    <3>2. CASE p \notin W(n)
      <4>1. p = Rootfs /\ tree.version = "legacy" BY <1>3, <3>2, WalkedTree DEF W
      <4>2. Under(n, Relocated) BY <1>3, <3>2, <4>1 DEF W, Walked
      <4>3. target # "legacy" BY <1>3, <4>1, <4>2 DEF Walked
      <4>4. Walked(target, n) = {p} \cup Walked(target, p) /\ Above[p] = {}
        <5>1. p # Base BY <1>3, SkeletonAssumption
        <5> QED BY <4>1, <5>1, ParentWalked, ForestAssumption
      <4>5. Above[n] = {Rootfs} BY <4>1, <4>3, <4>4 DEF Walked
      <4>6. Rootfs \notin Relocated BY ForestAssumption
      <4>7. n \in Relocated BY <4>2, <4>5, <4>6 DEF Under
      <4> QED BY <1>1, <4>1, <4>7
    <3> QED BY <3>1, <3>2
  <2>2. ~Under(p, Shadow)
    <3>1. Above[p] \subseteq Above[n] BY <1>3, ForestAssumption
    <3> QED BY <1>3, <3>1 DEF HasPlace, Under
  <2>3. Kept(p)
    <3>1. ~Archived BY <1>1 DEF Archived, Versions
    <3> QED BY <1>3, <2>1, <2>2, <3>1 DEF Kept, Seen
  <2>4. writer.made[p] # Nothing
    BY <1>1, <1>3, <2>1, <2>3 DEF Inv, Copied, Waiting, Seen
  <2> QED BY <2>4 DEF There
<1> QED BY <1>2, <1>3, ParentOf

\* A folder that the walk enters is made, or is the cause of the failure.
LEMMA EnterCopies ==
    ASSUME Inv, NEW n \in Nodes, EnterFolder(n), target \in Versions
    PROVE  /\ Inv'
           /\ \A d \in writer.settled : ~Exempt(d) => d \in writer'.settled
<1> DEFINE type == IF n \in tree.bare THEN "none" ELSE "plain"
           w == IF HasPlace(n) THEN NewFile(writer, n, type) ELSE writer
<1>1. n \in Folders /\ n \notin Files BY SkeletonAssumption DEF EnterFolder
<1>2. Visit(n) /\ Write(w) BY <1>1 DEF EnterFolder, Visit, Advance
<1>3. /\ pass = "copy" /\ ~writer.error /\ Present(n) /\ n \in Ahead
      /\ HasPlace(n) <=> InPlace(n)
  BY <1>2, VisitMoves DEF Inv
<1>4. writer \in Writers /\ Nested(writer.deferred) BY DEF Inv, Typed
<1>5. target # "archive" /\ ~Archived BY <1>3 DEF Archived, Versions
<1>6. Kept(n) <=> HasPlace(n) BY <1>1, <1>3, <1>5 DEF Kept, InPlace
<1>7. writer.made[n] \in {Nothing, Old} BY <1>3 DEF Inv, Copied, Waiting
<1>8. CASE ~HasPlace(n)
  <2>1. w = writer BY <1>8
  <2>2. CopiesWell(writer, n) BY <1>1, <1>3, <1>4, <1>6, <1>7, <1>8 DEF CopiesWell, Attributed
  <2> QED BY <1>2, <2>1, <2>2, CopiesStep
<1>9. target = "v2" => n \notin Pile(writer)
  BY <1>2, <1>3 DEF Inv, Settled, Firm, Waiting, Deferred, Pile, Visit, Take
<1>10. CASE HasPlace(n)
  <2>1. PICK v : v = w OBVIOUS
  <2>2. v = NewFile(writer, n, type) BY <1>10, <2>1
  <2>3. Supported(type) BY <1>5 DEF Supported
  <2> HIDE DEF w
  <2>4. There(writer, Parent(target, n)) BY <1>2, <1>10, ParentThere
  <2>5. CASE v = Failed(writer) /\ type = "none"
    <3>1. n \in tree.bare BY <2>5
    <3>2. Causes(n) BY <1>3, <1>10, <3>1 DEF Causes, HasPlace
    <3>3. /\ v \in Writers /\ v.error /\ v.made = writer.made /\ v.entries = writer.entries
          /\ v.settled = writer.settled /\ v.deferred = writer.deferred
      BY <1>4, <2>5, WriterKinds
    <3>4. Pile(v) = Pile(writer) BY <3>3 DEF Pile
    <3>5. CopiesWell(v, n) BY <1>4, <3>2, <3>3, <3>4 DEF CopiesWell, Attributed
    <3> QED BY <1>2, <2>1, <3>5, CopiesStep
  <2>6. CASE /\ n \in v.settled \cup Pile(v)
             /\ Landed(writer, v, n, IF There(writer, n) THEN writer.made[n] ELSE n)
    <3>1. n # Nothing /\ n # Base BY SkeletonAssumption
    <3>2. writer.made \in [Nodes -> Nodes \cup {Nothing, Old}] BY <1>4 DEF Writers
    <3>3. v.made[n] # Nothing /\ \A m \in Nodes : m # n => v.made[m] = writer.made[m]
      BY <2>6, <3>1, <3>2 DEF Landed, There
    <3>4. CopiesWell(v, n) BY <1>1, <1>3, <1>6, <1>10, <2>6, <3>3 DEF CopiesWell, Landed
    <3> QED BY <1>2, <2>1, <3>4, CopiesStep
  <2>7. type # "none" \/ v = Failed(writer)
    BY <1>1, <1>4, <1>9, <2>2, <2>3, <2>4, NewFileDoes
  <2> HIDE DEF type
  <2> QED BY <1>1, <1>4, <1>9, <2>2, <2>3, <2>4, <2>5, <2>6, NewFileDoes
<1> QED BY <1>8, <1>10

\* A file that is visited is copied, linked to the first of its links, passed over, or
\* the cause of the failure.
LEMMA VisitCopies ==
    ASSUME Inv, NEW n \in Nodes, VisitFile(n), target \in Versions
    PROVE  /\ Inv'
           /\ \A d \in writer.settled : ~Exempt(d) => d \in writer'.settled
<1> DEFINE m == First(n)
           type == tree.type[n]
<1>1. n \in Files /\ n \notin Folders BY SkeletonAssumption DEF VisitFile
<1>2. Visit(n) BY <1>1 DEF VisitFile, Visit, Advance
<1>3. PICK w : /\ Write(w)
               /\ w = IF ~HasPlace(n) THEN writer
                      ELSE IF m # Nothing THEN HardLink(writer, n, m)
                      ELSE IF type = "broken" THEN writer
                      ELSE NewFile(writer, n, type)
  BY DEF VisitFile
<1>4. /\ pass = "copy" /\ ~writer.error /\ Present(n) /\ n \in Ahead /\ ~Seen(n)
      /\ HasPlace(n) <=> InPlace(n)
  BY <1>2, VisitMoves DEF Inv
<1>5. writer \in Writers /\ Nested(writer.deferred) BY DEF Inv, Typed
<1>6. target # "archive" /\ ~Archived BY <1>4 DEF Archived, Versions
<1>7. \A f \in Files : Kept(f) <=> Present(f) /\ InPlace(f) /\ tree.type[f] \in {"plain", "socket", "none"}
  BY <1>6, SkeletonAssumption DEF Kept, InPlace
<1>8. writer.made[n] \in {Nothing, Old} BY <1>4 DEF Inv, Copied, Waiting
<1>9. tree.type[n] \in Types BY <1>1 DEF Inv, Typed, Trees
<1>10. target = "v2" => n \notin Pile(writer)
  BY <1>2, <1>4 DEF Inv, Settled, Firm, Waiting, Deferred, Pile, Visit, Take
<1>11. n # Base /\ n # Nothing BY SkeletonAssumption
<1>12. HasPlace(n) => There(writer, Parent(target, n)) BY <1>2, ParentThere
<1>13. Attributed(writer, writer, n) BY DEF Attributed
<1>14. ASSUME There(writer, n) PROVE Causes(n)
  <2>1. writer.made[n] = Old BY <1>8, <1>11, <1>14 DEF There
  <2> QED BY <1>1, <2>1 DEF Causes
<1>15. ASSUME w = Failed(writer), Causes(n) PROVE CopiesWell(w, n)
  <2>1. /\ w \in Writers /\ w.error /\ w.made = writer.made /\ w.entries = writer.entries
        /\ w.settled = writer.settled /\ w.deferred = writer.deferred
    BY <1>5, <1>15, WriterKinds
  <2>2. Pile(w) = Pile(writer) BY <2>1 DEF Pile
  <2> QED BY <1>5, <1>13, <1>15, <2>1, <2>2 DEF CopiesWell, Attributed
<1>16. ASSUME w = [writer EXCEPT !.ignored = @ \cup {n}], HasPlace(n), ~Kept(n), type # "broken"
       PROVE  CopiesWell(w, n)
  <2>1. /\ w \in Writers /\ w.error = writer.error /\ w.made = writer.made /\ w.entries = writer.entries
        /\ w.settled = writer.settled /\ w.deferred = writer.deferred
        /\ w.ignored = writer.ignored \cup {n}
    BY <1>5, <1>16, WriterKinds
  <2>2. Pile(w) = Pile(writer) BY <2>1 DEF Pile
  <2> QED BY <1>1, <1>4, <1>5, <1>8, <1>13, <1>16, <2>1, <2>2 DEF CopiesWell, Attributed
<1>17. ASSUME w = writer, ~HasPlace(n) \/ (~Kept(n) /\ type = "broken") PROVE CopiesWell(w, n)
  <2>1. ~Kept(n) BY <1>1, <1>4, <1>7, <1>17
  <2> QED BY <1>1, <1>4, <1>5, <1>8, <1>13, <1>17, <2>1 DEF CopiesWell
<1>18. ASSUME NEW g, Landed(writer, w, n, g), HasPlace(n), ~Kept(n) => type = "broken" /\ g \in {Nothing, Old},
              Kept(n) => g = IF First(n) = Nothing THEN n ELSE First(n)
       PROVE  CopiesWell(w, n)
  <2>1. writer.made \in [Nodes -> Nodes \cup {Nothing, Old}] BY <1>5 DEF Writers
  <2>2. w.made[n] = g /\ \A f \in Nodes : f # n => w.made[f] = writer.made[f]
    BY <1>18, <2>1 DEF Landed
  <2> QED BY <1>1, <1>4, <1>18, <2>2 DEF CopiesWell, Landed
<1>19. CopiesWell(w, n)
  <2>1. CASE ~HasPlace(n) BY <1>3, <1>17, <2>1
  <2>2. CASE HasPlace(n) /\ m # Nothing
    <3>1. w = HardLink(writer, n, m) BY <1>3, <2>2
    <3>2. /\ m \in Links(n) /\ Links(n) # {n} /\ m # n
          /\ Seen(m) /\ InPlace(m) /\ First(m) = m
      BY <1>1, <1>2, <1>4, <2>2, LinkedStep DEF Inv
    <3>3. m \in Files /\ m \in Nodes /\ tree.type[m] = type /\ m # Base
      BY <1>1, <3>2, TreeTypes, SkeletonAssumption DEF Inv, Nodes
    <3>4. Kept(m) <=> Kept(n) BY <1>1, <1>4, <1>7, <2>2, <3>2, <3>3 DEF Seen
    <3>5. m \in writer.ignored <=> ~Kept(n) /\ type # "broken"
      BY <1>4, <3>2, <3>3, <3>4 DEF Inv, Ignored
    <3>6. IF Kept(n) THEN writer.made[m] = m ELSE writer.made[m] \in {Nothing, Old}
      <4>1. m \notin Waiting BY <1>4, <3>2 DEF Waiting, Seen
      <4>2. Same(m) = m BY <3>2 DEF Same
      <4>3. m \notin Folders BY <3>3, SkeletonAssumption
      <4> QED BY <1>4, <3>3, <3>4, <4>1, <4>2, <4>3 DEF Inv, Copied
    <3>7. CASE m \in writer.ignored /\ w = [writer EXCEPT !.ignored = @ \cup {n}]
      BY <1>16, <2>2, <3>5, <3>7
    <3>8. CASE m \notin writer.ignored /\ w = Failed(writer) /\ (~There(writer, m) \/ There(writer, n))
      <4>1. ~There(writer, m) => type = "broken"
        BY <2>2, <3>5, <3>6, <3>8 DEF There
      <4>2. type = "broken" => Causes(n) BY <1>1, <3>2 DEF Causes
      <4> QED BY <1>14, <1>15, <3>8, <4>1, <4>2
    <3>9. CASE m \notin writer.ignored /\ Landed(writer, w, n, writer.made[m])
      BY <1>18, <2>2, <3>5, <3>6, <3>9
    <3> QED BY <1>5, <1>12, <2>2, <3>1, <3>3, <3>7, <3>8, <3>9, HardLinkDoes
  <2>3. CASE HasPlace(n) /\ m = Nothing /\ type = "broken"
    <3>1. ~Kept(n) BY <1>1, <1>7, <2>3
    <3> QED BY <1>3, <1>17, <2>3, <3>1
  <2>4. CASE HasPlace(n) /\ m = Nothing /\ type # "broken"
    <3>1. w = NewFile(writer, n, type) BY <1>3, <2>4
    <3>2. Supported(type) <=> Kept(n)
      BY <1>1, <1>4, <1>6, <1>7, <1>9, <2>4 DEF Supported, Types
    <3>3. CASE ~Supported(type) /\ w = [writer EXCEPT !.ignored = @ \cup {n}]
      BY <1>16, <2>4, <3>2, <3>3
    <3>4. CASE w = Failed(writer) /\ There(writer, n)
      BY <1>14, <1>15, <3>4
    <3>5. CASE Supported(type) /\ Landed(writer, w, n, n)
      BY <1>18, <2>4, <3>2, <3>5
    <3> HIDE DEF type, m
    <3>6. \/ ~Supported(type) /\ w = [writer EXCEPT !.ignored = @ \cup {n}]
          \/ w = Failed(writer) /\ There(writer, n)
          \/ Supported(type) /\ Landed(writer, w, n, n)
      BY <1>1, <1>5, <1>10, <1>12, <2>4, <3>1, NewFileDoes
    <3> QED BY <3>3, <3>4, <3>5, <3>6
  <2> QED BY <2>1, <2>2, <2>3, <2>4
<1> QED BY <1>2, <1>3, <1>19, CopiesStep

-----------------------------------------------------------------------------
(* The walk: writing an archive *)

\* What the properties of a step follow from, if the target is an archive.
ArchivesWell(w, n) ==
    /\ w \in Writers /\ ~w.error
    /\ w.made = writer.made /\ w.settled = writer.settled /\ w.deferred = writer.deferred
    /\ \A f \in Files : f \in w.ignored <=>
          f \in writer.ignored \/ (f = n /\ InPlace(n) /\ ~Kept(n) /\ tree.type[n] # "broken")
    /\ \/ w.entries = writer.entries /\ (Kept(n) => n = Rootfs)
       \/ /\ n # Rootfs /\ InPlace(n)
          /\ n \in Folders => n \notin tree.bare
          /\ n \in Files => tree.type[n] = "plain" \/ (tree.type[n] = "broken" /\ First(n) # Nothing)
          /\ w.entries = Append(writer.entries, [node |-> n, link |-> IF n \in Folders THEN Nothing ELSE First(n)])

\* Everything above an entry but the root directory is in its place, too.
LEMMA AboveInPlace ==
    ASSUME NEW n \in Nodes, InPlace(n), Archived, NEW d \in Above[n], d # Rootfs
    PROVE  InPlace(d)
<1>1. Above[d] \subseteq Above[n] /\ Above[Rootfs] = {} BY ForestAssumption
<1>2. ~Under(d, Shadow) BY <1>1 DEF InPlace, Under
<1>3. n # Rootfs BY <1>1
<1>4. Rootfs \in Above[n] BY <1>3 DEF InPlace, Under
<1>5. Rootfs \in Above[d] BY <1>1, <1>4, ForestAssumption
<1> QED BY <1>2, <1>5 DEF InPlace, Under

\* The entries of an archive that is written keep their order, and the new one has its
\* place at their end.
LEMMA EntriesStep ==
    ASSUME Inv, NEW n \in Nodes, Visit(n), target = "archive", NEW w, writer' = w, ArchivesWell(w, n)
    PROVE  Entries'
<1> DEFINE e == writer.entries
           L == Len(e)
           link == IF n \in Folders THEN Nothing ELSE First(n)
           x == [node |-> n, link |-> link]
<1>1. Typed /\ Course /\ Walking /\ Linked BY DEF Inv
<1>2. /\ pass = "copy" /\ ~writer.error
      /\ Ahead' = Ahead \ {n} /\ n \in Ahead /\ Present(n)
      /\ \A m \in Ahead' : \A d \in W(m) : d \in Ahead' \/ d = n \/ d \in W(n)
      /\ \A d \in W(n) : Seen(d)
      /\ \A m : (Seen(m))' <=> Seen(m) \/ m = n
      /\ ~Seen(n)
  BY <1>1, VisitMoves
<1>3. /\ \A f \in Files : Seen(f) /\ InPlace(f) => (Same(f))' = Same(f)
      /\ n \in Files /\ InPlace(n) => (Same(n))' = IF First(n) = Nothing THEN n ELSE First(n)
      /\ n \in Files /\ InPlace(n) /\ First(n) # Nothing => /\ First(n) \in Links(n) /\ First(n) # n
                                                            /\ Seen(First(n)) /\ InPlace(First(n))
  BY <1>1, LinkedStep
<1>4. UNCHANGED <<tree, pass, target>> BY DEF Visit
<1>5. /\ \A m : (Kept(m))' <=> Kept(m)
      /\ \A m : (InPlace(m))' <=> InPlace(m)
  BY <1>4, SamePass
<1>6. Archived BY DEF Archived
<1>7. writer \in Writers /\ w \in Writers /\ w.made = writer.made BY <1>1 DEF Typed, ArchivesWell
<1>8. /\ e \in Seq([node : Nodes, link : Files \cup {Nothing}]) /\ L \in Nat /\ DOMAIN e = 1 .. L
      /\ \A i \in 1 .. L : e[i].node \in Nodes
  <2> DEFINE R == [node : Nodes, link : Files \cup {Nothing}]
  <2>1. e \in Seq(R) BY <1>7 DEF Writers
  <2>2. L \in Nat /\ DOMAIN e = 1 .. L /\ \A i \in 1 .. L : e[i] \in R
    <3> HIDE DEF R, e
    <3> QED BY <2>1
  <2> QED BY <2>1, <2>2
<1>9. /\ \A i \in DOMAIN e :
            /\ EntryOK(i, e[i].node, e[i].link)
            /\ \A j \in DOMAIN e : i < j =>
                  /\ e[i].node # e[j].node
                  /\ \A k \in DOMAIN e :
                        j < k /\ e[i].node \in Above[e[k].node] => e[i].node \in Above[e[j].node]
                  /\ \A m \in Ahead : e[i].node \in Above[m] => e[i].node \in Above[e[j].node]
      /\ writer.made = [m \in Nodes |-> Nothing]
      /\ \A m \in Nodes : Kept(m) /\ Seen(m) /\ m # Rootfs => \E i \in DOMAIN e : e[i].node = m
  BY <1>2, <1>6 DEF Inv, Entries, Entry, Entered
<1>14. PICK later : later = {m \in Nodes : (Seen(m))'} OBVIOUS
<1>15. PICK same : same = [m \in Files |-> (Same(m))'] OBVIOUS
<1> DEFINE Early(s, i, m) == writer.made[m] # Nothing \/ \E j \in DOMAIN s : j < i /\ s[j].node = m
           OK(s, i, m, l) ==
              /\ m \in later /\ InPlace(m) /\ m # Rootfs
              /\ m \in Folders => m \notin tree.bare /\ l = Nothing
              /\ m \in Files => /\ tree.type[m] = "plain" \/ (tree.type[m] = "broken" /\ same[m] # m)
                                /\ l = IF same[m] = m THEN Nothing ELSE same[m]
                                /\ l # Nothing /\ tree.type[m] = "plain" => Early(s, i, l)
              /\ \A d \in Above[m] : d = Rootfs \/ d \in tree.bare \/ Early(s, i, d)
<1>10. ASSUME NEW s, w.entries = s,
              \A i \in DOMAIN s :
                 /\ OK(s, i, s[i].node, s[i].link)
                 /\ \A j \in DOMAIN s : i < j =>
                       /\ s[i].node # s[j].node
                       /\ \A k \in DOMAIN s :
                             j < k /\ s[i].node \in Above[s[k].node] => s[i].node \in Above[s[j].node]
                       /\ \A m \in Ahead' : s[i].node \in Above[m] => s[i].node \in Above[s[j].node],
              \A m \in later : Kept(m) /\ m # Rootfs => \E i \in DOMAIN s : s[i].node = m
       PROVE  Entries'
  <2>1. writer'.entries = s /\ writer'.made = writer.made BY <1>7, <1>10
  <2>2. \A i, m, l : OK(s, i, m, l) => (EntryOK(i, m, l))'
    BY <1>4, <1>5, <1>14, <1>15, <2>1 DEF EntryOK, Earlier, Entry
  <2> HIDE DEF OK
  <2> QED BY <1>5, <1>9, <1>10, <1>14, <2>1, <2>2 DEF Entries, Entry, Entered
<1>11. ASSUME NEW i \in DOMAIN e PROVE OK(e, i, e[i].node, e[i].link) /\ Seen(e[i].node) /\ e[i].node # Rootfs
  <2>1. PICK m, l : m = e[i].node /\ l = e[i].link OBVIOUS
  <2>2. EntryOK(i, m, l) /\ m \in Nodes BY <1>8, <1>9, <1>11, <2>1
  <2>3. m \in later /\ Seen(m) /\ m # Rootfs BY <1>2, <1>14, <2>2 DEF EntryOK
  <2>4. m \in Files => same[m] = Same(m) BY <1>3, <1>15, <2>2 DEF EntryOK
  <2>5. OK(e, i, m, l) BY <2>2, <2>3, <2>4 DEF EntryOK, Earlier, Entry
  <2> HIDE DEF OK
  <2> QED BY <2>1, <2>3, <2>5
<1>12. CASE w.entries = e /\ (Kept(n) => n = Rootfs)
  <2> HIDE DEF OK, e
  <2>1. \A m \in Ahead' : m \in Ahead BY <1>2
  <2>2. \A m \in later : Kept(m) /\ m # Rootfs => \E i \in DOMAIN e : e[i].node = m
    BY <1>2, <1>9, <1>12, <1>14
  <2> QED BY <1>9, <1>10, <1>11, <1>12, <2>1, <2>2
<1>13. CASE /\ n # Rootfs /\ InPlace(n)
            /\ n \in Folders => n \notin tree.bare
            /\ n \in Files => tree.type[n] = "plain" \/ (tree.type[n] = "broken" /\ First(n) # Nothing)
            /\ w.entries = Append(e, x)
  <2> DEFINE s == Append(e, x)
  <2>1. DOMAIN s = 1 .. L + 1 /\ s[L + 1] = x /\ \A i \in 1 .. L : s[i] = e[i]
    <3> HIDE DEF x, e
    <3> QED BY <1>8
  <2>2. x.node = n /\ x.link = link OBVIOUS
  <2> HIDE DEF s, x
  <2>3. \A i \in DOMAIN e : i \in DOMAIN s /\ s[i] = e[i] /\ i < L + 1 BY <1>8, <2>1
  <2>4. \A i \in DOMAIN s : i \in DOMAIN e \/ (i = L + 1 /\ s[i].node = n /\ s[i].link = link)
    BY <1>8, <2>1, <2>2
  <2>5. \A i \in DOMAIN s : i < L + 1 => i \in DOMAIN e BY <1>8, <2>1
  <2>6. n \in Folders => n \notin Files BY SkeletonAssumption
  <2>7. n # Nothing /\ (n \in Files => First(n) \in Files \cup {Nothing})
    BY <1>1, TreeTypes, SkeletonAssumption
  <2>8. ASSUME NEW m \in Nodes, Kept(m), Seen(m), m # Rootfs PROVE Early(s, L + 1, m)
    BY <1>9, <2>3, <2>8
  <2>9. ASSUME NEW i \in DOMAIN s PROVE OK(s, i, s[i].node, s[i].link)
    <3>1. CASE i \in DOMAIN e
      <4>1. \A j \in DOMAIN e : j \in DOMAIN s /\ s[j] = e[j] BY <2>3
      <4>2. \A m : Early(e, i, m) => Early(s, i, m) BY <4>1
      <4>3. PICK m, l : m = e[i].node /\ l = e[i].link OBVIOUS
      <4>4. OK(e, i, m, l)
        <5> HIDE DEF OK
        <5> QED BY <1>11, <3>1, <4>3
      <4>5. OK(s, i, m, l)
        <5> HIDE DEF Early, e
        <5> QED BY <4>2, <4>4
      <4> HIDE DEF OK
      <4> QED BY <3>1, <4>1, <4>3, <4>5
    <3>2. CASE i = L + 1 /\ s[i].node = n /\ s[i].link = link
      <4>1. n \in later BY <1>2, <1>14
      <4>2. ASSUME n \in Files
            PROVE  /\ tree.type[n] = "plain" \/ (tree.type[n] = "broken" /\ same[n] # n)
                   /\ link = IF same[n] = n THEN Nothing ELSE same[n]
                   /\ link # Nothing /\ tree.type[n] = "plain" => Early(s, L + 1, link)
        <5>1. link = First(n) /\ (link # Nothing => same[n] = link /\ link # n)
              /\ (link = Nothing => same[n] = n)
          BY <1>3, <1>13, <1>15, <2>6, <4>2
        <5>2. ASSUME link # Nothing, tree.type[n] = "plain" PROVE Early(s, L + 1, link)
          <6>1. link \in Links(n) /\ Seen(link) /\ InPlace(link) BY <1>3, <1>13, <4>2, <5>1, <5>2
          <6>2. link \in Files /\ link \in Nodes /\ tree.type[link] = "plain"
            BY <1>1, <4>2, <5>2, <6>1, TreeTypes DEF Nodes
          <6>3. link # Rootfs /\ link \notin Folders BY <6>2, SkeletonAssumption
          <6>4. Kept(link) BY <1>6, <6>1, <6>2, <6>3 DEF Kept, InPlace, Seen
          <6> QED BY <2>8, <6>1, <6>2, <6>3, <6>4
        <5> QED BY <1>13, <2>7, <4>2, <5>1, <5>2
      <4>3. ASSUME NEW d \in Above[n], d # Rootfs, d \notin tree.bare PROVE Early(s, L + 1, d)
        <5>1. InPlace(d) BY <1>6, <1>13, <4>3, AboveInPlace
        <5>2. d \in W(n) /\ d \in Folders /\ d \in Nodes BY <4>3, WalkedTree DEF W
        <5>3. Seen(d) BY <1>2, <5>2
        <5>4. Kept(d) BY <1>6, <4>3, <5>1, <5>2, <5>3 DEF Kept, InPlace, Seen
        <5> QED BY <2>8, <4>3, <5>2, <5>3, <5>4
      <4>4. n \in Folders => link = Nothing OBVIOUS
      <4>5. OK(s, L + 1, n, link)
        <5> HIDE DEF Early, link
        <5> QED BY <1>13, <2>6, <4>1, <4>2, <4>3, <4>4
      <4> HIDE DEF OK
      <4> QED BY <3>2, <4>5
    <3> HIDE DEF OK
    <3> QED BY <2>4, <3>1, <3>2
  <2>10. ASSUME NEW i \in DOMAIN s, NEW j \in DOMAIN s, i < j
         PROVE  /\ s[i].node # s[j].node
                /\ \A k \in DOMAIN s :
                      j < k /\ s[i].node \in Above[s[k].node] => s[i].node \in Above[s[j].node]
                /\ \A m \in Ahead' : s[i].node \in Above[m] => s[i].node \in Above[s[j].node]
    <3>1. i \in DOMAIN e /\ s[i] = e[i] BY <1>8, <2>1, <2>10
    <3>2. Seen(e[i].node) /\ e[i].node # Rootfs
      <4> HIDE DEF OK
      <4> QED BY <1>11, <3>1
    <3>3. CASE j \in DOMAIN e
      <4>1. s[j] = e[j] BY <2>3, <3>3
      <4>2. ASSUME NEW k \in DOMAIN s, j < k, s[i].node \in Above[s[k].node]
            PROVE  s[i].node \in Above[s[j].node]
        <5>1. CASE k \in DOMAIN e
          <6>1. s[k] = e[k] BY <2>3, <5>1
          <6> QED BY <1>9, <2>10, <3>1, <3>3, <4>1, <4>2, <5>1, <6>1
        <5>2. CASE s[k].node = n
          BY <1>2, <1>9, <2>10, <3>1, <3>3, <4>1, <4>2, <5>2
        <5> QED BY <2>4, <5>1, <5>2
      <4>3. \A m \in Ahead' : m \in Ahead BY <1>2
      <4> QED BY <1>9, <2>10, <3>1, <3>3, <4>1, <4>2, <4>3
    <3>4. CASE j = L + 1 /\ s[j].node = n
      <4>1. e[i].node # n BY <1>2, <3>2
      <4>2. ASSUME NEW m \in Ahead', e[i].node \in Above[m] PROVE e[i].node \in Above[n]
        <5>1. m \in Nodes BY <1>2 DEF Ahead
        <5>2. e[i].node \in W(m) BY <3>2, <4>2, <5>1, WalkedTree DEF W
        <5>3. e[i].node \notin Ahead' BY <1>2, <3>2 DEF Seen
        <5> QED BY <1>2, <4>1, <4>2, <5>2, <5>3, WalkedTree DEF W
      <4>3. \A k \in DOMAIN s : ~(j < k) BY <1>8, <2>1, <3>4
      <4> QED BY <3>1, <3>4, <4>1, <4>2, <4>3
    <3> QED BY <2>4, <2>10, <3>3, <3>4
  <2>11. ASSUME NEW m \in later, Kept(m), m # Rootfs PROVE \E i \in DOMAIN s : s[i].node = m
    <3>1. CASE m = n BY <1>8, <2>1, <2>2, <3>1
    <3>2. CASE m # n
      <4>1. Seen(m) /\ m \in Nodes BY <1>2, <1>14, <2>11, <3>2
      <4> QED BY <1>9, <2>3, <2>11, <4>1
    <3> QED BY <3>1, <3>2
  <2>12. w.entries = s BY <1>13 DEF s
  <2> HIDE DEF OK
  <2> QED BY <1>10, <2>9, <2>10, <2>11, <2>12
<1> QED BY <1>12, <1>13 DEF ArchivesWell

LEMMA ArchiveStep ==
    ASSUME Inv, NEW n \in Nodes, Visit(n), target = "archive", NEW w, Write(w), ArchivesWell(w, n)
    PROVE  /\ Inv'
           /\ \A d \in writer.settled : d \in writer'.settled
<1>1. Typed /\ Course /\ Walking /\ Linked BY DEF Inv
<1>2. /\ phase = "walk" /\ pass = "copy" /\ outcome = "none" /\ ~writer.error
      /\ Walking'
      /\ \A m : (Seen(m))' <=> Seen(m) \/ m = n
      /\ ~Seen(n)
  BY <1>1, VisitMoves
<1>3. Linked' /\ firstOf' \in [Files -> Files \cup {Nothing}] BY <1>1, LinkedStep
<1>4. writer' = w /\ UNCHANGED <<tree, pass, target, cut, mishaps>> BY DEF Write, Visit
<1>5. ~w.error /\ phase' = "walk" /\ outcome' = "none" BY <1>2 DEF Write, ArchivesWell
<1>6. /\ \A m : (Kept(m))' <=> Kept(m)
      /\ \A m : (InPlace(m))' <=> InPlace(m)
  BY <1>4, SamePass
<1>7. Entries' BY <1>4, EntriesStep
<1>8. target \notin Versions BY DEF Versions
<1>9. Copied' /\ Reached' /\ Firm' /\ InRow'
  BY <1>4, <1>5, <1>8 DEF Copied, Reached, Firm, InRow
<1>10. Ignored'
  <2>1. ASSUME NEW f \in Files
        PROVE  f \in writer'.ignored <=> (Seen(f))' /\ InPlace(f) /\ ~Kept(f) /\ tree.type[f] # "broken"
    <3>1. f \in writer.ignored <=> Seen(f) /\ InPlace(f) /\ ~Kept(f) /\ tree.type[f] # "broken"
      BY <1>2 DEF Inv, Ignored
    <3>2. f \in writer'.ignored <=>
             f \in writer.ignored \/ (f = n /\ InPlace(n) /\ ~Kept(n) /\ tree.type[n] # "broken")
      BY <1>4 DEF ArchivesWell
    <3>3. CASE f = n BY <1>2, <3>1, <3>2, <3>3
    <3>4. CASE f # n BY <1>2, <3>1, <3>2, <3>4
    <3> QED BY <3>3, <3>4
  <2> QED BY <1>2, <1>4, <1>6, <2>1 DEF Ignored
<1>11. FailsForCause' BY <1>5 DEF FailsForCause
<1>12. Typed'
  <2>1. writer' \in Writers /\ Nested(writer'.deferred) BY <1>1, <1>4 DEF ArchivesWell, Typed
  <2> QED BY <1>1, <1>3, <1>4, <1>5, <2>1 DEF Typed
<1>13. Course' BY <1>1, <1>2, <1>4, <1>5 DEF Course
<1>14. \A d \in writer.settled : d \in writer'.settled BY <1>4 DEF ArchivesWell
<1> QED BY <1>2, <1>3, <1>7, <1>9, <1>10, <1>11, <1>12, <1>13, <1>14 DEF Inv, Settled

\* What appending an entry does to a writer.
LEMMA AppendEntry ==
    ASSUME NEW w \in Writers, NEW n \in Nodes, NEW l \in Files \cup {Nothing},
           NEW v, v = [w EXCEPT !.entries = Append(@, [node |-> n, link |-> l])]
    PROVE  /\ v \in Writers /\ v.entries = Append(w.entries, [node |-> n, link |-> l])
           /\ v.made = w.made /\ v.settled = w.settled /\ v.deferred = w.deferred
           /\ v.ignored = w.ignored /\ v.error = w.error
<1> DEFINE R == [node : Nodes, link : Files \cup {Nothing}]
           x == [node |-> n, link |-> l]
<1>1. w.entries \in Seq(R) /\ x \in R BY DEF Writers
<1>2. Append(w.entries, x) \in Seq(R)
  <2> HIDE DEF R, x
  <2> QED BY <1>1
<1>3. v = [w EXCEPT !.entries = Append(w.entries, x)] OBVIOUS
<1> HIDE DEF x
<1> QED BY <1>2, <1>3 DEF Writers, x

\* A folder becomes an entry, unless it is the root directory or has no attributes.
LEMMA EnterArchives ==
    ASSUME Inv, NEW n \in Nodes, EnterFolder(n), target = "archive"
    PROVE  /\ Inv'
           /\ \A d \in writer.settled : d \in writer'.settled
<1> DEFINE type == IF n \in tree.bare THEN "none" ELSE "plain"
<1>1. n \in Folders /\ n \notin Files BY SkeletonAssumption DEF EnterFolder
<1>2. Visit(n) BY <1>1 DEF EnterFolder, Visit, Advance
<1>3. PICK w : Write(w) /\ w = IF HasPlace(n) THEN NewFile(writer, n, type) ELSE writer
  BY DEF EnterFolder
<1>4. /\ pass = "copy" /\ ~writer.error /\ Present(n)
      /\ HasPlace(n) <=> InPlace(n)
  BY <1>2, VisitMoves DEF Inv
<1>5. writer \in Writers BY DEF Inv, Typed
<1>6. Kept(n) <=> InPlace(n) /\ (n \in tree.bare => n = Rootfs)
  BY <1>1, <1>4 DEF Kept, InPlace, Archived
<1>7. CASE w = writer /\ (Kept(n) => n = Rootfs)
  <2>1. ArchivesWell(w, n) BY <1>1, <1>4, <1>5, <1>7 DEF ArchivesWell
  <2> QED BY <1>2, <1>3, <2>1, ArchiveStep
<1>8. CASE InPlace(n) /\ n \in tree.bare
  <2>1. w = [writer EXCEPT !.ignored = @ \cup {n}] BY <1>3, <1>4, <1>8 DEF NewFile, Supported
  <2>2. /\ w \in Writers /\ w.error = writer.error /\ w.made = writer.made /\ w.entries = writer.entries
        /\ w.settled = writer.settled /\ w.deferred = writer.deferred
        /\ w.ignored = writer.ignored \cup {n}
    BY <1>5, <2>1, WriterKinds
  <2>3. ArchivesWell(w, n) BY <1>1, <1>4, <1>6, <1>8, <2>2 DEF ArchivesWell
  <2> QED BY <1>2, <1>3, <2>3, ArchiveStep
<1>9. CASE InPlace(n) /\ n \notin tree.bare /\ n # Rootfs
  <2>1. w = [writer EXCEPT !.entries = Append(@, [node |-> n, link |-> Nothing])]
    BY <1>3, <1>4, <1>9 DEF NewFile, Supported
  <2>2. /\ w \in Writers /\ w.entries = Append(writer.entries, [node |-> n, link |-> Nothing])
        /\ w.made = writer.made /\ w.settled = writer.settled /\ w.deferred = writer.deferred
        /\ w.ignored = writer.ignored /\ w.error = writer.error
    BY <1>5, <2>1, AppendEntry
  <2>3. ArchivesWell(w, n) BY <1>1, <1>4, <1>9, <2>2 DEF ArchivesWell
  <2> QED BY <1>2, <1>3, <2>3, ArchiveStep
<1>10. CASE InPlace(n) /\ n \notin tree.bare /\ n = Rootfs
  <2>1. w = writer BY <1>3, <1>4, <1>10 DEF NewFile, Supported
  <2> QED BY <1>7, <1>10, <2>1
<1>11. CASE ~InPlace(n)
  BY <1>3, <1>4, <1>6, <1>7, <1>11
<1> QED BY <1>8, <1>9, <1>10, <1>11

\* A plain file becomes an entry, the next of its links an entry that refers to it;
\* a link of a broken symbolic link becomes one, too.
LEMMA VisitArchives ==
    ASSUME Inv, NEW n \in Nodes, VisitFile(n), target = "archive"
    PROVE  /\ Inv'
           /\ \A d \in writer.settled : d \in writer'.settled
<1> DEFINE first == First(n)
           type == tree.type[n]
<1>1. n \in Files /\ n \notin Folders /\ n # Rootfs BY SkeletonAssumption DEF VisitFile
<1>2. Visit(n) BY <1>1 DEF VisitFile, Visit, Advance
<1>3. PICK w : /\ Write(w)
               /\ w = IF ~HasPlace(n) THEN writer
                      ELSE IF first # Nothing THEN HardLink(writer, n, first)
                      ELSE IF type = "broken" THEN writer
                      ELSE NewFile(writer, n, type)
  BY DEF VisitFile
<1>4. /\ pass = "copy" /\ ~writer.error /\ Present(n)
      /\ HasPlace(n) <=> InPlace(n)
  BY <1>2, VisitMoves DEF Inv
<1>5. writer \in Writers BY DEF Inv, Typed
<1>6. \A f \in Files : Kept(f) <=> Present(f) /\ InPlace(f) /\ tree.type[f] = "plain"
  BY <1>4, SkeletonAssumption DEF Kept, InPlace, Archived
<1>7. ASSUME w = writer, ~InPlace(n) \/ type = "broken" PROVE ArchivesWell(w, n)
  BY <1>1, <1>4, <1>5, <1>6, <1>7 DEF ArchivesWell
<1>8. ASSUME w = [writer EXCEPT !.ignored = @ \cup {n}], InPlace(n), type \notin {"plain", "broken"}
      PROVE  ArchivesWell(w, n)
  <2>1. /\ w \in Writers /\ w.error = writer.error /\ w.made = writer.made /\ w.entries = writer.entries
        /\ w.settled = writer.settled /\ w.deferred = writer.deferred
        /\ w.ignored = writer.ignored \cup {n}
    BY <1>5, <1>8, WriterKinds
  <2> QED BY <1>1, <1>4, <1>6, <1>8, <2>1 DEF ArchivesWell
<1>9. ASSUME w = [writer EXCEPT !.entries = Append(@, [node |-> n, link |-> first])], InPlace(n),
             type = "plain" \/ (type = "broken" /\ first # Nothing)
      PROVE  ArchivesWell(w, n)
  <2>0. first \in Files \cup {Nothing} BY <1>1, TreeTypes DEF Inv
  <2> HIDE DEF first
  <2>1. /\ w \in Writers /\ w.entries = Append(writer.entries, [node |-> n, link |-> first])
        /\ w.made = writer.made /\ w.settled = writer.settled /\ w.deferred = writer.deferred
        /\ w.ignored = writer.ignored /\ w.error = writer.error
    BY <1>5, <1>9, <2>0, AppendEntry
  <2> USE DEF first
  <2>2. ~Kept(n) /\ type # "broken" => FALSE BY <1>1, <1>4, <1>6, <1>9
  <2> QED BY <1>1, <1>4, <1>9, <2>1, <2>2 DEF ArchivesWell
<1>10. ArchivesWell(w, n)
  <2>1. CASE ~InPlace(n) BY <1>3, <1>4, <1>7, <2>1
  <2>2. CASE InPlace(n) /\ first # Nothing
    <3>1. w = HardLink(writer, n, first) BY <1>3, <1>4, <2>2
    <3>2. first \in Links(n) /\ Seen(first) /\ InPlace(first)
      BY <1>1, <1>2, <2>2, LinkedStep DEF Inv
    <3>3. first \in Files /\ tree.type[first] = type
      BY <1>1, <3>2, TreeTypes DEF Inv
    <3>4. first \in writer.ignored <=> type \notin {"plain", "broken"}
      BY <1>4, <1>6, <3>2, <3>3 DEF Inv, Ignored, Seen
    <3>5. CASE first \in writer.ignored
      <4>1. w = [writer EXCEPT !.ignored = @ \cup {n}] BY <3>1, <3>5 DEF HardLink
      <4> QED BY <1>8, <2>2, <3>4, <3>5, <4>1
    <3>6. CASE first \notin writer.ignored
      <4>1. w = [writer EXCEPT !.entries = Append(@, [node |-> n, link |-> first])]
        BY <3>1, <3>6 DEF HardLink
      <4> QED BY <1>9, <2>2, <3>4, <3>6, <4>1
    <3> QED BY <3>5, <3>6
  <2>3. CASE InPlace(n) /\ first = Nothing /\ type = "broken"
    BY <1>3, <1>7, <2>3
  <2>4. CASE InPlace(n) /\ first = Nothing /\ type \notin {"plain", "broken"}
    <3>1. w = [writer EXCEPT !.ignored = @ \cup {n}] BY <1>3, <1>4, <2>4 DEF NewFile, Supported
    <3> QED BY <1>8, <2>4, <3>1
  <2>5. CASE InPlace(n) /\ first = Nothing /\ type = "plain"
    <3>1. w = NewFile(writer, n, type) BY <1>3, <1>4, <2>5
    <3>2. w = [writer EXCEPT !.entries = Append(@, [node |-> n, link |-> Nothing])]
      BY <1>1, <2>5, <3>1 DEF NewFile, Supported
    <3> QED BY <1>9, <2>5, <3>2
  <2> QED BY <2>1, <2>2, <2>3, <2>4, <2>5
<1> QED BY <1>2, <1>3, <1>10, ArchiveStep

-----------------------------------------------------------------------------
(* Installing an archive *)

LEMMA RootKept == Kept(Rootfs) /\ InPlace(Rootfs)
BY RootPresent, SkeletonAssumption DEF Kept, InPlace, Under

\* Every entry is below the root directory.
LEMMA EntriesBelowRoot ==
    ASSUME Inv, Archived, ~writer.error, NEW i \in DOMAIN writer.entries
    PROVE  /\ Entry(i) \in Nodes /\ Entry(i) # Rootfs /\ Rootfs \in Above[Entry(i)]
           /\ writer.entries[i] = [node |-> Entry(i), link |-> writer.entries[i].link]
           /\ writer.entries[i].link \in Files \cup {Nothing}
<1> DEFINE R == [node : Nodes, link : Files \cup {Nothing}]
<1>1. writer.entries \in Seq(R) BY DEF Inv, Typed, Writers
<1>2. writer.entries[i] \in R
  <2> HIDE DEF R
  <2> QED BY <1>1
<1>3. Entry(i) # Rootfs /\ InPlace(Entry(i)) BY DEF Inv, Entries, EntryOK
<1> QED BY <1>2, <1>3 DEF InPlace, Under, Entry

\* rootfs is made before the first entry, and all that is still missing is entries.
LEMMA InstallStep ==
    ASSUME Inv, Install
    PROVE  Inv'
<1>1. Typed /\ Course /\ Walking /\ Linked BY DEF Inv
<1>2. /\ pass = "copy" /\ stack = <<>> /\ ~writer.error /\ phase = "done" /\ outcome = "ok" /\ target = "archive"
  BY <1>1 DEF Install, Course, Typed, Versions
<1>3. /\ pass' = "install" /\ target' \in Versions /\ phase' = "extract" /\ outcome' = "none"
      /\ UNCHANGED <<tree, stack, firstOf, cut, mishaps>>
  BY DEF Install
<1>4. Archived /\ Archived' BY <1>2, <1>3 DEF Archived
<1>5. Ahead = {} /\ Ahead' = {} /\ (\A m : (Seen(m))' <=> Seen(m)) /\ Walking'
  BY <1>1, <1>2, <1>3, StandStill, WalkEnds
<1>6. \A m : (Present(m))' <=> Present(m) BY <1>3, SameTree
<1>7. \A m : (Kept(m))' <=> Kept(m) BY <1>3, <1>4, <1>6 DEF Kept
<1>8. \A m : (InPlace(m))' <=> InPlace(m) BY <1>4 DEF InPlace
<1>9. \A m : (Same(m))' = Same(m) BY <1>3 DEF Same, First
<1>10. writer \in Writers BY <1>1 DEF Typed
<1>11. /\ writer'.made = [n \in Nodes |-> IF n = Rootfs THEN Rootfs ELSE Nothing]
       /\ writer'.entries = writer.entries /\ writer'.ignored = {} /\ ~writer'.error
       /\ writer'.deferred = IF target' = "v2" THEN <<Rootfs>> ELSE <<>>
       /\ writer'.settled = IF target' = "v2" THEN {} ELSE {Rootfs}
       /\ writer' \in [made : {writer'.made}, settled : {writer'.settled}, deferred : {writer'.deferred},
                       ignored : {{}}, entries : {writer.entries}, error : {FALSE}]
  <2>1. Rootfs \in Nodes BY RootPresent
  <2> QED BY <1>10, <2>1 DEF Install, NewWriter, Writers
<1>12. Rootfs \in Nodes /\ Rootfs \in Folders BY SkeletonAssumption DEF Nodes
<1>13. writer' \in Writers /\ Nested(writer'.deferred) /\ Pile(writer') = {d \in {Rootfs} : target' = "v2"}
  <2>1. writer'.deferred \in Seq(Folders) /\ Nested(writer'.deferred) /\ Pile(writer') = {d \in {Rootfs} : target' = "v2"}
    <3>1. CASE target' = "v2"
      <4>1. writer'.deferred = <<Rootfs>> BY <1>11, <3>1
      <4> QED BY <1>12, <3>1, <4>1 DEF Nested, Pile
    <3>2. CASE target' # "v2"
      <4>1. writer'.deferred = <<>> BY <1>11, <3>2
      <4> QED BY <3>2, <4>1 DEF Nested, Pile
    <3> QED BY <3>1, <3>2
  <2>2. writer'.made \in [Nodes -> Nodes \cup {Nothing, Old}] BY <1>11, <1>12
  <2>3. writer'.settled \in SUBSET Folders BY <1>11, <1>12
  <2>4. writer.entries \in Seq([node : Nodes, link : Files \cup {Nothing}]) BY <1>10 DEF Writers
  <2>5. ASSUME NEW m \in [Nodes -> Nodes \cup {Nothing, Old}], NEW s \in SUBSET Folders, NEW d \in Seq(Folders),
               NEW e \in Seq([node : Nodes, link : Files \cup {Nothing}]),
               NEW r \in [made : {m}, settled : {s}, deferred : {d}, ignored : {{}}, entries : {e}, error : {FALSE}]
        PROVE  r \in Writers
    BY Zenon DEF Writers
  <2>6. writer' \in [made : {writer'.made}, settled : {writer'.settled}, deferred : {writer'.deferred},
                     ignored : {{}}, entries : {writer.entries}, error : {FALSE}]
    BY <1>11
  <2>7. writer'.deferred \in Seq(Folders) BY <2>1
  <2>8. writer' \in Writers BY <2>2, <2>3, <2>4, <2>5, <2>6, <2>7, Zenon
  <2> QED BY <2>1, <2>8
<1>14. /\ \A i \in DOMAIN writer.entries :
              /\ EntryOK(i, Entry(i), writer.entries[i].link)
              /\ \A j \in DOMAIN writer.entries : i < j =>
                    /\ Entry(i) # Entry(j)
                    /\ \A k \in DOMAIN writer.entries :
                          j < k /\ Entry(i) \in Above[Entry(k)] => Entry(i) \in Above[Entry(j)]
       /\ writer.made = [n \in Nodes |-> Nothing]
       /\ \A n \in Nodes : Kept(n) /\ Seen(n) /\ n # Rootfs => n \in Entered
  BY <1>2, <1>4 DEF Inv, Entries
<1>15. Entered' = Entered /\ (\A i : (Entry(i))' = Entry(i)) BY <1>11 DEF Entered, Entry
<1>16. Waiting' = Entered BY <1>3, <1>15 DEF Waiting
<1>17. Rootfs \notin Entered BY <1>14 DEF Entered, EntryOK
<1>18. \A n \in Nodes : Kept(n) /\ n \notin Entered <=> n = Rootfs
  BY <1>5, <1>14, <1>17, RootKept DEF Kept, Seen
<1>19. Rootfs # Nothing /\ Rootfs # Old /\ Nothing # Old
  BY <1>12, SkeletonAssumption, ForestAssumption
<1>20. Typed' BY <1>1, <1>3, <1>13 DEF Typed
<1>21. Course' BY <1>1, <1>2, <1>3, <1>11 DEF Course
<1>22. Linked'
  <2>1. \A f : (First(f))' = First(f) BY <1>3 DEF First
  <2>2. \A f : (Links(f))' = Links(f) BY <1>3 DEF Links
  <2>3. \A f : (Seen(First(f)))' <=> Seen(First(f)) BY <1>5, <2>1 DEF Seen, Ahead, Present, W
  <2> QED BY <1>1, <1>5, <1>8, <2>1, <2>2, <2>3 DEF Linked
<1>23. Copied'
  <2>1. \A n \in Nodes : writer'.made[n] = IF n = Rootfs THEN Rootfs ELSE Nothing BY <1>11
  <2> QED BY <1>7, <1>12, <1>16, <1>18, <1>19, <2>1 DEF Copied
<1>24. Ignored' BY <1>3, <1>11 DEF Ignored
<1>25. Reached' /\ Firm' /\ InRow'
  <2>1. Deferred' = Pile(writer') BY DEF Deferred, Pile
  <2>2. Deferred' \cup writer'.settled = {Rootfs} BY <1>11, <1>13, <2>1
  <2>3. Reached' BY <1>7, <1>16, <1>18, <2>2 DEF Reached, Nodes
  <2>4. Firm' BY <1>11, <1>16, <1>17, <2>2 DEF Firm
  <2>5. \A i \in DOMAIN writer.entries : Rootfs \in Above[Entry(i)] BY <1>2, <1>4, EntriesBelowRoot
  <2>6. InRow' BY <1>11, <1>15, <2>2, <2>5 DEF InRow
  <2> QED BY <2>3, <2>4, <2>6
<1>26. Entries'
  <2>1. ASSUME NEW i, NEW n \in Nodes, NEW l, EntryOK(i, n, l) PROVE (EntryOK(i, n, l))'
    <3>1. \A m : Earlier(i, m) => m \notin Nodes \/ (Earlier(i, m))'
      BY <1>11, <1>14, <1>15 DEF Earlier
    <3>2. l \in Nodes \/ l = Nothing \/ n \notin Files
      <4>1. n \in Files => Same(n) \in Nodes BY <1>1, TreeTypes DEF Same, Nodes
      <4> QED BY <2>1, <4>1 DEF EntryOK
    <3>3. \A d \in Above[n] : d \in Nodes BY <2>1, AboveFinite
    <3> QED BY <1>3, <1>5, <1>8, <1>9, <2>1, <3>1, <3>2, <3>3 DEF EntryOK
  <2>2. \A i \in DOMAIN writer.entries : Entry(i) \in Nodes BY <1>2, <1>4, EntriesBelowRoot
  <2> QED BY <1>3, <1>5, <1>11, <1>14, <1>15, <2>1, <2>2 DEF Entries
<1>27. FailsForCause' BY <1>3 DEF FailsForCause
<1> QED BY <1>5, <1>20, <1>21, <1>22, <1>23, <1>24, <1>25, <1>26, <1>27 DEF Inv, Settled

\* The entries that are left are those behind the first.
LEMMA TailEntries ==
    ASSUME writer \in Writers, writer.entries # <<>>, writer'.entries = Tail(writer.entries)
    PROVE  /\ 1 \in DOMAIN writer.entries
           /\ Head(writer.entries) = writer.entries[1]
           /\ DOMAIN writer.entries \subseteq Nat /\ DOMAIN writer'.entries \subseteq Nat
           /\ \A i \in DOMAIN writer'.entries :
                 i >= 1 /\ i + 1 \in DOMAIN writer.entries /\ writer'.entries[i] = writer.entries[i + 1]
           /\ \A i \in DOMAIN writer.entries : i = 1 \/ (i > 1 /\ i - 1 \in DOMAIN writer'.entries)
<1> DEFINE R == [node : Nodes, link : Files \cup {Nothing}]
           e == writer.entries
<1>1. e \in Seq(R) BY DEF Writers
<1> HIDE DEF R
<1>2. Len(e) \in Nat /\ Len(e) > 0 /\ DOMAIN e = 1 .. Len(e) BY <1>1
<1>3. DOMAIN Tail(e) = 1 .. Len(e) - 1 /\ \A i \in 1 .. Len(e) - 1 : Tail(e)[i] = e[i + 1]
  BY <1>1, <1>2
<1>4. Head(e) = e[1] BY <1>1, <1>2
<1> QED BY <1>2, <1>3, <1>4

\* What the properties of a step follow from that extracts the entry of a file.
ExtractsWell(v, n) ==
    /\ v \in Writers /\ Nested(v.deferred) /\ Attributed(writer, v, n)
    /\ v.entries = Tail(writer.entries) /\ v.ignored = {}
    /\ v.error => v.made = writer.made /\ \E m \in Nodes : Causes(m)
    /\ ~v.error =>
          /\ \A m \in Nodes : m # n => v.made[m] = writer.made[m]
          /\ v.made[n] # Nothing /\ v.made[n] # Old /\ Kept(n)
          /\ IF n \in Folders THEN n \in v.settled \cup Pile(v) ELSE v.made[n] = Same(n)

LEMMA ExtractKeeps ==
    ASSUME Inv, phase = "extract", writer.entries # <<>>, UNCHANGED <<tree, pass, target, stack, firstOf, cut, mishaps>>,
           NEW v, Write(v), NEW n \in Nodes, n = Entry(1), ExtractsWell(v, n)
    PROVE  /\ Inv'
           /\ \A d \in writer.settled : ~Exempt(d) => d \in writer'.settled
<1>1. Typed /\ Course /\ Walking /\ Linked /\ Copied /\ Reached /\ Firm /\ InRow /\ Entries
  BY DEF Inv, Settled
<1>2. /\ pass = "install" /\ target \in Versions /\ stack = <<>> /\ ~writer.error /\ outcome = "none"
      /\ writer \in Writers
  BY <1>1 DEF Course, Typed
<1>3. Archived BY <1>2 DEF Archived
<1>4. Ahead = {} /\ Ahead' = {} /\ (\A m : (Seen(m))' <=> Seen(m)) /\ Walking'
  BY <1>1, <1>2, StandStill, WalkEnds
<1>5. /\ \A m : (Kept(m))' <=> Kept(m)
      /\ \A m : (InPlace(m))' <=> InPlace(m)
      /\ \A m : (Present(m))' <=> Present(m)
      /\ \A m : (Links(m))' = Links(m)
      /\ Archived' <=> Archived
  BY SamePass
<1>6. (\A m : (First(m))' = First(m)) /\ \A m : (Same(m))' = Same(m) BY DEF First, Same
<1>7. writer' = v BY DEF Write
<1>8. /\ 1 \in DOMAIN writer.entries
      /\ DOMAIN writer.entries \subseteq Nat /\ DOMAIN writer'.entries \subseteq Nat
      /\ \A i \in DOMAIN writer'.entries :
            i >= 1 /\ i + 1 \in DOMAIN writer.entries /\ (Entry(i))' = Entry(i + 1)
            /\ writer'.entries[i] = writer.entries[i + 1]
      /\ \A i \in DOMAIN writer.entries : i = 1 \/ (i > 1 /\ i - 1 \in DOMAIN writer'.entries)
  <2>1. writer'.entries = Tail(writer.entries) BY <1>7 DEF ExtractsWell
  <2> QED BY <1>2, <2>1, TailEntries DEF Entry
<1>9. \A i \in DOMAIN writer.entries :
              /\ EntryOK(i, Entry(i), writer.entries[i].link)
              /\ \A j \in DOMAIN writer.entries : i < j =>
                    /\ Entry(i) # Entry(j)
                    /\ \A k \in DOMAIN writer.entries :
                          j < k /\ Entry(i) \in Above[Entry(k)] => Entry(i) \in Above[Entry(j)]
  BY <1>1, <1>2, <1>3 DEF Entries
<1>10. Handled(n)
  <2>1. \A i \in DOMAIN writer'.entries : (Entry(i))' \in Entered /\ (Entry(i))' # n
    <3>1. ASSUME NEW i \in DOMAIN writer'.entries PROVE (Entry(i))' \in Entered /\ (Entry(i))' # n
      <4>1. i \in Nat /\ i >= 1 /\ i + 1 \in DOMAIN writer.entries /\ (Entry(i))' = Entry(i + 1) BY <1>8
      <4>2. 1 < i + 1 BY <4>1
      <4>3. Entry(1) # Entry(i + 1) BY <1>8, <1>9, <4>1, <4>2
      <4> QED BY <4>1, <4>3 DEF Entered
    <3> QED BY <3>1
  <2>2. Entered' = {(Entry(i))' : i \in DOMAIN writer'.entries} BY DEF Entered
  <2>3. Entered' \subseteq Entered \ {n} BY <2>1, <2>2
  <2>4. ASSUME NEW i \in DOMAIN writer.entries, Entry(i) # n PROVE Entry(i) \in Entered'
    <3>1. i \in Nat /\ i > 1 /\ i - 1 \in DOMAIN writer'.entries BY <1>8, <2>4
    <3>2. (Entry(i - 1))' = Entry((i - 1) + 1) BY <1>8, <3>1
    <3>3. (i - 1) + 1 = i BY <3>1
    <3>4. (Entry(i - 1))' = Entry(i) BY <3>2, <3>3
    <3>5. (Entry(i - 1))' = writer'.entries[i - 1].node BY DEF Entry
    <3> QED BY <2>2, <3>1, <3>4
  <2>5. Entered' = Entered \ {n} BY <2>3, <2>4 DEF Entered
  <2>6. n \in Entered BY <1>8 DEF Entered
  <2> QED BY <1>2, <2>5, <2>6 DEF Handled, Waiting
<1>11. Copied'
  <2>1. n \in Files \/ n \in Folders BY DEF Nodes
  <2>2. ~writer'.error =>
              /\ \A m \in Nodes : m # n => writer'.made[m] = writer.made[m]
              /\ writer'.made[n] # Old
              /\ IF Kept(n) THEN IF n \in Folders THEN writer'.made[n] # Nothing
                                                  ELSE writer'.made[n] = (Same(n))'
                 ELSE writer'.made[n] \in {Nothing, Old}
    BY <1>6, <1>7, <2>1 DEF ExtractsWell
  <2>3. \A m \in Files : Kept(m) /\ m \notin Waiting => (Same(m))' = Same(m) BY <1>6
  <2> QED BY <1>1, <1>2, <1>10, <2>2, <2>3, CopiedStep
<1>12. Reached' /\ Firm' /\ \A d \in writer.settled : ~Exempt(d) => d \in writer'.settled
  <2>1. ASSUME NEW d \in Deferred, d \notin Above[n], NEW m \in Waiting' PROVE d \notin Above[m]
    <3>1. m \in Entered' BY <1>2, <2>1 DEF Waiting
    <3>2. PICK i \in DOMAIN writer'.entries : m = (Entry(i))' BY <3>1 DEF Entered
    <3>3. i \in Nat /\ i >= 1 /\ i + 1 \in DOMAIN writer.entries /\ m = Entry(i + 1) BY <1>8, <3>2
    <3>4. 1 < i + 1 BY <3>3
    <3> QED BY <1>1, <1>8, <2>1, <3>3, <3>4 DEF InRow
  <2>2. Attributed(writer, writer', n)
     /\ (~writer'.error /\ n \in Folders /\ Kept(n) => n \in writer'.settled \cup Pile(writer'))
    BY <1>7 DEF ExtractsWell
  <2> QED BY <1>1, <1>2, <1>10, <2>1, <2>2, SettledStep
<1>13. InRow'
  <2>1. Deferred' = Pile(writer') /\ Deferred = Pile(writer) BY DEF Deferred, Pile
  <2>2. Deferred' \subseteq Deferred \cup {n} BY <1>7, <2>1 DEF ExtractsWell, Attributed
  <2>3. SUFFICES ASSUME NEW d \in Deferred', NEW i \in DOMAIN writer'.entries, NEW j \in DOMAIN writer'.entries,
                        i < j, d \in Above[(Entry(j))']
                 PROVE  d \in Above[(Entry(i))']
    BY DEF InRow, Entry
  <2>4. /\ i \in Nat /\ j \in Nat /\ i >= 1 /\ j >= 1
        /\ i + 1 \in DOMAIN writer.entries /\ j + 1 \in DOMAIN writer.entries
        /\ (Entry(i))' = Entry(i + 1) /\ (Entry(j))' = Entry(j + 1)
    BY <1>8
  <2>5. i + 1 < j + 1 /\ 1 < i + 1 BY <2>3, <2>4
  <2>6. CASE d \in Deferred BY <1>1, <2>3, <2>4, <2>5, <2>6 DEF InRow
  <2>7. CASE d = n BY <1>8, <1>9, <2>3, <2>4, <2>5, <2>7
  <2> QED BY <2>2, <2>6, <2>7
<1>14. Entries'
  <2>1. SUFFICES ASSUME ~v.error PROVE Entries' BY <1>7 DEF Entries
  <2>2. writer'.made[n] # Nothing /\ \A m \in Nodes : m # n => writer'.made[m] = writer.made[m]
    BY <1>7, <2>1 DEF ExtractsWell
  <2>3. ASSUME NEW i \in DOMAIN writer'.entries, NEW m \in Nodes, Earlier(i + 1, m) PROVE (Earlier(i, m))'
    <3>1. CASE writer.made[m] # Nothing \/ m = n BY <2>2, <3>1 DEF Earlier
    <3>2. CASE m # n /\ \E j \in DOMAIN writer.entries : j < i + 1 /\ Entry(j) = m
      <4>1. PICK j \in DOMAIN writer.entries : j < i + 1 /\ Entry(j) = m BY <3>2
      <4>2. j # 1 BY <3>2, <4>1
      <4>3. j \in Nat /\ i \in Nat /\ j - 1 \in DOMAIN writer'.entries BY <1>8, <4>1, <4>2
      <4>4. j - 1 < i /\ (j - 1) + 1 = j BY <4>1, <4>3
      <4>5. writer'.entries[j - 1] = writer.entries[j] BY <1>8, <4>3, <4>4
      <4>6. writer'.entries[j - 1].node = m BY <4>1, <4>5 DEF Entry
      <4> QED BY <4>3, <4>4, <4>6 DEF Earlier, Entry
    <3> QED BY <2>3, <3>1, <3>2 DEF Earlier
  <2>4. ASSUME NEW i \in DOMAIN writer'.entries PROVE (EntryOK(i, Entry(i), writer.entries[i].link))'
    <3>1. PICK m, l : m = Entry(i + 1) /\ l = writer.entries[i + 1].link OBVIOUS
    <3>2. i + 1 \in DOMAIN writer.entries /\ (Entry(i))' = m /\ writer'.entries[i].link = l
      BY <1>8, <2>4, <3>1
    <3>3. EntryOK(i + 1, m, l) /\ m \in Nodes
      BY <1>1, <1>2, <1>3, <1>9, <3>1, <3>2, EntriesBelowRoot
    <3>4. l \in Nodes \/ l = Nothing
      <4>1. m \in Files => Same(m) \in Nodes BY <1>1, TreeTypes DEF Same, Nodes
      <4>2. m \in Files \/ m \in Folders BY <3>3 DEF Nodes
      <4> QED BY <3>3, <4>1, <4>2 DEF EntryOK
    <3>5. \A d \in Above[m] : d \in Nodes BY <3>3, AboveFinite
    <3>6. (EntryOK(i, m, l))' BY <1>4, <1>5, <1>6, <2>3, <3>3, <3>4, <3>5 DEF EntryOK
    <3> QED BY <3>2, <3>6
  <2>5. ASSUME NEW i \in DOMAIN writer'.entries, NEW j \in DOMAIN writer'.entries, i < j
        PROVE  /\ (Entry(i))' # (Entry(j))'
               /\ \A k \in DOMAIN writer'.entries :
                     j < k /\ (Entry(i))' \in Above[(Entry(k))'] => (Entry(i))' \in Above[(Entry(j))']
    <3>1. /\ i \in Nat /\ j \in Nat
          /\ i + 1 \in DOMAIN writer.entries /\ j + 1 \in DOMAIN writer.entries
          /\ (Entry(i))' = Entry(i + 1) /\ (Entry(j))' = Entry(j + 1)
      BY <1>8
    <3>2. i + 1 < j + 1 BY <2>5, <3>1
    <3>3. ASSUME NEW k \in DOMAIN writer'.entries, j < k
          PROVE  k + 1 \in DOMAIN writer.entries /\ (Entry(k))' = Entry(k + 1) /\ j + 1 < k + 1
      BY <1>8, <3>1, <3>3
    <3> QED BY <1>9, <3>1, <3>2, <3>3
  <2> QED BY <1>2, <1>4, <2>4, <2>5 DEF Entries, Entry
<1>15. FailsForCause'
  <2>1. outcome' = "error" => v.error BY <1>2 DEF Write
  <2>2. v.error => \E m \in Nodes : (Causes(m))'
    BY <1>5, <1>7 DEF ExtractsWell, Causes
  <2> QED BY <2>1, <2>2 DEF FailsForCause
<1>16. /\ v.error => phase' = "close" /\ outcome' = "error"
       /\ ~v.error => phase' = "extract" /\ outcome' = "none"
  BY <1>2 DEF Write
<1>17. Typed'
  <2>1. writer' \in Writers /\ Nested(writer'.deferred) BY <1>7 DEF ExtractsWell
  <2> QED BY <1>1, <1>16, <2>1 DEF Typed
<1>18. Course' BY <1>1, <1>2, <1>7, <1>16 DEF Course
<1>19. Linked'
  <2>1. \A f : (Seen(First(f)))' <=> Seen(First(f)) BY <1>4, <1>6 DEF Seen, Ahead, Present, W
  <2> QED BY <1>1, <1>4, <1>5, <1>6, <2>1 DEF Linked
<1>20. Ignored' BY <1>2, <1>7 DEF Ignored, ExtractsWell
<1> QED BY <1>4, <1>11, <1>12, <1>13, <1>14, <1>15, <1>17, <1>18, <1>19, <1>20 DEF Inv, Settled

\* An entry is made like the file it stands for, or fails for one of the causes.
LEMMA ExtractStep ==
    ASSUME Inv, Extract
    PROVE  /\ Inv'
           /\ \A d \in writer.settled : ~Exempt(d) => d \in writer'.settled
<1>1. Typed /\ Course /\ Walking /\ Linked /\ Copied /\ Firm /\ Entries
  BY DEF Inv, Settled
<1>2. /\ phase = "extract" /\ writer.entries # <<>> /\ UNCHANGED <<tree, pass, target, stack, firstOf, cut, mishaps>>
      /\ pass = "install" /\ target \in Versions /\ stack = <<>> /\ ~writer.error
      /\ writer \in Writers /\ Nested(writer.deferred)
  BY <1>1 DEF Extract, Course, Typed
<1>3. Archived BY <1>2 DEF Archived
<1>4. 1 \in DOMAIN writer.entries /\ Head(writer.entries) = writer.entries[1]
   /\ DOMAIN writer.entries \subseteq Nat /\ \A i \in DOMAIN writer.entries : i = 1 \/ i > 1
  <2> DEFINE R == [node : Nodes, link : Files \cup {Nothing}]
             e == writer.entries
  <2>1. e \in Seq(R) BY <1>2 DEF Writers
  <2> HIDE DEF R
  <2>2. Len(e) \in Nat /\ Len(e) > 0 /\ DOMAIN e = 1 .. Len(e) BY <1>2, <2>1
  <2> QED BY <1>2, <2>1, <2>2
<1>5. PICK n, l : n = Entry(1) /\ l = writer.entries[1].link OBVIOUS
<1>6. n \in Nodes /\ n # Rootfs /\ Rootfs \in Above[n] /\ Head(writer.entries) = [node |-> n, link |-> l]
   /\ l \in Files \cup {Nothing}
  BY <1>2, <1>3, <1>4, <1>5, EntriesBelowRoot
<1>7. EntryOK(1, n, l) BY <1>1, <1>2, <1>3, <1>4, <1>5 DEF Entries
<1>8. \A m : Earlier(1, m) <=> writer.made[m] # Nothing
  <2>1. \A j \in DOMAIN writer.entries : ~(j < 1) BY <1>4
  <2> QED BY <2>1 DEF Earlier
<1>9. PICK w : w = [writer EXCEPT !.entries = Tail(@)] OBVIOUS
<1>10. /\ w \in Writers /\ w.made = writer.made /\ w.settled = writer.settled /\ w.deferred = writer.deferred
       /\ w.ignored = writer.ignored /\ w.error = writer.error /\ w.entries = Tail(writer.entries)
  <2>1. Tail(writer.entries) \in Seq([node : Nodes, link : Files \cup {Nothing}])
    <3> DEFINE R == [node : Nodes, link : Files \cup {Nothing}]
    <3>1. writer.entries \in Seq(R) BY <1>2 DEF Writers
    <3>2. Tail(writer.entries) \in Seq(R)
      <4> HIDE DEF R
      <4> QED BY <1>2, <3>1
    <3> QED BY <3>2
  <2> QED BY <1>2, <1>9, <2>1 DEF Writers
<1>11. Pile(w) = Deferred /\ Nested(w.deferred) /\ w.ignored = {} /\ ~w.error
  BY <1>2, <1>10 DEF Pile, Deferred, Inv, Ignored
<1>12. PICK v : v = (IF l # Nothing THEN HardLink(w, n, l) ELSE NewFile(w, n, "plain")) /\ Write(v)
  <2>1. Head(writer.entries).node = n /\ Head(writer.entries).link = l BY <1>6
  <2> QED BY <1>9, <2>1 DEF Extract
<1>13. (n \in Folders => n \notin Files) /\ (n \in Files \/ n \in Folders)
  BY <1>6, SkeletonAssumption DEF Nodes
<1>14. Seen(n) /\ InPlace(n) /\ Present(n) BY <1>7 DEF EntryOK, Seen
<1>15. \A f \in Files : tree.type[f] = "plain" /\ Seen(f) /\ InPlace(f) => Kept(f)
  BY <1>3, SkeletonAssumption DEF Kept, InPlace, Seen
<1>16. Kept(n) \/ (n \in Files /\ tree.type[n] = "broken" /\ Same(n) # n)
  BY <1>3, <1>7, <1>13, <1>14, <1>15 DEF EntryOK, Kept, InPlace
<1>17. n \in Files /\ Same(n) # n => First(n) = Same(n) /\ First(n) # Nothing
  BY DEF Same
<1>18. n \in Files /\ Same(n) # n => Links(n) # {n} /\ First(n) \in Links(n) /\ Seen(First(n)) /\ InPlace(First(n))
  BY <1>1, <1>17 DEF Linked
<1>19. writer.made[n] = Nothing
  <2>1. n \in Waiting BY <1>2, <1>4, <1>5 DEF Waiting, Entered
  <2>2. writer.made[n] \in {Nothing, Old} /\ writer.made[n] # Old BY <1>1, <1>2, <1>6, <2>1 DEF Copied
  <2> QED BY <2>2
<1>20. ~There(w, n) BY <1>6, <1>10, <1>19, SkeletonAssumption DEF There
<1>21. ASSUME n \in Files, tree.type[n] = "broken" PROVE Causes(n)
  BY <1>7, <1>18, <1>21 DEF Causes, EntryOK
<1>22. ASSUME ~There(w, Parent(target, n)) PROVE \E m \in Nodes : Causes(m)
  <2> DEFINE p == Parent(target, n)
  <2>1. p \in Above[n] /\ p \in Nodes /\ p \in Folders /\ writer.made[p] = Nothing
    BY <1>6, <1>10, <1>22, ParentOf DEF There
  <2>2. p # Rootfs
    <3>1. \A i \in DOMAIN writer.entries : Entry(i) # Rootfs BY <1>2, <1>3, EntriesBelowRoot
    <3>2. Rootfs \notin Waiting BY <1>2, <3>1 DEF Waiting, Entered
    <3>3. Rootfs \in Folders /\ Rootfs \in Nodes BY SkeletonAssumption DEF Nodes
    <3>4. writer.made[Rootfs] # Nothing BY <1>1, <1>2, <3>2, <3>3, RootKept DEF Copied
    <3> QED BY <2>1, <3>4
  <2>3. p \in tree.bare BY <1>7, <1>8, <2>1, <2>2 DEF EntryOK
  <2>4. Present(p) BY <1>6, <1>14, <2>1, PresentAbove
  <2>5. InPlace(p) BY <1>3, <1>6, <1>14, <2>1, <2>2, AboveInPlace
  <2>6. CASE Kept(n)
    <3>1. Causes(p) BY <1>3, <1>6, <2>1, <2>3, <2>4, <2>5, <2>6 DEF Causes, InPlace
    <3> QED BY <2>1, <3>1
  <2>7. CASE ~Kept(n) BY <1>6, <1>16, <1>21, <2>7
  <2> QED BY <2>6, <2>7
<1>23. ASSUME v = Failed(w), \E m \in Nodes : Causes(m) PROVE ExtractsWell(v, n)
  <2>1. /\ v \in Writers /\ v.error /\ v.made = writer.made /\ v.entries = Tail(writer.entries)
        /\ v.settled = writer.settled /\ v.deferred = writer.deferred /\ v.ignored = {}
    BY <1>10, <1>11, <1>23, WriterKinds
  <2>2. Pile(v) = Pile(writer) BY <2>1 DEF Pile
  <2> QED BY <1>2, <1>23, <2>1, <2>2 DEF ExtractsWell, Attributed
<1>24. ASSUME NEW g, Landed(w, v, n, g), g # Nothing, g # Old, Kept(n),
              IF n \in Folders THEN n \in v.settled \cup Pile(v) ELSE g = Same(n)
       PROVE  ExtractsWell(v, n)
  <2>1. writer.made \in [Nodes -> Nodes \cup {Nothing, Old}] BY <1>2 DEF Writers
  <2>2. v.made[n] = g /\ \A m \in Nodes : m # n => v.made[m] = writer.made[m]
    BY <1>6, <1>10, <1>24, <2>1 DEF Landed
  <2>3. Attributed(writer, v, n) BY <1>10, <1>24 DEF Landed, Attributed, Pile
  <2>4. /\ v \in Writers /\ Nested(v.deferred) /\ v.entries = Tail(writer.entries) /\ v.ignored = {} /\ ~v.error
    BY <1>10, <1>11, <1>24 DEF Landed
  <2> QED BY <1>24, <2>2, <2>3, <2>4 DEF ExtractsWell
<1>25. ASSUME l # Nothing PROVE ExtractsWell(v, n)
  <2>1. v = HardLink(w, n, l) BY <1>12, <1>25
  <2>2. n \in Files BY <1>7, <1>13, <1>25 DEF EntryOK
  <2>3. l = Same(n) /\ l # n BY <1>7, <1>25, <2>2 DEF EntryOK
  <2>4. l = First(n) /\ l \in Links(n) BY <1>17, <1>18, <2>2, <2>3
  <2>5. l \in Files /\ l \in Nodes /\ l \notin Folders /\ l # Base /\ l # Old
     /\ tree.type[l] = tree.type[n] /\ First(l) = l /\ Same(l) = l
    BY <1>1, <2>2, <2>4, TreeTypes, SkeletonAssumption DEF Nodes, Same
  <2>6. CASE v = Failed(w) /\ ~There(w, l)
    <3>1. writer.made[l] = Nothing BY <1>10, <2>6 DEF There
    <3>2. tree.type[n] # "plain" BY <1>7, <1>8, <1>25, <2>2, <3>1 DEF EntryOK
    <3>3. tree.type[n] = "broken" BY <1>7, <2>2, <3>2 DEF EntryOK
    <3> QED BY <1>6, <1>21, <1>23, <2>2, <2>6, <3>3
  <2>7. CASE v = Failed(w) /\ ~There(w, Parent(target, n))
    BY <1>22, <1>23, <2>7
  <2>8. CASE There(w, l) /\ Landed(w, v, n, w.made[l])
    <3>1. writer.made[l] # Nothing /\ writer.made[l] # Old
      BY <1>1, <1>2, <1>10, <2>5, <2>8 DEF There, Copied
    <3>2. Kept(l) /\ l \notin Waiting BY <1>1, <1>2, <2>5, <3>1 DEF Copied
    <3>3. writer.made[l] = l BY <1>1, <1>2, <2>5, <3>2 DEF Copied
    <3>4. tree.type[n] = "plain" BY <1>3, <2>5, <3>2 DEF Kept
    <3>5. Kept(n) BY <1>14, <1>15, <2>2, <3>4
    <3> QED BY <1>10, <1>13, <1>24, <1>25, <2>2, <2>3, <2>5, <2>8, <3>3, <3>5
  <2>9. l \notin w.ignored BY <1>11
  <2> QED
    BY <1>2, <1>6, <1>10, <1>11, <1>20, <2>1, <2>5, <2>6, <2>7, <2>8, <2>9, HardLinkDoes
<1>26. ASSUME l = Nothing PROVE ExtractsWell(v, n)
  <2>1. v = NewFile(w, n, "plain") BY <1>12, <1>26
  <2>2. n \in Files => Same(n) = n /\ tree.type[n] = "plain"
    <3>1. n \in Files => Same(n) # Nothing BY <1>1, TreeTypes DEF Same
    <3> QED BY <1>7, <1>26, <3>1 DEF EntryOK
  <2>3. Kept(n) BY <1>16, <2>2
  <2>4. Supported("plain") BY DEF Supported
  <2>5. target = "v2" => n \notin Pile(w)
    <3>1. n \in Waiting BY <1>2, <1>4, <1>5 DEF Waiting, Entered
    <3> QED BY <1>1, <1>2, <1>11, <3>1 DEF Firm
  <2>6. CASE v = Failed(w) /\ ~There(w, Parent(target, n))
    BY <1>22, <1>23, <2>6
  <2>7. n # Nothing /\ n # Old BY <1>6, SkeletonAssumption
  <2>8. CASE n \in Files /\ Landed(w, v, n, n)
    BY <1>13, <1>24, <2>2, <2>3, <2>7, <2>8
  <2>9. CASE n \in Folders /\ n \in v.settled \cup Pile(v) /\ Landed(w, v, n, n)
    BY <1>24, <2>3, <2>7, <2>9
  <2> QED
    BY <1>2, <1>6, <1>10, <1>11, <1>13, <1>20, <2>1, <2>4, <2>5, <2>6, <2>8, <2>9, NewFileDoes
<1> QED BY <1>2, <1>5, <1>6, <1>12, <1>25, <1>26, ExtractKeeps

-----------------------------------------------------------------------------
(* The end of a pass *)

\* What leaves the files of the target and what is still to come alone, leaves almost all
\* of the invariant.
LEMMA Aside ==
    ASSUME Inv, UNCHANGED <<tree, pass, target, firstOf>>, Ahead' = Ahead, Typed',
           writer'.made = writer.made, writer'.ignored = writer.ignored,
           writer'.entries = writer.entries, writer'.error = writer.error,
           writer'.settled \cup Pile(writer') = writer.settled \cup Pile(writer),
           phase' \in {"close", "done"} \/ UNCHANGED <<phase, writer>>
    PROVE  Linked' /\ Copied' /\ Ignored' /\ Settled' /\ Entries'
<1>1. /\ \A m : (Kept(m))' <=> Kept(m)
      /\ \A m : (InPlace(m))' <=> InPlace(m)
      /\ \A m : (Present(m))' <=> Present(m)
      /\ \A m : (Links(m))' = Links(m)
      /\ \A m : (Exempt(m))' <=> Exempt(m)
      /\ Archived' <=> Archived
  BY SamePass
<1>2. (\A m : (First(m))' = First(m)) /\ \A m : (Same(m))' = Same(m) BY DEF First, Same
<1>3. \A m : (Seen(m))' <=> Seen(m) BY <1>1 DEF Seen
<1>4. (\A i : (Entry(i))' = Entry(i)) /\ Entered' = Entered BY DEF Entry, Entered
<1>5. Waiting' = Waiting BY <1>4 DEF Waiting
<1>6. Deferred' = Pile(writer') /\ Deferred = Pile(writer) BY DEF Deferred, Pile
<1>7. Linked'
  <2>1. \A f : (Seen(First(f)))' <=> Seen(First(f)) BY <1>2, <1>3 DEF Seen, Ahead, Present, W
  <2>2. \A f : (InPlace(First(f)))' <=> InPlace(First(f)) BY <1>1, <1>2 DEF InPlace
  <2> QED BY <1>1, <1>2, <1>3, <2>1, <2>2 DEF Linked, Inv
<1>8. Copied' BY <1>1, <1>2, <1>5 DEF Copied, Inv
<1>9. Ignored' BY <1>1, <1>3 DEF Ignored, Inv
<1>10. Reached' BY <1>1, <1>5, <1>6 DEF Reached, Settled, Inv
<1>11. Firm' /\ InRow'
  <2>1. CASE phase' \in {"close", "done"} BY <2>1 DEF Firm, InRow
  <2>2. CASE UNCHANGED <<phase, writer>>
    <3>1. Deferred' = Deferred BY <1>6, <2>2 DEF Pile
    <3>2. Firm' BY <1>1, <1>5, <2>2, <3>1 DEF Firm, Settled, Inv
    <3>3. InRow' BY <1>4, <2>2, <3>1 DEF InRow, Settled, Inv
    <3> QED BY <3>2, <3>3
  <2> QED BY <2>1, <2>2
<1>12. Entries'
  <2>1. \A i, n, l : EntryOK(i, n, l) => (EntryOK(i, n, l))'
    <3>1. \A i, m : Earlier(i, m) => (Earlier(i, m))' BY <1>4 DEF Earlier
    <3> QED BY <1>1, <1>2, <1>3, <3>1 DEF EntryOK
  <2>2. \A i \in DOMAIN writer.entries :
          EntryOK(i, Entry(i), writer.entries[i].link) => (EntryOK(i, Entry(i), writer.entries[i].link))'
    <3>1. SUFFICES ASSUME NEW i \in DOMAIN writer.entries, EntryOK(i, Entry(i), writer.entries[i].link)
                   PROVE  (EntryOK(i, Entry(i), writer.entries[i].link))'
      OBVIOUS
    <3>2. PICK n, l : n = Entry(i) /\ l = writer.entries[i].link OBVIOUS
    <3>3. (Entry(i))' = n /\ writer'.entries[i].link = l BY <1>4, <3>2
    <3>4. (EntryOK(i, n, l))' BY <2>1, <3>1, <3>2
    <3> QED BY <3>3, <3>4
  <2> QED BY <1>1, <1>3, <1>4, <2>2 DEF Entries, Inv
<1> QED BY <1>7, <1>8, <1>9, <1>10, <1>11, <1>12 DEF Settled

\* A directory is left; with the last one the walk is over.
LEMMA LeaveStep ==
    ASSUME Inv, LeaveFolder
    PROVE  Inv' /\ writer' = writer
<1>1. Typed /\ Course /\ Walking /\ FailsForCause BY DEF Inv
<1>2. /\ phase = "walk" /\ stack # <<>> /\ Top.left = {} /\ stack' = Front(stack)
      /\ UNCHANGED <<tree, pass, target, firstOf, writer, cut, mishaps>>
      /\ pass = "copy" /\ outcome = "none" /\ ~writer.error
  BY <1>1 DEF LeaveFolder, Course
<1>3. Walking' /\ Ahead' = Ahead /\ (Len(stack) > 1 \/ stack' = <<>>) BY <1>1, <1>2, MoveBack
<1>4. \/ Len(stack) > 1 /\ UNCHANGED <<phase, outcome>>
      \/ stack' = <<>> /\ phase' = "close" /\ outcome' = "ok"
  BY <1>3 DEF LeaveFolder
<1>5. Typed' BY <1>1, <1>2, <1>4 DEF Typed
<1>6. Course' BY <1>1, <1>2, <1>4 DEF Course
<1>7. writer'.settled \cup Pile(writer') = writer.settled \cup Pile(writer) BY <1>2 DEF Pile
<1>8. Linked' /\ Copied' /\ Ignored' /\ Settled' /\ Entries' BY <1>2, <1>3, <1>4, <1>5, <1>7, Aside
<1>9. FailsForCause' BY <1>2, <1>4 DEF FailsForCause
<1> QED BY <1>2, <1>3, <1>5, <1>6, <1>8, <1>9 DEF Inv

\* The destructor takes a folder off the stack and writes its attributes.
LEMMA SettleStep ==
    ASSUME Inv, SettleFolder
    PROVE  Inv' /\ writer.settled \subseteq writer'.settled
<1> DEFINE s == writer.deferred
           t == Front(s)
           k == Len(s)
<1>1. Typed /\ Course /\ Walking /\ FailsForCause BY DEF Inv
<1>2. /\ phase = "close" /\ s # <<>> /\ writer' = [writer EXCEPT !.deferred = t, !.settled = @ \cup {Last(s)}]
      /\ UNCHANGED <<tree, pass, target, phase, stack, firstOf, outcome, cut, mishaps>>
      /\ writer \in Writers /\ s \in Seq(Folders) /\ Nested(s)
  BY <1>1 DEF SettleFolder, Typed, Writers
<1>3. k \in Nat /\ k > 0 /\ DOMAIN s = 1 .. k /\ (\A i \in 1 .. k : s[i] \in Folders) /\ Last(s) = s[k]
  BY <1>2 DEF Last
<1>4. t \in Seq(Folders) /\ DOMAIN t = 1 .. k - 1 /\ \A i \in 1 .. k - 1 : t[i] = s[i]
  <2> HIDE DEF s
  <2> QED BY <1>2, <1>3 DEF Front
<1>5. /\ writer' \in Writers /\ writer'.made = writer.made /\ writer'.ignored = writer.ignored
      /\ writer'.entries = writer.entries /\ writer'.error = writer.error
      /\ writer'.deferred = t /\ writer'.settled = writer.settled \cup {s[k]}
  <2>1. Last(s) \in Folders BY <1>3
  <2> HIDE DEF s, t
  <2> QED BY <1>2, <1>3, <1>4, <2>1 DEF Writers
<1>6. Nested(t)
  <2> HIDE DEF t
  <2> QED BY <1>2, <1>3, <1>4 DEF Nested
<1>7. writer'.settled \cup Pile(writer') = writer.settled \cup Pile(writer)
  <2>1. Pile(writer') = {t[i] : i \in DOMAIN t} BY <1>5 DEF Pile
  <2>2. Pile(writer) = {s[i] : i \in DOMAIN s} BY DEF Pile
  <2>3. \A i \in DOMAIN s : i \in DOMAIN t \/ i = k BY <1>3, <1>4
  <2>4. \A i \in DOMAIN t : i \in DOMAIN s /\ t[i] = s[i] BY <1>3, <1>4, SMTT(60)
  <2>5. k \in DOMAIN s BY <1>3
  <2> HIDE DEF s, t, k
  <2> QED BY <1>5, <2>1, <2>2, <2>3, <2>4, <2>5
<1>8. Walking' /\ Ahead' = Ahead BY <1>1, <1>2, StandStill
<1>9. Typed' BY <1>1, <1>2, <1>5, <1>6 DEF Typed
<1>10. Course' BY <1>1, <1>2, <1>5 DEF Course
<1>11. Linked' /\ Copied' /\ Ignored' /\ Settled' /\ Entries' BY <1>2, <1>5, <1>7, <1>8, <1>9, Aside
<1>12. FailsForCause'
  <2>1. \A n \in Nodes : Causes(n) => (Causes(n))'
    <3>1. (\A m : (Present(m))' <=> Present(m)) /\ (\A m : (Kept(m))' <=> Kept(m)) /\ \A m : (Links(m))' = Links(m)
      BY <1>2, SamePass
    <3> QED BY <1>2, <1>5, <3>1 DEF Causes
  <2> QED BY <1>1, <1>2, <2>1 DEF FailsForCause
<1> QED BY <1>5, <1>8, <1>9, <1>10, <1>11, <1>12 DEF Inv

\* The other steps touch neither the source nor the target.
LEMMA IdleStep ==
    ASSUME Inv, UNCHANGED <<tree, pass, target, stack, firstOf, writer>>,
           ExtractDone \/ CloseWriter \/ Fault \/ Kill \/ UNCHANGED vars
    PROVE  Inv'
<1>1. Typed /\ Course /\ Walking /\ FailsForCause BY DEF Inv
<1>2. Walking' /\ Ahead' = Ahead BY <1>1, StandStill
<1>3. mishaps \in Nat /\ MaxMishaps \in Nat BY <1>1, SkeletonAssumption DEF Typed
<1>4. /\ mishaps' \in 0 .. MaxMishaps /\ (mishaps' = 0 => mishaps = 0)
      /\ phase' \in {"walk", "extract", "close", "done"}
      /\ outcome' \in {"none", "ok", "error", "killed"}
      /\ phase' \in {"close", "done"} \/ UNCHANGED <<phase, outcome>>
      /\ outcome' = outcome \/ (outcome' = "ok" /\ phase = "extract" /\ writer.entries = <<>>)
         \/ (outcome' \in {"error", "killed"} /\ mishaps' > 0)
      /\ cut' \in BOOLEAN /\ (cut' => mishaps' > 0)
      /\ phase' = "done" /\ phase # "done" /\ mishaps' = 0 => writer.deferred = <<>>
  <2>1. CASE ExtractDone BY <1>1, <1>3, <2>1 DEF ExtractDone, Typed, Course
  <2>2. CASE CloseWriter BY <1>1, <2>2 DEF CloseWriter, Typed, Course
  <2>3. CASE Fault BY <1>1, <1>3, <2>3 DEF Fault, Typed, Course
  <2>4. CASE Kill BY <1>1, <1>3, <2>4 DEF Kill, Typed, Course
  <2>5. CASE UNCHANGED vars BY <1>1, <2>5 DEF vars, Typed, Course
  <2> QED BY <2>1, <2>2, <2>3, <2>4, <2>5
<1>5. Typed' BY <1>1, <1>4 DEF Typed
<1>6. Course' BY <1>1, <1>3, <1>4 DEF Course
<1>7. writer'.settled \cup Pile(writer') = writer.settled \cup Pile(writer) BY DEF Pile
<1>8. Linked' /\ Copied' /\ Ignored' /\ Settled' /\ Entries' BY <1>2, <1>4, <1>5, <1>7, Aside
<1>9. FailsForCause'
  <2>1. \A n \in Nodes : Causes(n) => (Causes(n))'
    <3>1. (\A m : (Present(m))' <=> Present(m)) /\ (\A m : (Kept(m))' <=> Kept(m)) /\ \A m : (Links(m))' = Links(m)
      BY SamePass
    <3> QED BY <3>1 DEF Causes
  <2> QED BY <1>1, <1>4, <2>1 DEF FailsForCause
<1> QED BY <1>2, <1>5, <1>6, <1>8, <1>9 DEF Inv

-----------------------------------------------------------------------------
(* The theorems *)

LEMMA InvInit == Init => Inv
<1> SUFFICES ASSUME Init PROVE Inv OBVIOUS
<1>1. /\ tree \in Trees /\ pass = "copy" /\ target \in Targets /\ phase = "walk"
      /\ stack = <<[dir |-> Base, left |-> Children(Base)]>>
      /\ firstOf = [f \in Files |-> Nothing] /\ outcome = "none" /\ cut \in BOOLEAN /\ ~cut /\ mishaps = 0
  BY DEF Init
<1>2. PICK old \in SUBSET Nodes : (target = "archive" => old = {}) /\ writer = NewWriter(old) BY DEF Init
<1>3. /\ writer \in Writers /\ writer.made = [n \in Nodes |-> IF n \in old THEN Old ELSE Nothing]
      /\ writer.settled = {} /\ writer.deferred = <<>> /\ writer.ignored = {} /\ writer.entries = <<>>
      /\ ~writer.error
  BY <1>2 DEF NewWriter, Writers
<1>4. Nested(writer.deferred) /\ Deferred = {} /\ DOMAIN writer.entries = {} BY <1>3 DEF Nested, Deferred, Pile
<1>5. Walking /\ Ahead = {n \in Nodes : Present(n)} BY <1>1, WalkStarts
<1>6. \A n \in Nodes : ~Seen(n) BY <1>5 DEF Seen
<1>7. Typed
  <2>1. MaxMishaps \in Nat /\ target \in Versions \cup {"archive"} BY <1>1, SkeletonAssumption
  <2> QED BY <1>1, <1>3, <1>4, <2>1 DEF Typed
<1>8. Course BY <1>1, <1>3 DEF Course
<1>9. Linked
  <2>1. \A f \in Files : First(f) = Nothing BY <1>1, <1>7, TreeTypes DEF First
  <2> QED BY <1>6, <2>1 DEF Linked, Nodes
<1>10. Copied
  <2>1. \A n \in Nodes : Kept(n) => n \in Waiting BY <1>1, <1>5 DEF Waiting, Kept
  <2> QED BY <1>1, <1>3, <2>1 DEF Copied
<1>11. Ignored BY <1>1, <1>3, <1>6 DEF Ignored, Nodes
<1>12. Settled
  <2>1. \A d \in Folders : Kept(d) => d \in Waiting BY <1>1, <1>5 DEF Waiting, Kept, Nodes
  <2> QED BY <1>1, <1>3, <1>4, <2>1 DEF Settled, Reached, Firm, InRow
<1>13. Entries
  <2>1. Archived => old = {} BY <1>1, <1>2 DEF Archived
  <2> QED BY <1>1, <1>3, <1>4, <1>6, <2>1 DEF Entries
<1>14. FailsForCause BY <1>1 DEF FailsForCause
<1> QED BY <1>5, <1>7, <1>8, <1>9, <1>10, <1>11, <1>12, <1>13, <1>14 DEF Inv

\* Every step keeps the invariant, and within a pass the attributes of folders.
LEMMA InvNext ==
    ASSUME Inv, [Next]_vars
    PROVE  /\ Inv'
           /\ pass' = pass => \A d \in writer.settled : ~Exempt(d) => d \in writer'.settled
<1>0. Typed BY DEF Inv
<1>1. ASSUME NEW n \in Nodes, EnterFolder(n)
      PROVE  Inv' /\ \A d \in writer.settled : ~Exempt(d) => d \in writer'.settled
  <2>1. target \in Versions \/ target = "archive" BY <1>0 DEF Typed
  <2> QED BY <1>1, <2>1, EnterCopies, EnterArchives
<1>2. ASSUME NEW n \in Nodes, VisitFile(n)
      PROVE  Inv' /\ \A d \in writer.settled : ~Exempt(d) => d \in writer'.settled
  <2>1. target \in Versions \/ target = "archive" BY <1>0 DEF Typed
  <2> QED BY <1>2, <2>1, VisitCopies, VisitArchives
<1>3. CASE LeaveFolder BY <1>3, LeaveStep
<1>4. CASE Install
  <2>1. pass' # pass BY <1>0, <1>4 DEF Install, Inv, Course, Typed, Versions
  <2> QED BY <1>4, <2>1, InstallStep
<1>5. CASE Extract BY <1>5, ExtractStep
<1>6. CASE SettleFolder BY <1>6, SettleStep
<1>7. CASE ExtractDone \/ CloseWriter \/ Fault \/ Kill \/ UNCHANGED vars
  <2>1. UNCHANGED <<tree, pass, target, stack, firstOf, writer>>
    BY <1>7 DEF ExtractDone, CloseWriter, Fault, Kill, vars
  <2> QED BY <1>7, <2>1, IdleStep
<1> QED BY <1>1, <1>2, <1>3, <1>4, <1>5, <1>6, <1>7 DEF Next, Finished

\* The invariant that the theorems below follow from: of every tree, in every order, what
\* the walk has come by is where it belongs, and what it has not come by is not there.
THEOREM Invariant == Spec => []Inv
<1>1. Init => Inv BY InvInit
<1>2. Inv /\ [Next]_vars => Inv' BY InvNext
<1> QED BY <1>1, <1>2, PTL DEF Spec

\* Every variable holds a value of its kind: no handler of wsl_reader, archive_reader or the
\* writers puts a folder on the stack of deferred attributes that is not in the one below.
THEOREM TypeCorrect == Spec => []TypeOK
<1>1. Inv => TypeOK
  <2> SUFFICES ASSUME Inv PROVE TypeOK OBVIOUS
  <2>1. Typed /\ Walking BY DEF Inv
  <2>2. \A i \in DOMAIN stack : stack[i].dir \in Folders \cup {Base} /\ stack[i].left \subseteq Children(stack[i].dir)
    <3> DEFINE R == [dir : Folders \cup {Base}, left : SUBSET Nodes]
    <3>1. stack \in Seq(R) BY <2>1 DEF Walking
    <3>2. \A i \in DOMAIN stack : stack[i] \in R
      <4> HIDE DEF R
      <4> QED BY <3>1
    <3> QED BY <2>1, <3>2 DEF Walking
  <2>3. /\ writer.made \in [Nodes -> Nodes \cup {Nothing, Old}]
        /\ writer.settled \subseteq Folders /\ writer.ignored \subseteq Nodes
    BY <2>1 DEF Typed, Writers
  <2> QED BY <2>1, <2>2, <2>3 DEF TypeOK, Typed, Nested
<1> QED BY <1>1, Invariant, PTL

\* A copy, or an export that is installed again, that is reported as a success has every
\* file it should have and no other, with the same hard links and folder attributes.
THEOREM CopiesAreFaithful == Spec => []CopyFaithful
<1>1. Inv => CopyFaithful
  <2> SUFFICES ASSUME Inv, phase = "done", outcome = "ok", target # "archive"
               PROVE  /\ \A n \in Nodes : IF Kept(n) THEN writer.made[n] # Nothing
                                          ELSE writer.made[n] \in {Nothing, Old}
                      /\ \A f, g \in {f \in Files : Kept(f)} :
                            writer.made[f] = writer.made[g] <=> tree.first[f] = tree.first[g]
                      /\ mishaps = 0 => \A d \in Folders :
                            Kept(d) /\ ~(d = Rootfs /\ tree.version = "legacy") => d \in writer.settled
    BY DEF CopyFaithful
  <2>1. Typed /\ Course /\ Linked /\ Copied /\ Reached BY DEF Inv, Settled
  <2>2. target \in Versions /\ ~writer.error /\ stack = <<>> BY <2>1 DEF Typed, Course
  <2>3. Waiting = {}
    <3>1. CASE pass = "copy" BY <2>2, <3>1, WalkEnds DEF Waiting
    <3>2. CASE pass = "install"
      <4>1. writer.entries = <<>> BY <2>1, <3>2 DEF Course
      <4> QED BY <3>2, <4>1 DEF Waiting, Entered
    <3> QED BY <2>1, <3>1, <3>2 DEF Typed
  <2>4. \A n \in Nodes :
           IF Kept(n) THEN IF n \in Folders THEN writer.made[n] # Nothing ELSE writer.made[n] = Same(n)
           ELSE writer.made[n] \in {Nothing, Old}
    BY <2>1, <2>2, <2>3 DEF Copied
  <2>5. \A f \in Files : f \in Nodes /\ f \notin Folders /\ f # Nothing BY SkeletonAssumption DEF Nodes
  <2>6. \A f \in Files : Same(f) # Nothing BY <2>5 DEF Same
  <2>7. ASSUME NEW n \in Nodes
        PROVE  IF Kept(n) THEN writer.made[n] # Nothing ELSE writer.made[n] \in {Nothing, Old}
    <3>1. n \in Files \/ n \in Folders BY DEF Nodes
    <3> QED BY <2>4, <2>5, <2>6, <3>1
  <2>8. ASSUME NEW f \in Files, NEW g \in Files, Kept(f), Kept(g)
        PROVE  writer.made[f] = writer.made[g] <=> tree.first[f] = tree.first[g]
    <3>1. writer.made[f] = Same(f) /\ writer.made[g] = Same(g) BY <2>4, <2>5, <2>8
    <3>2. ASSUME NEW h \in Files, Kept(h) PROVE Same(h) \in Links(h) /\ (Links(h) # {h} => Same(h) = First(h))
      <4>1. Seen(h) /\ InPlace(h)
        <5>1. Present(h) /\ InPlace(h) BY <3>2 DEF Kept, InPlace
        <5>2. h \notin Ahead BY <2>2, WalkEnds
        <5> QED BY <5>1, <5>2 DEF Seen
      <4>2. h \in Links(h) BY <3>2 DEF Links
      <4> QED BY <2>1, <4>1, <4>2 DEF Linked, Same
    <3>3. ASSUME Same(f) = Same(g) PROVE tree.first[f] = tree.first[g]
      BY <2>8, <3>2, <3>3 DEF Links
    <3>4. ASSUME tree.first[f] = tree.first[g], f # g PROVE Same(f) = Same(g)
      <4>1. g \in Links(f) /\ f \in Links(g) BY <3>4 DEF Links
      <4>2. Same(f) = First(f) /\ Same(g) = First(g) BY <2>8, <3>2, <3>4, <4>1
      <4> QED BY <3>4, <4>2 DEF First
    <3> QED BY <3>1, <3>3, <3>4
  <2>9. ASSUME mishaps = 0, NEW d \in Folders, Kept(d), ~(d = Rootfs /\ tree.version = "legacy")
        PROVE  d \in writer.settled
    <3>1. writer.deferred = <<>> BY <2>1, <2>9 DEF Course
    <3>2. Deferred = {} BY <3>1 DEF Deferred, Pile
    <3> QED BY <2>1, <2>2, <2>3, <2>9, <3>2 DEF Reached, Exempt
  <2> QED BY <2>7, <2>8, <2>9
<1> QED BY <1>1, Invariant, PTL

\* Without a failing call, a pass fails for one of three causes in the source or the target,
\* whatever the order of the enumeration.
THEOREM FailuresHaveCauses == Spec => []FailsForCause
<1>1. Inv => FailsForCause BY DEF Inv
<1> QED BY <1>1, Invariant, PTL

\* Attributes and times of a folder, once written, are not changed by a later file or link.
THEOREM TimesAreKept == Spec => AttributesStay
<1>1. Inv /\ [Next]_vars =>
         [\A d \in writer.settled :
             pass' = pass /\ ~(d = Rootfs /\ tree.version = "legacy") => d \in writer'.settled]_vars
  BY InvNext DEF Exempt
<1> QED BY <1>1, Invariant, PTL DEF Spec, AttributesStay
=============================================================================
