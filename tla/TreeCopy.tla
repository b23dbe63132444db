------------------------------ MODULE TreeCopy ------------------------------
(***************************************************************************)
(* lib/fs.cpp: wsl_reader::run walks the tree of a distribution and hands  *)
(* every file to a writer, which makes a tree of another file system       *)
(* version or an archive; archive_reader::run makes a tree of an archive.  *)
(* Directories and files are nodes of one skeleton, named by their Linux   *)
(* paths; a file system version decides where a node is on the disk.       *)
(***************************************************************************)
EXTENDS Naturals, Sequences, FiniteSets, SequencesExt

CONSTANTS
    Folders, Files, \* directories and other files of a distribution
    Above,          \* of each of them, the set of its ancestors in Linux
    Rootfs,         \* the directory that is / in Linux
    Relocated,      \* /home, /root, /mnt: beside rootfs in the legacy version
    Shadow,         \* the mount points in rootfs for these, legacy version only
    Base,           \* the directory of the distribution
    Nothing, Old,   \* no such file in the target; one that was there before
    Sources, Targets,   \* versions copied from; versions, or "archive", copied to
    MaxOdd,         \* bound: files that are not plain and folders without attributes
    MaxMishaps      \* bound: failing calls and killed processes

Nodes == Folders \cup Files
Versions == {"v1", "v2", "legacy"}

ASSUME SkeletonAssumption ==
    /\ Folders \cap Files = {} /\ Base \notin Nodes /\ {Nothing, Old} \cap (Nodes \cup {Base}) = {}
    /\ Rootfs \in Folders /\ Relocated \cup Shadow \subseteq Folders
    /\ Above \in [Nodes -> SUBSET Folders]
    /\ Sources \subseteq Versions /\ Targets \subseteq Versions \cup {"archive"} /\ MaxOdd \in Nat /\ MaxMishaps \in Nat

(* The folders above a file lie in each other; the root directory and what lies
   beside it in the legacy version have their places. *)
ASSUME ForestAssumption ==
    /\ IsFiniteSet(Nodes) /\ Old # Nothing
    /\ \A n \in Nodes : n \notin Above[n]
    /\ \A n \in Nodes : \A d \in Above[n] : Above[d] \subseteq Above[n]
    /\ \A n \in Nodes : \A c, d \in Above[n] : c = d \/ c \in Above[d] \/ d \in Above[c]
    /\ Above[Rootfs] = {} /\ \A r \in Relocated \cup Shadow : Above[r] = {Rootfs}

(* What read_attr says of a file: "plain" is every type that both writers take,
   "broken" a symbolic link without its reparse data, "none" no WSL attributes. *)
Types == {"plain", "broken", "socket", "unknown", "none"}

VARIABLES
    tree,       \* the source: version, hard links, types, folders without attributes
    pass,       \* "copy", or "install" of what an export has written
    target,     \* version of the target of this pass, or "archive"
    phase,      \* "walk", "extract", "close" or "done"
    stack,      \* enum_directory: open directories, each with what is still to come
    firstOf,    \* id_map: the first file visited of several that are hard links
    writer,     \* the target and the writer's own state
    cut,        \* whether the archive may end before its last entry does
    outcome, mishaps

vars == <<tree, pass, target, phase, stack, firstOf, writer, cut, outcome, mishaps>>

Parent(version, n) ==
    IF Above[n] = {} \/ (version = "legacy" /\ n \in Relocated) THEN Base
    ELSE CHOOSE d \in Above[n] : Above[d] = Above[n] \ {d}

Under(n, S) == n \in S \/ Above[n] \cap S # {}
Present(n) == Under(n, Shadow) => tree.version = "legacy"
Children(d) == {n \in Nodes : Present(n) /\ Parent(tree.version, n) = d}

(* A writer before its first file; an archive is the sequence of its entries. *)
NewWriter(old) ==
    [made     |-> [n \in Nodes |-> IF n \in old THEN Old ELSE Nothing],
     settled  |-> {},       \* folders whose attributes and times are those of the source
     deferred |-> <<>>,     \* dir_attr: folders whose attributes come later
     ignored  |-> {},       \* ignored_files
     entries  |-> <<>>,
     error    |-> FALSE]

Trees ==
    {t \in [version : Sources, first : [Files -> Files], type : [Files -> Types], bare : SUBSET Folders] :
        /\ \A f \in Files : t.first[f] = CHOOSE g \in Files : t.first[g] = t.first[f]
        /\ \A f \in Files : /\ t.type[f] = t.type[t.first[f]]
                            /\ t.type[f] = "broken" => t.version = "v2"
        /\ Cardinality(t.bare) + Cardinality({f \in Files : t.first[f] = f /\ t.type[f] # "plain"}) <= MaxOdd}

Init ==
    /\ tree \in Trees
    /\ pass = "copy" /\ target \in Targets
    /\ phase = "walk"
    /\ stack = <<[dir |-> Base, left |-> Children(Base)]>>
    /\ firstOf = [f \in Files |-> Nothing]
    /\ \E old \in SUBSET Nodes :
         /\ Cardinality(old) <= 1
         /\ target = "archive" => old = {}
         /\ \A n \in old : Parent(target, n) = Base /\ ~Under(n, Shadow)
         /\ writer = NewWriter(old)
    /\ cut = FALSE
    /\ outcome = "none"
    /\ mishaps = 0

-----------------------------------------------------------------------------
(* file_path::convert: what has no place in the target is passed over. *)
HasPlace(n) == ~Under(n, Shadow) /\ (target = "archive" => Under(n, {Rootfs}))

There(w, d) == d = Base \/ w.made[d] # Nothing
Failed(w) == [w EXCEPT !.error = TRUE]

(* A file that appears changes the times of its folder; version 1 keeps the
   times in an attribute of their own. *)
Put(w, n, m) ==
    [w EXCEPT !.made[n] = m,
              !.settled = IF target = "v2" THEN @ \ {Parent(target, n)} ELSE @]

Leaving(w, n) == SelectLastInSeq(w.deferred, LAMBDA d : d = n \/ d \in Above[n])

(* Mutant: the attributes of a folder are written as soon as it is made. *)
FolderAttrNow(w, n) == [w EXCEPT !.settled = @ \cup {n}]

(* Mutant: no folder is ever taken off the stack. *)
FolderAttrPile(w, n) == [w EXCEPT !.deferred = Append(@, n)]

(* wsl_v2_writer::write_attr of a folder: the folders that the walk has left get
   theirs, this one waits on the stack. *)
FolderAttr(w, n) ==
    IF target # "v2" THEN [w EXCEPT !.settled = @ \cup {n}]
    ELSE LET k == Leaving(w, n)
         IN  [w EXCEPT !.deferred = Append(SubSeq(@, 1, k), n),
                       !.settled = @ \cup {w.deferred[i] : i \in k + 1 .. Len(w.deferred)}]

(* fs_writer::check_attr *)
Supported(type) ==
    type = "plain" \/ (target # "archive" /\ type \in {"socket", "none"})

(* write_new_file.  A folder without attributes is taken for a regular file by
   wsl_writer, and a file cannot be created under a name that ends in \. *)
NewFile(w, n, type) ==
    IF ~Supported(type) THEN [w EXCEPT !.ignored = @ \cup {n}]
    ELSE IF target = "archive" THEN
        IF n = Rootfs THEN w
        ELSE [w EXCEPT !.entries = Append(@, [node |-> n, link |-> Nothing])]
    ELSE IF ~There(w, Parent(target, n)) THEN Failed(w)
    ELSE IF n \in Folders THEN
        IF type = "none" THEN Failed(w)
        ELSE FolderAttr(IF There(w, n) THEN w ELSE Put(w, n, n), n)
    ELSE IF There(w, n) THEN Failed(w)
    ELSE Put(w, n, n)

(* write_hard_link *)
HardLink(w, n, m) ==
    IF m \in w.ignored THEN [w EXCEPT !.ignored = @ \cup {n}]
    ELSE IF target = "archive" THEN [w EXCEPT !.entries = Append(@, [node |-> n, link |-> m])]
    ELSE IF ~There(w, m) \/ There(w, n) \/ ~There(w, Parent(target, n)) THEN Failed(w)
    ELSE Put(w, n, w.made[m])

(* An exception ends the pass; the destructor of the writer still runs. *)
Write(w) ==
    /\ writer' = w
    /\ IF w.error THEN phase' = "close" /\ outcome' = "error"
       ELSE UNCHANGED <<phase, outcome>>

-----------------------------------------------------------------------------
(* enum_directory: the entries of a folder in any order, but rootfs of a legacy
   distribution before everything beside it. *)
Top == Last(stack)

(* Mutant: the legacy layout is walked in any order. *)
TakeAny(n) ==
    /\ phase = "walk" /\ stack # <<>>
    /\ n \in Top.left

Take(n) ==
    /\ phase = "walk" /\ stack # <<>>
    /\ n \in Top.left
    /\ tree.version = "legacy" /\ Rootfs \in Top.left => n = Rootfs

Rest(n) == [stack EXCEPT ![Len(stack)].left = @ \ {n}]

EnterFolder(n) ==
    /\ n \in Folders /\ Take(n)
    /\ stack' = Append(Rest(n), [dir |-> n, left |-> Children(n)])
    /\ Write(IF HasPlace(n) THEN NewFile(writer, n, IF n \in tree.bare THEN "none" ELSE "plain")
             ELSE writer)
    /\ UNCHANGED <<tree, pass, target, firstOf, cut, mishaps>>

Links(f) == {g \in Files : tree.first[g] = tree.first[f]}
First(f) == firstOf[tree.first[f]]

(* Mutant: a second hard link is copied like any other file. *)
VisitFileUnlinked(n) ==
    /\ n \in Files /\ Take(n)
    /\ stack' = Rest(n)
    /\ Write(IF HasPlace(n) /\ tree.type[n] # "broken" THEN NewFile(writer, n, tree.type[n]) ELSE writer)
    /\ UNCHANGED <<tree, pass, target, firstOf, cut, mishaps>>

VisitFile(n) ==
    /\ n \in Files /\ Take(n)
    /\ stack' = Rest(n)
    /\ firstOf' = IF HasPlace(n) /\ Cardinality(Links(n)) > 1 /\ First(n) = Nothing
                  THEN [firstOf EXCEPT ![tree.first[n]] = n] ELSE firstOf
    /\ Write(IF ~HasPlace(n) THEN writer
             ELSE IF First(n) # Nothing THEN HardLink(writer, n, First(n))
             ELSE IF tree.type[n] = "broken" THEN writer
             ELSE NewFile(writer, n, tree.type[n]))
    /\ UNCHANGED <<tree, pass, target, cut, mishaps>>

LeaveFolder ==
    /\ phase = "walk" /\ stack # <<>> /\ Top.left = {}
    /\ stack' = Front(stack)
    /\ IF Len(stack) > 1 THEN UNCHANGED <<phase, outcome>> ELSE phase' = "close" /\ outcome' = "ok"
    /\ UNCHANGED <<tree, pass, target, firstOf, writer, cut, mishaps>>

-----------------------------------------------------------------------------
(* "install" of an archive that "export" has made: rootfs, with attributes of its
   own, before the first entry. *)
Install ==
    /\ phase = "done" /\ outcome = "ok" /\ target = "archive"
    /\ pass' = "install" /\ target' \in Versions
    /\ phase' = "extract" /\ outcome' = "none"
    /\ writer' = [NewWriter({}) EXCEPT !.entries = writer.entries,
                      !.made[Rootfs] = Rootfs,
                      !.deferred = IF target' = "v2" THEN <<Rootfs>> ELSE <<>>,
                      !.settled  = IF target' = "v2" THEN {} ELSE {Rootfs}]
    /\ UNCHANGED <<tree, stack, firstOf, cut, mishaps>>

Extract ==
    /\ phase = "extract" /\ writer.entries # <<>>
    /\ LET e == Head(writer.entries)
           w == [writer EXCEPT !.entries = Tail(@)]
       IN  Write(IF e.link # Nothing THEN HardLink(w, e.node, e.link) ELSE NewFile(w, e.node, "plain"))
    /\ UNCHANGED <<tree, pass, target, stack, firstOf, cut, mishaps>>

(* The loop ends behind the last entry; if the archive is cut, wherever that shows,
   libarchive reports an error and check_archive raises it. *)
ExtractDone ==
    /\ phase = "extract" /\ phase' = "close"
    /\ \/ writer.entries = <<>> /\ outcome' = "ok"
       \/ cut /\ outcome' = "error"
    /\ UNCHANGED <<tree, pass, target, stack, firstOf, writer, cut, mishaps>>

-----------------------------------------------------------------------------
(* wsl_v2_writer::~wsl_v2_writer *)
SettleFolder ==
    /\ phase = "close" /\ writer.deferred # <<>>
    /\ writer' = [writer EXCEPT !.deferred = Front(@), !.settled = @ \cup {Last(writer.deferred)}]
    /\ UNCHANGED <<tree, pass, target, phase, stack, firstOf, cut, outcome, mishaps>>

CloseWriter ==
    /\ phase = "close" /\ writer.deferred = <<>>
    /\ phase' = "done"
    /\ UNCHANGED <<tree, pass, target, stack, firstOf, writer, cut, outcome, mishaps>>

(* A call fails: an error while files are written, only logged in the destructor of
   wsl_v2_writer.  Nobody looks at the result of archive_write_free, which writes what
   is left in the buffers of an archive. *)
Fault ==
    /\ phase # "done" /\ mishaps < MaxMishaps /\ mishaps' = mishaps + 1
    /\ IF phase = "close" THEN phase' = "done" /\ outcome' = outcome
       ELSE phase' = "close" /\ outcome' = "error"
    /\ cut' = (cut \/ (phase = "close" /\ target = "archive"))
    /\ UNCHANGED <<tree, pass, target, stack, firstOf, writer>>

Kill ==
    /\ phase # "done" /\ mishaps < MaxMishaps /\ mishaps' = mishaps + 1
    /\ phase' = "done" /\ outcome' = "killed"
    /\ UNCHANGED <<tree, pass, target, stack, firstOf, writer, cut>>

Finished == phase = "done" /\ ~(outcome = "ok" /\ target = "archive") /\ UNCHANGED vars

Next ==
    \/ \E n \in Nodes : EnterFolder(n) \/ VisitFile(n)
    \/ LeaveFolder \/ Install \/ Extract \/ ExtractDone
    \/ SettleFolder \/ CloseWriter \/ Fault \/ Kill \/ Finished

Spec == Init /\ [][Next]_vars
-----------------------------------------------------------------------------
(* Properties *)

\* Every variable holds a value of its kind; the folders on the stack of deferred
\* attributes lie in each other, in the order of the stack.
TypeOK ==
    /\ tree \in Trees /\ pass \in {"copy", "install"} /\ target \in Versions \cup {"archive"}
    /\ phase \in {"walk", "extract", "close", "done"}
    /\ outcome \in {"none", "ok", "error", "killed"} /\ mishaps \in 0 .. MaxMishaps
    /\ \A i \in DOMAIN stack : stack[i].dir \in Folders \cup {Base} /\ stack[i].left \subseteq Children(stack[i].dir)
    /\ firstOf \in [Files -> Files \cup {Nothing}] /\ cut \in BOOLEAN
    /\ writer.made \in [Nodes -> Nodes \cup {Nothing, Old}]
    /\ writer.settled \subseteq Folders /\ writer.ignored \subseteq Nodes
    /\ \A i, j \in DOMAIN writer.deferred : i < j => writer.deferred[i] \in Above[writer.deferred[j]]

(* What a pass has to bring over: what has a place in every target so far, and a
   type that check_attr lets through there. *)
Archived == target = "archive" \/ pass = "install"
Kept(n) ==
    /\ Present(n) /\ ~Under(n, Shadow)
    /\ Archived => Under(n, {Rootfs})
    /\ IF n \in Folders THEN ~(Archived /\ n \in tree.bare /\ n # Rootfs)
       ELSE tree.type[n] \in {"plain"} \cup (IF Archived THEN {} ELSE {"socket", "none"})

\* A copy ("move", "duplicate") or an export that is installed again, reported as a
\* success, whether its archive was closed without a failure or not, has every file it should have and no other, and files are one file in
\* the target if and only if they are in the source.  If no call of the destructor
\* failed, the folders have their attributes and times, except rootfs of a legacy
\* distribution, which receives /home after it was left.
CopyFaithful ==
    phase = "done" /\ outcome = "ok" /\ target # "archive" =>
        /\ \A n \in Nodes : IF Kept(n) THEN writer.made[n] # Nothing
                            ELSE writer.made[n] \in {Nothing, Old}
        /\ \A f, g \in {f \in Files : Kept(f)} :
              writer.made[f] = writer.made[g] <=> tree.first[f] = tree.first[g]
        /\ mishaps = 0 => \A d \in Folders :
              Kept(d) /\ ~(d = Rootfs /\ tree.version = "legacy") => d \in writer.settled

\* No order of the enumeration makes a pass fail, be it parents before children or
\* links behind their targets.  Without a failing call there are three causes: a file
\* that is there already, a folder without attributes, and a broken symbolic link
\* that is not entered in ignored_files while its hard links refer to it.
Causes(n) ==
    \/ n \in Files /\ writer.made[n] = Old
    \/ /\ n \in tree.bare /\ Present(n) /\ ~Under(n, Shadow)
       /\ pass = "install" => Under(n, {Rootfs}) /\ \E m \in Nodes : n \in Above[m] /\ Kept(m)
    \/ n \in Files /\ tree.type[n] = "broken" /\ Links(n) # {n}
FailsForCause == outcome = "error" /\ mishaps = 0 => \E n \in Nodes : Causes(n)

\* wsl_v2_writer holds the attributes of a folder back until nothing more is put
\* into it: times once written are not changed by a later file or link.
AttributesStay ==
    [][\A d \in writer.settled :
          pass' = pass /\ ~(d = Rootfs /\ tree.version = "legacy") => d \in writer'.settled]_vars

\* "Export a distribution's filesystem to a .tar.gz file, which can be imported by
\* the "install" command" (main.cpp): no install of an export fails by itself.
ExportImports == pass = "install" /\ mishaps = 0 => outcome # "error"
=============================================================================
