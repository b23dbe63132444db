------------------------------- MODULE Layout -------------------------------
(***************************************************************************)
(* Paths and TreeCopy together.  wsl_reader::run (lib/fs.cpp) converts the *)
(* path of each file it comes to and hands both to the writer; TreeCopy    *)
(* takes for granted what the conversion says: in which folder a file lies *)
(* in each file system version, and which files have no place.  Here the   *)
(* nodes of TreeCopy are files with names, and what it takes for granted   *)
(* is compared with what Paths converts.                                   *)
(***************************************************************************)
EXTENDS Paths

CONSTANTS Folders, Files    \* the directories and the other files of a distribution

(* A file is named by its way in Linux, or beside rootfs; what the legacy version hides
   behind /home, /root and /mnt has the same names and is hidden. *)
Nodes == Folders \cup Files
Node(names, hidden) == [names |-> names, hidden |-> hidden]
TheBase == Node(<<>>, FALSE)
TheRoot == Node(<<Rootfs>>, FALSE)
Mounts == {<<Rootfs, m>> : m \in Moved}
OnWay(n, k) == Node(SubSeq(n.names, 1, k), n.hidden /\ k > 1)    \* the folder k names below the base

ASSUME LayoutAssumption ==
    /\ IsFiniteSet(Nodes) /\ Folders \cap Files = {} /\ TheRoot \in Folders
    /\ \A n \in Nodes :
         /\ n \in [names : Seq(Names \ Foreign), hidden : BOOLEAN] /\ n.names # <<>>
         /\ \A k \in 1 .. Len(n.names) - 1 : OnWay(n, k) \in Folders
         /\ n.hidden => \E m \in Mounts : IsPrefix(m, n.names)
         /\ n.hidden /\ n.names \in Mounts => n \in Folders

TheRelocated == {n \in Folders : ~n.hidden /\ n.names \in Mounts}
TheShadow == {n \in Folders : n.hidden /\ n.names \in Mounts}
Ancestors == [n \in Nodes |-> {OnWay(n, k) : k \in 1 .. Len(n.names) - 1}]

Tree == INSTANCE TreeCopy WITH
         Above <- Ancestors, Rootfs <- TheRoot, Base <- TheBase, Relocated <- TheRelocated, Shadow <- TheShadow,
         Nothing <- Node(<<>>, TRUE), Old <- Node(<<NoRoot>>, TRUE),
         Sources <- Sources \ {"linux"},
         Targets <- {IF class = "linux" THEN "archive" ELSE class : class \in Targets},
         MaxOdd <- 0, MaxMishaps <- 0,
         tree <- [version |-> source.class],
         target <- IF target.class = "linux" THEN "archive" ELSE target.class,
         pass <- "copy", stack <- <<>>, firstOf <- <<>>, writer <- <<>>, cut <- FALSE, mishaps <- 0

(* The names on the way from the directory of the distribution to a node. *)
WayTo(class, n) ==
    IF class = "legacy" /\ ~n.hidden /\ \E r \in TheRelocated : IsPrefix(r.names, n.names) THEN Tail(n.names)
    ELSE n.names

(* The entry of its folder in that version. *)
EntryOf(class, n) == Append(WayTo(class, Tree!Parent(class, n)), Last(n.names))
Reached(n) == Tree!Present(n) /\ trail = EntryOf(source.class, n) /\ (dir <=> n \in Folders)

(* Nodes that TreeCopy does not know: a folder beside rootfs with a name that the legacy
   version uses there, and /home, /root or /mnt that is not a directory. *)
Unknown(n) == "legacy" \in {source.class, target.class} /\ (n.names[1] \in Moved \/ (n \in Files /\ n.names \in Mounts))

\* What TreeCopy takes for granted is what the conversion does: a file that the walk comes to
\* in the folder where TreeCopy has it in the source is converted to the same name in the
\* folder where TreeCopy has it in the target, and refused exactly if it has no place there.
FollowsLayout == outcome # "none" => \A n \in Nodes : Reached(n) /\ ~Unknown(n) =>
    IF Tree!HasPlace(n)
    THEN /\ outcome = "done"
         /\ target.data = IF target.class = "linux" THEN Joined("linux", Tail(n.names), dir)
                          ELSE Joined(target.class, EntryOf(target.class, n), dir)
    ELSE outcome = "refused"
=============================================================================
