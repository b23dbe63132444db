--------------------------- MODULE RegistryProofs ---------------------------
(***************************************************************************)
(* Proofs about Registry, for any number of processes, any store and any   *)
(* number of commands, failing calls and killed processes; and that the    *)
(* commands of reg.cpp implement DistroStore as long as they do not        *)
(* overlap and no call fails: each command is all of its promise or        *)
(* nothing.                                                                *)
(***************************************************************************)
EXTENDS RegistryRefinement, FiniteSetTheorems, WellFoundedInduction, TLAPS

(* The part of TypeOK that speaks of one process. *)
LocalOK(l) ==
    /\ l \in Local
    /\ l.pc \in HoldsKey => l.id \in Guids
    /\ l.pc # "idle" => l.cmd \in Commands

ProcsOK == proc \in [Procs -> Local] /\ \A p \in Procs : LocalOK(proc[p])

\* A step that replaces the state of one process by a well-typed one keeps the rest.
LEMMA BecomeType ==
    ASSUME ProcsOK, NEW p \in Procs, NEW l, LocalOK(l), Become(p, l)
    PROVE  ProcsOK'
BY DEF ProcsOK, LocalOK, Become

\* TypeOK says ProcsOK of the processes.
LEMMA TypeProcs == TypeOK => ProcsOK
BY DEF TypeOK, ProcsOK, LocalOK

\* A process that has ended its command, in whatever way, is well-typed.
LEMMA RestType ==
    ASSUME NEW cmd \in Commands \cup {NoCommand}, NEW outcome \in Outcomes
    PROVE  LocalOK(Rest(cmd, outcome))
<1>1. <<>> \in Seq(Guids)
  OBVIOUS
<1> QED BY <1>1 DEF LocalOK, Local, Rest, Pcs, Goals, HoldsKey

\* So is one whose call raised an error, or returned.
LEMMA EndType ==
    ASSUME ProcsOK, NEW p \in Procs
    PROVE  LocalOK(Raised(p)) /\ LocalOK(Finished(p))
<1>1. proc[p].cmd \in Commands \cup {NoCommand}
  BY DEF ProcsOK, Local
<1>2. {"warned", "error", "ok"} \subseteq Outcomes
  BY DEF Outcomes
<1> QED BY <1>1, <1>2, RestType DEF Raised, Finished

\* And one that starts to list the distributions.
LEMMA ScanType ==
    ASSUME ProcsOK, NEW p \in Procs, proc[p].pc # "idle", NEW goal \in Goals
    PROVE  LocalOK(Scan(p, goal))
<1>1. <<>> \in Seq(Guids)
  OBVIOUS
<1> QED BY <1>1, ZenonT(60) DEF ProcsOK, LocalOK, Local, Scan, Pcs, HoldsKey

\* The initial states are well-typed.
LEMMA TypeInit == Init => TypeOK
<1> SUFFICES ASSUME Init PROVE TypeOK
  OBVIOUS
<1>1. LocalOK(Rest(NoCommand, "none"))
  BY RestType DEF Outcomes
<1>2. proc \in [Procs -> Local] /\ \A p \in Procs : LocalOK(proc[p])
  BY <1>1 DEF Init, LocalOK
<1>3. keys \in [Guids -> Key]
  <2>1. Blank("unborn") \in Key
    BY DEF Blank, Key
  <2>2. [status : {"live"}, name : Names, dir : Dirs, state : {TRUE}, version : {TRUE}] \subseteq Key
    BY DEF Key
  <2> QED BY <2>1, <2>2 DEF Init
<1>4. default \in Guids \cup {NoValue} /\ issued \in Nat /\ mishaps \in Nat
  BY DEF Init, Live
<1> QED BY <1>2, <1>3, <1>4 DEF TypeOK, LocalOK
-----------------------------------------------------------------------------
(* Steps that only read: the process moves on, the registry stays. *)

Reads(p) ==
    \/ EnumKey(p) \/ EnumDone(p) \/ ReadName(p) \/ NamesDone(p)
    \/ ReadDefault(p) \/ ReadDefaultName(p)

\* A new command starts well-typed.
LEMMA IssueType ==
    ASSUME ProcsOK, NEW p \in Procs, Issue(p)
    PROVE  ProcsOK'
<1>1. PICK cmd \in Commands : Become(p,
        [Rest(cmd, "none") EXCEPT
            !.pc   = IF cmd.op = "unregister" THEN "default" ELSE "enum",
            !.goal = CASE cmd.op = "register"   -> "check"
                       [] cmd.op = "unregister" -> "wasDefault"
                       [] OTHER                 -> "find"])
  BY DEF Issue
<1> DEFINE goal == CASE cmd.op = "register"   -> "check"
                     [] cmd.op = "unregister" -> "wasDefault"
                     [] OTHER                 -> "find"
           l == [Rest(cmd, "none") EXCEPT
                   !.pc = IF cmd.op = "unregister" THEN "default" ELSE "enum", !.goal = goal]
<1>2. goal \in Goals
  BY DEF Goals
<1>3. LocalOK(Rest(cmd, "none"))
  BY RestType DEF Outcomes
<1>4. Rest(cmd, "none").cmd = cmd
  BY DEF Rest
<1> HIDE DEF goal
<1>5. LocalOK(l)
  BY <1>2, <1>3, <1>4 DEF LocalOK, Local, Pcs, HoldsKey
<1> QED BY <1>1, <1>5, BecomeType DEF goal

\* Found turns a listed key into the key to work on.
LEMMA FoundType ==
    ASSUME ProcsOK, NEW p \in Procs, NEW k \in Guids, proc[p].pc # "idle"
    PROVE  LocalOK(Found(p, k))
<1> DEFINE pc == CASE proc[p].cmd.op = "unregister" -> "delete"
                   [] proc[p].cmd.op = "setDir"     -> "writeDir"
                   [] OTHER                         -> "setDefault"
<1>1. pc \in Pcs
  BY DEF Pcs
<1>2. <<>> \in Seq(Guids)
  OBVIOUS
<1>3. Found(p, k) = [proc[p] EXCEPT !.id = k, !.ids = <<>>, !.pc = pc]
  BY DEF Found
<1> HIDE DEF pc
<1> QED BY <1>1, <1>2, <1>3 DEF ProcsOK, LocalOK, Local

\* No reading step breaks the types.
LEMMA ReadType ==
    ASSUME TypeOK, NEW p \in Procs, Reads(p)
    PROVE  ProcsOK'
<1> USE TypeProcs
<1>l. /\ LocalOK(Raised(p)) /\ LocalOK(Finished(p))
      /\ LocalOK(proc[p]) /\ proc[p].ids \in Seq(Guids) /\ proc[p].cursor \in Nat
  BY EndType DEF ProcsOK, Local
<1>0. proc[p].pc # "idle"
  BY DEF Reads, EnumKey, EnumDone, ReadName, NamesDone, ReadDefault, ReadDefaultName
<1>1. CASE EnumKey(p)
  <2>1. PICK k \in Entries(proc[p].cursor) : Become(p,
           [proc[p] EXCEPT !.cursor = @ + 1, !.ids = IF k \in Foreign THEN @ ELSE Append(@, k)])
    BY <1>1 DEF EnumKey
  <2>2. k \in Foreign \/ k \in Guids
    BY DEF Entries, Live
  <2> DEFINE ids == IF k \in Foreign THEN proc[p].ids ELSE Append(proc[p].ids, k)
  <2>3. ids \in Seq(Guids) /\ proc[p].cursor + 1 \in Nat
    BY <1>l, <2>2
  <2> HIDE DEF ids
  <2>4. LocalOK([proc[p] EXCEPT !.cursor = proc[p].cursor + 1, !.ids = ids])
    BY <1>l, <2>3 DEF LocalOK, Local
  <2> QED BY <2>1, <2>4, BecomeType DEF ids
<1>2. CASE EnumDone(p)
  <2> DEFINE heir == proc[p].goal = "heir"
             some == proc[p].ids # <<>>
             pc  == IF ~heir THEN "names" ELSE IF ~some THEN "clearDefault" ELSE "setDefault"
             ids == IF heir THEN <<>> ELSE proc[p].ids
             id  == IF heir /\ some THEN Head(proc[p].ids) ELSE NoValue
             l   == [proc[p] EXCEPT !.cursor = 0, !.pc = pc, !.ids = ids, !.id = id]
  <2>1. Become(p, l)
    BY <1>2 DEF EnumDone
  <2>2. ids \in Seq(Guids) /\ pc \in Pcs /\ pc # "idle"
    BY <1>l DEF Pcs
  <2>3. id \in Guids \cup {NoValue} /\ (pc \in HoldsKey => id \in Guids)
    BY <1>l DEF HoldsKey
  <2> HIDE DEF ids, id, pc
  <2>4. LocalOK(l)
    BY <1>l, <1>0, <2>2, <2>3 DEF LocalOK, Local
  <2> QED BY <2>1, <2>4, BecomeType
<1>3. CASE ReadName(p)
  <2> DEFINE k == Head(proc[p].ids)
             match == keys[k].name = proc[p].cmd.name
             l == [proc[p] EXCEPT !.ids = Tail(@), !.taken = @ \/ match]
  <2>1. k \in Guids /\ Tail(proc[p].ids) \in Seq(Guids)
    BY <1>3, <1>l DEF ReadName
  <2>2. LocalOK(Found(p, k))
    BY <1>0, <2>1, FoundType
  <2>3. LocalOK(l)
    BY <1>l, <2>1 DEF LocalOK, Local
  <2>4. Become(p, Raised(p)) \/ Become(p, Found(p, k)) \/ Become(p, l)
    BY <1>3 DEF ReadName
  <2> QED BY <1>l, <2>2, <2>3, <2>4, BecomeType
<1>4. CASE NamesDone(p)
  <2>1. LocalOK([proc[p] EXCEPT !.pc = "create"])
    BY <1>l, <1>0, ZenonT(60) DEF LocalOK, Local, Pcs, HoldsKey
  <2> QED BY <1>4, <1>l, <2>1, BecomeType DEF NamesDone
<1>5. LocalOK(NoDefault(p))
  BY <1>l, <1>0, ScanType DEF NoDefault, Goals
<1>6. CASE ReadDefault(p)
  <2>1. default # NoValue => LocalOK([proc[p] EXCEPT !.pc = "defaultName", !.id = default])
    BY <1>l, <1>0 DEF LocalOK, Local, Pcs, TypeOK
  <2> QED BY <1>6, <1>5, <2>1, BecomeType DEF ReadDefault
<1>7. CASE ReadDefaultName(p)
  <2> DEFINE name == keys[proc[p].id].name
             l == [Scan(p, "find") EXCEPT !.wasDefault = (name = proc[p].cmd.name)]
  <2>1. LocalOK(Scan(p, "find"))
    BY <1>0, ScanType DEF Goals
  <2>2. LocalOK(l)
    BY <2>1 DEF LocalOK, Local
  <2>3. Become(p, NoDefault(p)) \/ Become(p, Finished(p)) \/ Become(p, l)
    BY <1>7 DEF ReadDefaultName
  <2> QED BY <1>l, <1>5, <2>2, <2>3, BecomeType
<1> QED BY <1>1, <1>2, <1>3, <1>4, <1>6, <1>7 DEF Reads
-----------------------------------------------------------------------------
(* Steps that write. *)

\* A value written through a held path leaves keys and processes well-typed.
LEMMA WriteType ==
    ASSUME TypeOK, NEW p \in Procs, NEW value \in Key, NEW next, LocalOK(next),
           proc[p].id \in Guids, Write(p, value, next)
    PROVE  TypeOK'
<1>1. LocalOK(Raised(p))
  BY TypeProcs, EndType
<1>2. ProcsOK'
  BY <1>1, TypeProcs, BecomeType DEF Write
<1>3. keys' \in [Guids -> Key]
  BY DEF Write, TypeOK
<1> QED BY <1>2, <1>3 DEF TypeOK, ProcsOK, LocalOK, Write

\* The five places that set a value of a distribution.
Sets(p) == SetName(p) \/ SetDir(p) \/ SetState(p) \/ SetVersion(p) \/ WriteDir(p)

\* The five steps that write a value keep the types.
LEMMA SetType ==
    ASSUME TypeOK, NEW p \in Procs, Sets(p)
    PROVE  TypeOK'
<1>1. /\ LocalOK(proc[p]) /\ LocalOK(Finished(p))
      /\ proc[p].id \in Guids /\ proc[p].cmd \in Commands
  BY TypeProcs, EndType DEF ProcsOK, LocalOK, Sets, SetName, SetDir, SetState, SetVersion, WriteDir, HoldsKey
<1>2. proc[p].cmd.name \in Names /\ proc[p].cmd.dir \in Dirs \cup {NoValue}
  BY <1>1 DEF Commands
<1>3. Here(p) \in Key
  BY <1>1 DEF Here, TypeOK, Key
<1>4. CASE SetName(p)
  <2>1. [Here(p) EXCEPT !.name = proc[p].cmd.name] \in Key
    BY <1>2, <1>3 DEF Key
  <2>2. LocalOK(Goto(p, "setDir"))
    BY <1>1 DEF Goto, LocalOK, Local, Pcs
  <2> QED BY <1>1, <1>4, <2>1, <2>2, WriteType DEF SetName
<1>5. CASE SetDir(p)
  <2>1. [Here(p) EXCEPT !.dir = proc[p].cmd.dir] \in Key
    BY <1>2, <1>3 DEF Key
  <2>2. LocalOK(Goto(p, "setState"))
    BY <1>1 DEF Goto, LocalOK, Local, Pcs
  <2> QED BY <1>1, <1>5, <2>1, <2>2, WriteType DEF SetDir
<1>6. CASE SetState(p)
  <2>1. [Here(p) EXCEPT !.state = TRUE] \in Key
    BY <1>3 DEF Key
  <2>2. LocalOK(Goto(p, "setVersion"))
    BY <1>1 DEF Goto, LocalOK, Local, Pcs
  <2> QED BY <1>1, <1>6, <2>1, <2>2, WriteType DEF SetState
<1>7. CASE SetVersion(p)
  <2>1. [Here(p) EXCEPT !.version = TRUE] \in Key
    BY <1>3 DEF Key
  <2>2. LocalOK([Goto(p, "default") EXCEPT !.goal = "probe", !.id = NoValue])
    BY <1>1, ZenonT(60) DEF Goto, LocalOK, Local, Pcs, Goals, HoldsKey
  <2> QED BY <1>1, <1>7, <2>1, <2>2, WriteType DEF SetVersion
<1>8. CASE WriteDir(p)
  <2>1. [Here(p) EXCEPT !.dir = proc[p].cmd.dir] \in Key
    BY <1>2, <1>3 DEF Key
  <2> QED BY <1>1, <1>8, <2>1, WriteType DEF WriteDir
<1> QED BY <1>4, <1>5, <1>6, <1>7, <1>8 DEF Sets

\* An empty key, living or deleted.
LEMMA BlankType == Blank("live") \in Key /\ Blank("dead") \in Key
BY DEF Blank, Key

\* Creating a key and deleting one.
LEMMA CreateType ==
    ASSUME TypeOK, NEW p \in Procs, CreateKey(p)
    PROVE  TypeOK'
<1>1. PICK k \in Guids :
        /\ keys' = [keys EXCEPT ![k] = Blank("live")]
        /\ Become(p, [proc[p] EXCEPT !.pc = "setName", !.goal = "fill", !.id = k])
  BY DEF CreateKey
<1>2. LocalOK(proc[p]) /\ proc[p].pc # "idle"
  BY TypeProcs DEF ProcsOK, CreateKey
<1>3. LocalOK([proc[p] EXCEPT !.pc = "setName", !.goal = "fill", !.id = k])
  BY <1>2 DEF LocalOK, Local, Pcs, Goals
<1>4. ProcsOK'
  BY <1>1, <1>3, TypeProcs, BecomeType
<1>5. keys' \in [Guids -> Key]
  BY <1>1, BlankType DEF TypeOK
<1> QED BY <1>4, <1>5 DEF TypeOK, ProcsOK, LocalOK, CreateKey

\* Deleting the tree of a key keeps the types.
LEMMA DeleteType ==
    ASSUME TypeOK, NEW p \in Procs, DeleteTree(p)
    PROVE  TypeOK'
<1>1. LocalOK(Raised(p)) /\ LocalOK(Finished(p)) /\ LocalOK(Scan(p, "heir"))
  BY TypeProcs, EndType, ScanType DEF DeleteTree, Goals
<1>2. ProcsOK'
  BY <1>1, TypeProcs, BecomeType DEF DeleteTree
<1>3. keys' \in [Guids -> Key]
  BY BlankType DEF TypeOK, DeleteTree
<1> QED BY <1>2, <1>3 DEF TypeOK, ProcsOK, LocalOK, DeleteTree

\* Writing and removing the default, failing and being killed.
Settles(p) == SetDefault(p) \/ ClearDefault(p) \/ Fault(p) \/ Crash(p)

\* So do the steps that set or clear the default, fail, or kill the process.
LEMMA SettleType ==
    ASSUME TypeOK, NEW p \in Procs, Settles(p)
    PROVE  TypeOK'
<1>1. LocalOK(Raised(p)) /\ LocalOK(Finished(p)) /\ LocalOK(Rest(proc[p].cmd, "killed"))
  BY TypeProcs, EndType, RestType DEF ProcsOK, Local, Outcomes
<1>2. ProcsOK'
  BY <1>1, TypeProcs, BecomeType DEF Settles, SetDefault, ClearDefault, Fault, Crash
<1>3. default' \in Guids \cup {NoValue}
  BY DEF Settles, SetDefault, ClearDefault, Fault, Crash, TypeOK, HoldsKey
<1>4. keys' = keys /\ issued' \in Nat /\ mishaps' \in Nat
  BY DEF Settles, SetDefault, ClearDefault, Fault, Crash, TypeOK
<1> QED BY <1>2, <1>3, <1>4 DEF TypeOK, ProcsOK, LocalOK

\* The steps of Next, grouped as in the lemmas above.
LEMMA NextSteps ==
    ASSUME Next
    PROVE  \/ UNCHANGED vars
           \/ \E p \in Procs : Issue(p) \/ Reads(p) \/ Sets(p) \/ CreateKey(p) \/ DeleteTree(p) \/ Settles(p)
BY DEF Next, Step, Quiet, Reads, Sets, Settles

\* Every step keeps the types.
LEMMA TypeStep == TypeOK /\ [Next]_vars => TypeOK'
<1> SUFFICES ASSUME TypeOK, [Next]_vars PROVE TypeOK'
  OBVIOUS
<1>1. CASE UNCHANGED vars
  BY <1>1 DEF vars, TypeOK
<1>2. ASSUME NEW p \in Procs, Issue(p) PROVE TypeOK'
  <2>1. ProcsOK'
    BY <1>2, TypeProcs, IssueType
  <2> QED BY <1>2, <2>1 DEF TypeOK, ProcsOK, LocalOK, Issue
<1>3. ASSUME NEW p \in Procs, Reads(p) PROVE TypeOK'
  <2>1. ProcsOK'
    BY <1>3, ReadType
  <2>2. UNCHANGED <<keys, default, issued, mishaps>>
    BY <1>3 DEF Reads, EnumKey, EnumDone, ReadName, NamesDone, ReadDefault, ReadDefaultName
  <2> QED BY <2>1, <2>2 DEF TypeOK, ProcsOK, LocalOK
<1> QED BY <1>1, <1>2, <1>3, NextSteps, SetType, CreateType, DeleteType, SettleType

\* Type correctness of the store and of every process in it, whatever the processes
\* interleave and whichever calls fail.
THEOREM TypeCorrect == Spec => []TypeOK
BY TypeInit, TypeStep, PTL DEF Spec
-----------------------------------------------------------------------------
(* The paths that processes hold. *)

Paths == TypeOK /\ HeldPaths

\* Initially no process holds a path, and a key that was never created has no name.
LEMMA PathsInit == Init => HeldPaths
<1> SUFFICES ASSUME Init PROVE HeldPaths
  OBVIOUS
<1>1. \A p \in Procs : proc[p].pc = "idle"
  BY DEF Init, Rest
<1>2. ASSUME NEW k \in Guids, keys[k].status = "unborn" PROVE keys[k].name = NoValue
  <2>1. keys[k] = Blank("unborn") \/ keys[k].status \in {"live"}
    BY DEF Init
  <2> QED BY <1>2, <2>1 DEF Blank
<1> QED BY <1>1, <1>2 DEF HeldPaths, PathNamed, PathPrivate, Writers

\* A process that moves on without writing keeps the paths right if it takes none,
\* takes none that is not its own, or has just found a key with its name.
LEMMA PathsRead ==
    ASSUME Paths, NEW p \in Procs, NEW l, Become(p, l), keys' = keys,
           l.pc # "setName",
           l.pc \in Writers => /\ l.id \in Guids
                               /\ keys[l.id].name = l.cmd.name /\ keys[l.id].name # NoValue
    PROVE  HeldPaths'
<1>1. proc'[p] = l /\ \A q \in Procs \ {p} : proc'[q] = proc[q]
  BY DEF Become, Paths, TypeOK
<1>2. \A q \in Procs : PathNamed(q)'
  BY <1>1 DEF Paths, HeldPaths, PathNamed
<1>3. \A q \in Procs : PathPrivate(q)'
  BY <1>1 DEF Paths, HeldPaths, PathPrivate
<1> QED BY <1>2, <1>3 DEF HeldPaths, Paths

\* Commands that start, end or list hold no path.
LEMMA NoPath ==
    ASSUME ProcsOK, NEW p \in Procs
    PROVE  /\ Raised(p).pc \notin Writers \cup {"setName"}
           /\ Finished(p).pc \notin Writers \cup {"setName"}
           /\ NoDefault(p).pc \notin Writers \cup {"setName"}
           /\ \A goal : Scan(p, goal).pc \notin Writers \cup {"setName"}
BY DEF Raised, Finished, Scan, NoDefault, Rest, Writers, ProcsOK, Local

\* The reading steps: only a found name hands out a path.
LEMMA ReadPaths ==
    ASSUME Paths, NEW p \in Procs, Issue(p) \/ Reads(p)
    PROVE  HeldPaths'
<1>0. ProcsOK /\ proc[p] \in Local
  BY TypeProcs DEF Paths, ProcsOK
<1>k. keys' = keys
  BY DEF Issue, Reads, EnumKey, EnumDone, ReadName, NamesDone, ReadDefault, ReadDefaultName
<1>1. CASE Issue(p)
  <2>1. PICK cmd \in Commands : Become(p,
          [Rest(cmd, "none") EXCEPT
              !.pc   = IF cmd.op = "unregister" THEN "default" ELSE "enum",
              !.goal = CASE cmd.op = "register"   -> "check"
                         [] cmd.op = "unregister" -> "wasDefault"
                         [] OTHER                 -> "find"])
    BY <1>1 DEF Issue
  <2> DEFINE goal == CASE cmd.op = "register"   -> "check"
                       [] cmd.op = "unregister" -> "wasDefault"
                       [] OTHER                 -> "find"
             l == [Rest(cmd, "none") EXCEPT
                     !.pc = IF cmd.op = "unregister" THEN "default" ELSE "enum", !.goal = goal]
  <2> HIDE DEF goal
  <2>2. l.pc \notin Writers \cup {"setName"}
    BY DEF Rest, Writers
  <2>3. Become(p, l)
    BY <2>1 DEF goal
  <2> HIDE DEF l
  <2> QED BY <1>k, <2>2, <2>3, PathsRead
<1>2. CASE EnumKey(p)
  <2>1. PICK k \in Entries(proc[p].cursor) : Become(p,
           [proc[p] EXCEPT !.cursor = @ + 1, !.ids = IF k \in Foreign THEN @ ELSE Append(@, k)])
    BY <1>2 DEF EnumKey
  <2> DEFINE ids == IF k \in Foreign THEN proc[p].ids ELSE Append(proc[p].ids, k)
             l == [proc[p] EXCEPT !.cursor = proc[p].cursor + 1, !.ids = ids]
  <2> HIDE DEF ids
  <2>2. l.pc \notin Writers \cup {"setName"}
    BY <1>0, <1>2 DEF EnumKey, Writers, Local
  <2>3. Become(p, l)
    BY <2>1 DEF ids
  <2> QED BY <1>k, <2>2, <2>3, PathsRead
<1>3. CASE EnumDone(p)
  <2>1. PICK l : Become(p, l) /\ l.pc \notin Writers \cup {"setName"}
    <3> DEFINE pc == IF proc[p].goal # "heir" THEN "names"
                     ELSE IF proc[p].ids = <<>> THEN "clearDefault" ELSE "setDefault"
               ids == IF proc[p].goal = "heir" THEN <<>> ELSE proc[p].ids
               id  == IF proc[p].goal = "heir" /\ proc[p].ids # <<>> THEN Head(proc[p].ids) ELSE NoValue
               l   == [proc[p] EXCEPT !.cursor = 0, !.pc = pc, !.ids = ids, !.id = id]
    <3>1. Become(p, l)
      BY <1>3 DEF EnumDone
    <3>2. pc \notin Writers \cup {"setName"}
      BY DEF Writers
    <3> HIDE DEF pc, ids, id
    <3>3. l.pc = pc
      BY <1>0 DEF Local
    <3> QED BY <3>1, <3>2, <3>3
  <2> QED BY <1>k, <2>1, PathsRead
<1>4. CASE ReadName(p)
  <2> DEFINE k == Head(proc[p].ids)
             match == keys[k].name = proc[p].cmd.name
             l == [proc[p] EXCEPT !.ids = Tail(@), !.taken = @ \/ match]
             pc == CASE proc[p].cmd.op = "unregister" -> "delete"
                     [] proc[p].cmd.op = "setDir"     -> "writeDir"
                     [] OTHER                         -> "setDefault"
  <2>1. k \in Guids
    BY <1>0, <1>4 DEF ReadName, Local
  <2>2. CASE keys[k].name # NoValue /\ match /\ proc[p].goal # "check"
    <3>1. pc # "setName"
      OBVIOUS
    <3>2. Found(p, k) = [proc[p] EXCEPT !.id = k, !.ids = <<>>, !.pc = pc]
      BY DEF Found
    <3>3. Become(p, Found(p, k))
      BY <1>4, <2>2 DEF ReadName
    <3> HIDE DEF pc
    <3>4. /\ Found(p, k).pc = pc /\ Found(p, k).id = k
          /\ Found(p, k).cmd = proc[p].cmd
      BY <1>0, <3>2 DEF Local
    <3> QED BY <1>k, <2>1, <2>2, <3>1, <3>3, <3>4, PathsRead
  <2>3. CASE keys[k].name = NoValue
    BY <1>0, <1>k, <1>4, <2>3, NoPath, PathsRead DEF ReadName
  <2>4. CASE keys[k].name # NoValue /\ ~(match /\ proc[p].goal # "check")
    <3>1. Become(p, l)
      BY <1>4, <2>4 DEF ReadName
    <3>2. l.pc \notin Writers \cup {"setName"}
      BY <1>0, <1>4 DEF ReadName, Local, Writers
    <3> HIDE DEF l
    <3> QED BY <1>k, <3>1, <3>2, PathsRead
  <2> QED BY <2>2, <2>3, <2>4
<1>5. CASE NamesDone(p)
  <2>1. [proc[p] EXCEPT !.pc = "create"].pc \notin Writers \cup {"setName"}
    BY <1>0 DEF Writers, Local
  <2> QED BY <1>0, <1>5, <1>k, <2>1, NoPath, PathsRead DEF NamesDone
<1>6. CASE ReadDefault(p)
  <2>1. [proc[p] EXCEPT !.pc = "defaultName", !.id = default].pc \notin Writers \cup {"setName"}
    BY <1>0 DEF Writers, Local
  <2> QED BY <1>0, <1>6, <1>k, <2>1, NoPath, PathsRead DEF ReadDefault
<1>7. CASE ReadDefaultName(p)
  <2> DEFINE name == keys[proc[p].id].name
             l == [Scan(p, "find") EXCEPT !.wasDefault = (name = proc[p].cmd.name)]
  <2>1. l.pc \notin Writers \cup {"setName"}
    BY <1>0 DEF Scan, Writers, Local
  <2>2. Become(p, NoDefault(p)) \/ Become(p, Finished(p)) \/ Become(p, l)
    BY <1>7 DEF ReadDefaultName
  <2> HIDE DEF l
  <2> QED BY <1>0, <1>k, <2>1, <2>2, NoPath, PathsRead
<1> QED BY <1>1, <1>2, <1>3, <1>4, <1>5, <1>6, <1>7 DEF Reads

\* A process that writes a value under its path: nobody else's path is that of a key
\* about to be named, so the name it may give to the key is no surprise to others.
LEMMA WritePaths ==
    ASSUME Paths, NEW p \in Procs, NEW value, NEW next,
           proc[p].pc \in Writers \cup {"setName"}, proc[p].id \in Guids,
           value.status = "live",
           \/ value.name = keys[proc[p].id].name
           \/ proc[p].pc = "setName" /\ value.name = proc[p].cmd.name,
           next.pc # "setName",
           next.pc \in Writers => /\ next.id = proc[p].id /\ next.cmd = proc[p].cmd
                                  /\ value.name \in {proc[p].cmd.name, NoValue},
           Write(p, value, next)
    PROVE  HeldPaths'
<1>1. CASE keys' = keys /\ Become(p, Raised(p))
  <2>1. Raised(p).pc \notin Writers \cup {"setName"}
    BY TypeProcs, NoPath DEF Paths
  <2> QED BY <1>1, <2>1, PathsRead
<1>2. CASE keys' = [keys EXCEPT ![proc[p].id] = value] /\ Become(p, next)
  <2>1. /\ proc'[p] = next /\ \A q \in Procs \ {p} : proc'[q] = proc[q]
        /\ keys'[proc[p].id] = value /\ \A k \in Guids \ {proc[p].id} : keys'[k] = keys[k]
    BY <1>2 DEF Become, Paths, TypeOK
  <2>2. \A q \in Procs : proc[q].pc \in Writers \cup {"setName"} => proc[q].id \in Guids
    BY DEF Paths, TypeOK, HoldsKey, Writers, HeldPaths, PathNamed
  <2>3. \A k \in Guids : keys'[k].status = "unborn" => keys'[k].name = NoValue
    BY <2>1 DEF Paths, HeldPaths
  <2>4. ASSUME NEW q \in Procs PROVE PathNamed(q)'
    <3>1. CASE q = p
      BY <2>1, <3>1 DEF PathNamed
    <3>2. CASE q # p
      BY <2>1, <2>2, <3>2 DEF Paths, HeldPaths, PathNamed, PathPrivate
    <3> QED BY <3>1, <3>2
  <2>5. ASSUME NEW q \in Procs PROVE PathPrivate(q)'
    <3>1. CASE q = p
      BY <2>1, <3>1 DEF PathPrivate
    <3>2. CASE q # p
      BY <2>1, <2>2, <3>2 DEF Paths, HeldPaths, PathPrivate
    <3> QED BY <3>1, <3>2
  <2> QED BY <2>3, <2>4, <2>5 DEF HeldPaths
<1> QED BY <1>1, <1>2 DEF Write

\* The five writes of values are such writes.
LEMMA SetPaths ==
    ASSUME Paths, NEW p \in Procs, Sets(p)
    PROVE  HeldPaths'
<1>1. /\ proc[p] \in Local /\ proc[p].pc \in Writers \cup {"setName"}
      /\ proc[p].id \in Guids /\ keys[proc[p].id] \in Key
  BY DEF Paths, TypeOK, Sets, SetName, SetDir, SetState, SetVersion, WriteDir, HoldsKey, Writers
<1>2. proc[p].pc \in Writers => keys[proc[p].id].name \in {proc[p].cmd.name, NoValue}
  BY DEF Paths, HeldPaths, PathNamed
<1>3. /\ Here(p) \in Key /\ Here(p).status = "live" /\ Here(p).name = keys[proc[p].id].name
  BY <1>1 DEF Here, Key
<1>4. CASE SetName(p)
  <2> DEFINE value == [Here(p) EXCEPT !.name = proc[p].cmd.name]
             next == Goto(p, "setDir")
  <2>1. value.status = "live" /\ value.name = proc[p].cmd.name
    BY <1>3 DEF Key
  <2>2. next.pc # "setName" /\ next.id = proc[p].id /\ next.cmd = proc[p].cmd
    BY <1>1 DEF Goto, Local
  <2>3. Write(p, value, next) /\ proc[p].pc = "setName"
    BY <1>4 DEF SetName
  <2> HIDE DEF value, next
  <2> QED BY <1>1, <2>1, <2>2, <2>3, WritePaths
<1>5. CASE SetDir(p)
  <2> DEFINE value == [Here(p) EXCEPT !.dir = proc[p].cmd.dir]
             next == Goto(p, "setState")
  <2>1. value.status = "live" /\ value.name = keys[proc[p].id].name
    BY <1>3 DEF Key
  <2>2. next.pc # "setName" /\ next.id = proc[p].id /\ next.cmd = proc[p].cmd
    BY <1>1 DEF Goto, Local
  <2>3. Write(p, value, next) /\ proc[p].pc \in Writers
    BY <1>5 DEF SetDir, Writers
  <2> HIDE DEF value, next
  <2> QED BY <1>1, <1>2, <2>1, <2>2, <2>3, WritePaths
<1>6. CASE SetState(p)
  <2> DEFINE value == [Here(p) EXCEPT !.state = TRUE]
             next == Goto(p, "setVersion")
  <2>1. value.status = "live" /\ value.name = keys[proc[p].id].name
    BY <1>3 DEF Key
  <2>2. next.pc # "setName" /\ next.id = proc[p].id /\ next.cmd = proc[p].cmd
    BY <1>1 DEF Goto, Local
  <2>3. Write(p, value, next) /\ proc[p].pc \in Writers
    BY <1>6 DEF SetState, Writers
  <2> HIDE DEF value, next
  <2> QED BY <1>1, <1>2, <2>1, <2>2, <2>3, WritePaths
<1>7. CASE SetVersion(p)
  <2> DEFINE value == [Here(p) EXCEPT !.version = TRUE]
             next == [Goto(p, "default") EXCEPT !.goal = "probe", !.id = NoValue]
  <2>1. value.status = "live" /\ value.name = keys[proc[p].id].name
    BY <1>3 DEF Key
  <2>2. next.pc \notin Writers \cup {"setName"}
    BY <1>1 DEF Goto, Local, Writers
  <2>3. Write(p, value, next)
    BY <1>7 DEF SetVersion
  <2> HIDE DEF value, next
  <2> QED BY <1>1, <2>1, <2>2, <2>3, WritePaths
<1>8. CASE WriteDir(p)
  <2> DEFINE value == [Here(p) EXCEPT !.dir = proc[p].cmd.dir]
  <2>1. value.status = "live" /\ value.name = keys[proc[p].id].name
    BY <1>3 DEF Key
  <2>2. Finished(p).pc \notin Writers \cup {"setName"}
    BY TypeProcs, NoPath DEF Paths
  <2>3. Write(p, value, Finished(p))
    BY <1>8 DEF WriteDir
  <2> HIDE DEF value
  <2> QED BY <1>1, <2>1, <2>2, <2>3, WritePaths
<1> QED BY <1>4, <1>5, <1>6, <1>7, <1>8 DEF Sets

\* A new key is nobody's path yet: paths are of keys that have been created.
LEMMA CreatePaths ==
    ASSUME Paths, NEW p \in Procs, CreateKey(p)
    PROVE  HeldPaths'
<1>1. PICK k \in Guids :
        /\ keys[k].status = "unborn"
        /\ keys' = [keys EXCEPT ![k] = Blank("live")]
        /\ Become(p, [proc[p] EXCEPT !.pc = "setName", !.goal = "fill", !.id = k])
  BY DEF CreateKey
<1>2. proc[p] \in Local
  BY DEF Paths, TypeOK
<1>3. /\ proc'[p].pc = "setName" /\ proc'[p].id = k
      /\ \A q \in Procs \ {p} : proc'[q] = proc[q]
  BY <1>1, <1>2 DEF Become, Paths, TypeOK, Local
<1>4. /\ keys'[k].status = "live" /\ keys'[k].name = NoValue
      /\ \A j \in Guids \ {k} : keys'[j] = keys[j]
  BY <1>1 DEF Blank, Paths, TypeOK
<1>5. \A q \in Procs : proc[q].pc \in Writers \cup {"setName"} => proc[q].id \in Guids /\ proc[q].id # k
  BY <1>1 DEF Paths, TypeOK, HoldsKey, Writers, HeldPaths, PathNamed, PathPrivate
<1>6. \A j \in Guids : keys'[j].status = "unborn" => keys'[j].name = NoValue
  BY <1>4 DEF Paths, HeldPaths
<1>7. \A q \in Procs : PathNamed(q)'
  BY <1>3, <1>4, <1>5 DEF Paths, HeldPaths, PathNamed, Writers
<1>8. \A q \in Procs : PathPrivate(q)'
  BY <1>3, <1>4, <1>5 DEF Paths, HeldPaths, PathPrivate, Writers
<1> QED BY <1>6, <1>7, <1>8 DEF HeldPaths

\* A deleted key has no name any more, which every path to it allows.
LEMMA DeletePaths ==
    ASSUME Paths, NEW p \in Procs, DeleteTree(p)
    PROVE  HeldPaths'
<1>1. PICK l : Become(p, l) /\ l.pc \notin Writers \cup {"setName"}
  BY TypeProcs, NoPath DEF DeleteTree, Paths
<1>2. proc'[p] = l /\ \A q \in Procs \ {p} : proc'[q] = proc[q]
  BY <1>1 DEF Become, Paths, TypeOK
<1>3. proc[p].id \in Guids
  BY DEF Paths, TypeOK, DeleteTree, HoldsKey
<1>4. /\ keys'[proc[p].id].status = "dead" /\ keys'[proc[p].id].name = NoValue
      /\ \A j \in Guids \ {proc[p].id} : keys'[j] = keys[j]
  BY <1>3 DEF DeleteTree, Blank, Paths, TypeOK
<1>5. \A q \in Procs : proc[q].pc \in Writers \cup {"setName"} => proc[q].id \in Guids
  BY DEF Paths, TypeOK, HoldsKey, Writers
<1>6. \A j \in Guids : keys'[j].status = "unborn" => keys'[j].name = NoValue
  BY <1>4 DEF Paths, HeldPaths
<1>7. \A q \in Procs : PathNamed(q)'
  BY <1>1, <1>2, <1>4, <1>5 DEF Paths, HeldPaths, PathNamed
<1>8. \A q \in Procs : PathPrivate(q)'
  BY <1>1, <1>2, <1>4, <1>5 DEF Paths, HeldPaths, PathPrivate
<1> QED BY <1>6, <1>7, <1>8 DEF HeldPaths

\* The default, a failed call and a killed process leave the paths alone.
LEMMA SettlePaths ==
    ASSUME Paths, NEW p \in Procs, Settles(p)
    PROVE  HeldPaths'
<1>1. keys' = keys
  BY DEF Settles, SetDefault, ClearDefault, Fault, Crash
<1>2. Rest(proc[p].cmd, "killed").pc \notin Writers \cup {"setName"}
  BY DEF Rest, Writers
<1>3. PICK l : Become(p, l) /\ l.pc \notin Writers \cup {"setName"}
  BY <1>2, TypeProcs, NoPath DEF Settles, SetDefault, ClearDefault, Fault, Crash, Paths
<1> QED BY <1>1, <1>3, PathsRead

\* Every step keeps the held paths right.
LEMMA PathsStep == Paths /\ [Next]_vars => HeldPaths'
<1> SUFFICES ASSUME Paths, [Next]_vars PROVE HeldPaths'
  OBVIOUS
<1>1. CASE UNCHANGED vars
  BY <1>1 DEF vars, Paths, HeldPaths, PathNamed, PathPrivate
<1> QED BY <1>1, NextSteps, ReadPaths, SetPaths, CreatePaths, DeletePaths, SettlePaths

\* Whoever writes or deletes in the registry, and whenever, does so under a path of
\* its own distribution.
THEOREM PathsHeld == Spec => []HeldPaths
BY PathsInit, PathsStep, TypeInit, TypeStep, PTL DEF Spec, Paths
-----------------------------------------------------------------------------
(* What a step may change in the registry. *)

Untouched == \A k \in Guids : keys[k].name # NoValue /\ keys'[k] # keys[k] =>
    \E p \in Procs : proc'[p] # proc[p] /\ proc[p].cmd.name = keys[k].name

\* A write goes under the path of the process, hence to a key of its name.
LEMMA SetTouches ==
    ASSUME Paths, NEW p \in Procs, Sets(p)
    PROVE  Untouched
<1> SUFFICES ASSUME NEW k \in Guids, keys[k].name # NoValue, keys'[k] # keys[k]
             PROVE  proc'[p] # proc[p] /\ proc[p].cmd.name = keys[k].name
  BY DEF Untouched
<1>1. proc[p] \in Local /\ proc[p].pc \in Writers \cup {"setName"} /\ proc[p].id \in Guids
  BY DEF Paths, TypeOK, Sets, SetName, SetDir, SetState, SetVersion, WriteDir, HoldsKey, Writers
<1>2. k = proc[p].id
  BY <1>1 DEF Sets, SetName, SetDir, SetState, SetVersion, WriteDir, Write, Paths, TypeOK
<1>3. proc[p].pc \in Writers /\ proc[p].cmd.name = keys[k].name
  BY <1>1, <1>2 DEF Paths, HeldPaths, PathNamed, PathPrivate
<1>4. PICK l : Become(p, l) /\ l.pc # proc[p].pc
  <2>1. Raised(p).pc = "idle" /\ Finished(p).pc = "idle"
    BY DEF Raised, Finished, Rest
  <2>2. /\ Goto(p, "setDir").pc = "setDir" /\ Goto(p, "setState").pc = "setState"
        /\ Goto(p, "setVersion").pc = "setVersion"
        /\ [Goto(p, "default") EXCEPT !.goal = "probe", !.id = NoValue].pc = "default"
    BY <1>1 DEF Goto, Local
  <2> QED BY <1>3, <2>1, <2>2 DEF Sets, SetName, SetDir, SetState, SetVersion, WriteDir, Write, Writers
<1>5. proc'[p] = l
  BY <1>4 DEF Become, Paths, TypeOK
<1> QED BY <1>3, <1>4, <1>5

\* So does a deletion.
LEMMA DeleteTouches ==
    ASSUME Paths, NEW p \in Procs, DeleteTree(p)
    PROVE  Untouched
<1> SUFFICES ASSUME NEW k \in Guids, keys[k].name # NoValue, keys'[k] # keys[k]
             PROVE  proc'[p] # proc[p] /\ proc[p].cmd.name = keys[k].name
  BY DEF Untouched
<1>1. k = proc[p].id
  BY DEF DeleteTree, Paths, TypeOK, HoldsKey
<1>2. proc[p].cmd.name = keys[k].name
  BY <1>1 DEF Paths, HeldPaths, PathNamed, Writers, DeleteTree
<1>3. Raised(p).pc = "idle" /\ Finished(p).pc = "idle" /\ Scan(p, "heir").pc = "enum"
  BY DEF Raised, Finished, Rest, Scan, Paths, TypeOK, Local
<1>4. proc'[p].pc # "delete" /\ proc[p].pc = "delete"
  BY <1>3 DEF DeleteTree, Become, Paths, TypeOK
<1> QED BY <1>2, <1>4

\* A command changes a named distribution only if it was given that name: no race,
\* stale path, failed call or kill makes it write under another distribution's key.
THEOREM OnlyItsOwn == Spec => OnlyByName
<1>1. ASSUME Paths, [Next]_vars PROVE Untouched
  <2>1. ASSUME NEW p \in Procs, CreateKey(p) PROVE Untouched
    BY <1>1, <2>1 DEF CreateKey, Untouched, Paths, TypeOK, HeldPaths
  <2>2. ASSUME NEW p \in Procs, Issue(p) \/ Reads(p) \/ Settles(p) PROVE keys' = keys
    BY <2>2 DEF Issue, Reads, EnumKey, EnumDone, ReadName, NamesDone, ReadDefault, ReadDefaultName,
                Settles, SetDefault, ClearDefault, Fault, Crash
  <2>3. keys' = keys => Untouched
    BY DEF Untouched
  <2> QED BY <1>1, <2>1, <2>2, <2>3, NextSteps, SetTouches, DeleteTouches DEF vars
<1>2. Paths /\ [Next]_vars => [Untouched]_vars
  BY <1>1
<1> QED BY <1>2, TypeCorrect, PathsHeld, PTL DEF Spec, Paths, OnlyByName, Untouched
-----------------------------------------------------------------------------
(***************************************************************************)
(* What register_distro and the other operations promise as long as the    *)
(* commands of several processes do not overlap, although calls fail and   *)
(* processes get killed: the list that a command fetches by index is       *)
(* complete, so the check of the name is one.                              *)
(***************************************************************************)

(* Only one command runs at any time. *)
OneAtATime == \A p, q \in Procs : proc[p].pc # "idle" /\ proc[q].pc # "idle" => p = q

-----------------------------------------------------------------------------
(* Enumeration by index *)

Stored == Live \cup Foreign
Before(k) == {j \in Stored : j < k}
Rank(k) == Cardinality(Before(k))
Listed(ids) == {ids[i] : i \in 1 .. Len(ids)}

\* The keys before a key are finitely many.
LEMMA RankType ==
    /\ Stored \subseteq Nat
    /\ \A k \in Stored : Before(k) \subseteq Nat /\ IsFiniteSet(Before(k)) /\ Rank(k) \in Nat
<1>1. Stored \subseteq Subkeys /\ IsFiniteSet(Subkeys) /\ Subkeys \subseteq Nat
  BY SubkeysAssumption DEF Stored, Live, Guids
<1>2. ASSUME NEW k \in Stored PROVE Before(k) \in SUBSET Subkeys
  BY <1>1 DEF Before
<1>3. ASSUME NEW k \in Stored PROVE IsFiniteSet(Before(k))
  BY <1>1, <1>2, FS_Subset
<1>4. ASSUME NEW k \in Stored PROVE Rank(k) \in Nat
  BY <1>3, FS_CardinalityType DEF Rank
<1> QED BY <1>1, <1>2, <1>3, <1>4

\* No key has a smaller index than the first one.
LEMMA NoRankBelow == \A k \in Stored : ~(Rank(k) < 0)
BY RankType

\* So nothing is missing from a list that has just been started.
LEMMA StartListing ==
    ASSUME NEW l, l.ids = <<>>, l.cursor = 0
    PROVE  Listed(l.ids) \subseteq Live /\ \A k \in Live : Rank(k) < l.cursor => k \in Listed(l.ids)
<1>1. Listed(l.ids) = {}
  BY DEF Listed
<1>2. Live \subseteq Stored
  BY DEF Stored
<1> QED BY <1>1, <1>2, NoRankBelow

\* An index belongs to one key.
LEMMA RankInjective ==
    ASSUME NEW j \in Stored, NEW k \in Stored, Rank(j) = Rank(k)
    PROVE  j = k
<1>1. ASSUME NEW a \in Stored, NEW b \in Stored, a < b PROVE Rank(a) # Rank(b)
  <2>0. Stored \subseteq Nat
    BY RankType
  <2>1. \A i \in Stored : i < a => i < b
    BY <1>1, <2>0
  <2>2. Before(a) \in SUBSET Before(b)
    BY <2>1 DEF Before
  <2>3. a \in Before(b) /\ a \notin Before(a)
    BY <1>1, <2>0 DEF Before
  <2> QED BY <2>2, <2>3, RankType, FS_Subset DEF Rank
<1>2. j \in Nat /\ k \in Nat
  BY RankType
<1>3. j < k \/ k < j \/ j = k
  BY <1>2
<1> QED BY <1>1, <1>3

\* A set of numbers has a least element.
LEMMA LeastNumber ==
    ASSUME NEW S, S \subseteq Nat, S # {}
    PROVE  \E x \in S : \A y \in S : x <= y
<1>1. PICK x \in S : \A y \in S : ~(<<y, x>> \in OpToRel(<, Nat))
  BY NatLessThanWellFounded, WFMin
<1>2. \A y \in S : ~(y < x)
  <2>1. ASSUME NEW y \in S, y < x PROVE <<y, x>> \in OpToRel(<, Nat)
    BY <2>1 DEF OpToRel
  <2> QED BY <1>1, <2>1
<1> QED BY <1>2

\* The key before a key has the index before its index.
LEMMA Predecessor ==
    ASSUME NEW k \in Stored, Before(k) # {}
    PROVE  \E j \in Before(k) : Rank(k) = Rank(j) + 1
<1> DEFINE S == {k - j : j \in Before(k)}
<1>1. k \in Nat /\ Before(k) \subseteq Nat /\ Before(k) \subseteq Stored
  BY RankType DEF Before
<1>2. S \subseteq Nat /\ S # {}
  BY <1>1 DEF Before
<1>3. PICK x \in S : \A y \in S : x <= y
  BY <1>2, LeastNumber
<1>4. PICK j \in Before(k) : x = k - j
  OBVIOUS
<1>5. \A i \in Before(k) : i <= j
  <2>1. ASSUME NEW i \in Before(k) PROVE k - j <= k - i
    BY <1>3, <1>4
  <2> QED BY <1>1, <2>1
<1>6. Before(k) = Before(j) \cup {j} /\ j \notin Before(j)
  <2>0. Stored \subseteq Nat /\ j \in Stored /\ j < k
    BY RankType DEF Before
  <2>1. ASSUME NEW i \in Stored PROVE i < k <=> i < j \/ i = j
    <3>1. i < k => i <= j
      BY <1>5 DEF Before
    <3> QED BY <1>1, <2>0, <3>1
  <2> QED BY <2>0, <2>1 DEF Before
<1>7. IsFiniteSet(Before(j))
  BY <1>1, RankType
<1>8. Rank(k) = Rank(j) + 1
  BY <1>6, <1>7, FS_AddElement DEF Rank
<1> QED BY <1>8

\* When no key has an index, all keys have smaller ones: list_distro_id may stop.
LEMMA EnumComplete ==
    ASSUME NEW c \in Nat, Entries(c) = {}
    PROVE  \A k \in Stored : Rank(k) < c
<1> SUFFICES ASSUME NEW b \in Stored, ~(Rank(b) < c) PROVE FALSE
  OBVIOUS
<1> DEFINE Bad == {k \in Stored : ~(Rank(k) < c)}
<1>1. Bad \subseteq Nat /\ Bad # {}
  BY RankType
<1>2. PICK m \in Bad : \A y \in Bad : m <= y
  BY <1>1, LeastNumber
<1>3. \A k \in Stored : Rank(k) # c
  BY DEF Entries, Stored, Rank, Before
<1>4. m \in Stored /\ Rank(m) > c
  BY <1>2, <1>3, RankType
<1>5. Before(m) # {}
  BY <1>4, FS_EmptySet DEF Rank
<1>6. PICK j \in Before(m) : Rank(m) = Rank(j) + 1
  BY <1>4, <1>5, Predecessor
<1>7. j \in Stored /\ j < m
  BY <1>6 DEF Before
<1>8. Rank(j) < c
  BY <1>2, <1>7, RankType
<1> QED BY <1>4, <1>6, <1>7, <1>8, RankType

\* What is listed, when a key comes to the list and when one is taken from it.
LEMMA ListedSteps ==
    ASSUME NEW ids \in Seq(Guids)
    PROVE  /\ \A k \in Guids : Listed(Append(ids, k)) = Listed(ids) \cup {k}
           /\ ids # <<>> => Listed(ids) = Listed(Tail(ids)) \cup {Head(ids)}
           /\ ids = <<>> => Listed(ids) = {}
           /\ Listed(ids) \subseteq Guids
<1>1. ASSUME NEW k \in Guids
      PROVE  Listed(Append(ids, k)) = Listed(ids) \cup {k}
  <2>1. Len(Append(ids, k)) = Len(ids) + 1 /\ Append(ids, k)[Len(ids) + 1] = k
    OBVIOUS
  <2>2. \A i \in 1 .. Len(ids) : Append(ids, k)[i] = ids[i]
    OBVIOUS
  <2>3. 1 .. Len(ids) + 1 = (1 .. Len(ids)) \cup {Len(ids) + 1}
    OBVIOUS
  <2> QED BY <2>1, <2>2, <2>3 DEF Listed
<1>2. ASSUME ids # <<>>
      PROVE  Listed(ids) = Listed(Tail(ids)) \cup {Head(ids)}
  <2>1. Len(ids) \in Nat \ {0} /\ Len(Tail(ids)) = Len(ids) - 1 /\ Head(ids) = ids[1]
    BY <1>2
  <2>2. \A i \in 1 .. Len(ids) - 1 : Tail(ids)[i] = ids[i + 1]
    BY <1>2
  <2>3. ASSUME NEW i \in 1 .. Len(ids), i # 1 PROVE ids[i] \in Listed(Tail(ids))
    <3>1. i - 1 \in 1 .. Len(Tail(ids)) /\ Tail(ids)[i - 1] = ids[i]
      BY <2>1, <2>2, <2>3
    <3> QED BY <3>1 DEF Listed
  <2>4. Listed(Tail(ids)) \subseteq Listed(ids)
    BY <2>1, <2>2 DEF Listed
  <2>5. Head(ids) \in Listed(ids)
    BY <2>1 DEF Listed
  <2>6. Listed(ids) \subseteq Listed(Tail(ids)) \cup {Head(ids)}
    BY <2>1, <2>3 DEF Listed
  <2> QED BY <2>4, <2>5, <2>6
<1>3. ids = <<>> => Listed(ids) = {}
  BY DEF Listed
<1>4. Listed(ids) \subseteq Guids
  BY DEF Listed
<1> QED BY <1>1, <1>2, <1>3, <1>4

-----------------------------------------------------------------------------
(* The invariant *)

(* Which command comes to which stage. *)
Going(l) ==
    /\ l.pc = "idle" => l.goal = "none"
    /\ l.goal \in {"check", "fill", "probe", "adopt"} => l.cmd.op = "register"
    /\ l.goal \in {"wasDefault", "heir"} => l.cmd.op = "unregister"
    /\ l.goal = "find" => l.cmd.op # "register"
    /\ l.pc = "enum" => l.goal \in {"check", "find", "adopt", "heir"}
    /\ l.pc = "names" => l.goal \in {"check", "find", "adopt"}
    /\ l.pc = "create" => l.goal = "check"
    /\ l.pc \in {"setName", "setDir", "setState", "setVersion"} => l.goal = "fill"
    /\ l.pc \in {"default", "defaultName"} => l.goal \in {"probe", "wasDefault"}
    /\ l.pc = "delete" => l.goal = "find" /\ l.cmd.op = "unregister"
    /\ l.pc = "writeDir" => l.goal = "find" /\ l.cmd.op = "setDir"
    /\ l.pc = "setDefault" => l.goal \in {"adopt", "heir"} \/ (l.goal = "find" /\ l.cmd.op = "setDefault")
    /\ l.pc = "clearDefault" => l.goal = "heir"

(* The list so far has every key with a smaller index, and no others. *)
Listing(l) == l.pc = "enum" =>
    /\ Listed(l.ids) \subseteq Live
    /\ \A k \in Live : Rank(k) < l.cursor => k \in Listed(l.ids)

(* A key that the check has passed has a name, another one unless it is noted as taken. *)
Checking(l) ==
    /\ l.pc = "names" /\ l.goal = "check" =>
        \A k \in Live : \/ k \in Listed(l.ids)
                        \/ keys[k].name # NoValue /\ (keys[k].name = l.cmd.name => l.taken)
    /\ l.pc = "create" => \A k \in Live : keys[k].name \notin {NoValue, l.cmd.name}
    /\ l.pc = "setName" => \A k \in Live : keys[k].name # l.cmd.name

(* The key of "register" gets one value after the other, and has them all in the end. *)
Filling(l) ==
    /\ l.pc \in {"setName", "setDir", "setState", "setVersion"} => l.id \in Live
    /\ l.pc \in {"setDir", "setState", "setVersion"} => keys[l.id].name = l.cmd.name
    /\ l.pc \in {"setState", "setVersion"} => keys[l.id].dir = l.cmd.dir
    /\ l.pc = "setVersion" => keys[l.id].state

(* What is done already when the default is looked after. *)
Caring(l) ==
    /\ l.goal \in Swallowed => Effect(l.cmd)
    /\ l.goal = "find" /\ l.cmd.op = "unregister" =>
        default \in Live /\ (~l.wasDefault => keys[default].name # l.cmd.name)

(* The key of a command is the one with its name, the heir one that is there. *)
Holding(l) ==
    /\ l.pc \in {"delete", "writeDir"} => l.id \in Live /\ keys[l.id].name = l.cmd.name
    /\ l.pc = "setDefault" => l.id \in Live /\ (l.goal = "find" => keys[l.id].name = l.cmd.name)
    /\ l.pc = "clearDefault" => Live = {}
    /\ l.pc = "defaultName" => l.id = default

Own(l) == Going(l) /\ Listing(l) /\ Checking(l) /\ Filling(l) /\ Caring(l) /\ Holding(l)
Fine(l) == Own(l) /\ (l.pc = "idle" => EndedWell(l))

Nameless == \A k \in Guids : keys[k].status # "live" => keys[k].name = NoValue

(* The inductive invariant of commands that do not overlap. *)
Apart == TypeOK /\ Nameless /\ NamesUnique /\ \A p \in Procs : Own(proc[p])

\* A process between two commands has nothing to remember.
LEMMA RestOwn == \A cmd, outcome : Own(Rest(cmd, outcome))
BY DEF Rest, Own, Going, Listing, Checking, Filling, Caring, Holding, Swallowed

\* A command whose error is swallowed has had its effect.
LEMMA RaisedFine ==
    ASSUME Apart, NEW p \in Procs
    PROVE  Fine(Raised(p)) /\ Own(Finished(p))
<1>1. proc[p].goal \in Swallowed => Effect(proc[p].cmd)
  BY DEF Apart, Own, Caring
<1>2. /\ Raised(p).outcome = "warned" => proc[p].goal \in Swallowed
      /\ Raised(p).outcome \in {"warned", "error"} /\ Raised(p).cmd = proc[p].cmd
  BY DEF Raised, Rest
<1>3. EndedWell(Raised(p))
  BY <1>1, <1>2 DEF EndedWell
<1>4. Own(Raised(p)) /\ Own(Finished(p))
  BY RestOwn DEF Raised, Finished
<1> QED BY <1>3, <1>4 DEF Fine

\* A command may start to list the keys at any time.
LEMMA ScanFine ==
    ASSUME Apart, NEW p \in Procs, NEW goal \in {"adopt", "heir"}, Effect(proc[p].cmd),
           goal = "adopt" => proc[p].cmd.op = "register",
           goal = "heir" => proc[p].cmd.op = "unregister"
    PROVE  Fine(Scan(p, goal))
<1> DEFINE l == Scan(p, goal)
<1>1. proc[p] \in Local
  BY DEF Apart, TypeOK
<1>2. /\ l.pc = "enum" /\ l.goal = goal /\ l.ids = <<>> /\ l.cursor = 0
      /\ l.cmd = proc[p].cmd /\ l.wasDefault = proc[p].wasDefault
  BY <1>1 DEF Scan, Local
<1> HIDE DEF l
<1>3. Listing(l)
  BY <1>2, StartListing DEF Listing
<1>4. Going(l) /\ Checking(l) /\ Filling(l) /\ Caring(l) /\ Holding(l)
  BY <1>2 DEF Going, Checking, Filling, Caring, Holding
<1> QED BY <1>2, <1>3, <1>4 DEF Fine, Own, l

-----------------------------------------------------------------------------
(* Steps that only read *)

\* What a process knows stays true while the registry stays as it is.
LEMMA FineStays ==
    ASSUME TypeOK, NEW p \in Procs, NEW l, Become(p, l), keys' = keys, default' = default, Fine(l)
    PROVE  Fine(proc[p])'
<1>1. proc'[p] = l
  BY DEF Become, TypeOK
<1>2. Live' = Live
  BY DEF Live
<1>3. \A k : Rank(k)' = Rank(k)
  BY <1>2 DEF Rank, Before, Stored
<1>4. Own(proc[p])'
  BY <1>1, <1>2, <1>3 DEF Fine, Own, Going, Listing, Checking, Filling, Caring, Holding, Listed, Effect
<1>5. proc'[p].pc = "idle" => EndedWell(proc[p])'
  BY <1>1, <1>2 DEF Fine, EndedWell, Effect
<1> QED BY <1>4, <1>5 DEF Fine

\* One more key is listed.
LEMMA EnumKeyFine ==
    ASSUME Apart, NEW p \in Procs, EnumKey(p)
    PROVE  Fine(proc[p])'
<1>1. proc[p] \in Local /\ TypeOK /\ Own(proc[p]) /\ proc[p].pc = "enum"
  BY DEF Apart, TypeOK, EnumKey
<1>2. PICK k \in Entries(proc[p].cursor) : Become(p,
         [proc[p] EXCEPT !.cursor = @ + 1, !.ids = IF k \in Foreign THEN @ ELSE Append(@, k)])
  BY DEF EnumKey
<1> DEFINE ids == IF k \in Foreign THEN proc[p].ids ELSE Append(proc[p].ids, k)
           l == [proc[p] EXCEPT !.cursor = proc[p].cursor + 1, !.ids = ids]
<1>3. /\ l.pc = proc[p].pc /\ l.goal = proc[p].goal /\ l.cmd = proc[p].cmd
      /\ l.wasDefault = proc[p].wasDefault /\ l.ids = ids /\ l.cursor = proc[p].cursor + 1
  BY <1>1 DEF Local
<1>4. /\ k \in Stored /\ Rank(k) = proc[p].cursor /\ proc[p].cursor \in Nat /\ Live \subseteq Stored
      /\ proc[p].ids \in Seq(Guids) /\ Live \subseteq Guids
  BY <1>1 DEF Entries, Stored, Rank, Before, Local, Live
<1>5. k \notin Foreign => k \in Live /\ Listed(ids) = Listed(proc[p].ids) \cup {k}
  BY <1>4, ListedSteps DEF Stored
<1>6. k \in Foreign => k \notin Live /\ Listed(ids) = Listed(proc[p].ids)
  BY DEF Live, Guids
<1>7. Become(p, l)
  BY <1>2
<1> HIDE DEF ids, l
<1>8. \A j \in Live : Rank(j) < proc[p].cursor + 1 => j \in Listed(ids)
  <2>1. ASSUME NEW j \in Live, Rank(j) < proc[p].cursor + 1 PROVE j \in Listed(ids)
    <3>1. Rank(j) \in Nat
      BY <1>4, RankType
    <3>2. CASE Rank(j) = proc[p].cursor
      <4>1. j = k
        BY <1>4, <3>2, RankInjective
      <4> QED BY <1>5, <1>6, <4>1
    <3>3. CASE Rank(j) < proc[p].cursor
      BY <1>1, <1>5, <1>6, <3>3 DEF Own, Listing
    <3> QED BY <1>4, <2>1, <3>1, <3>2, <3>3
  <2> QED BY <2>1
<1>9. Listing(l)
  BY <1>1, <1>3, <1>5, <1>6, <1>8 DEF Own, Listing
<1>10. Going(l) /\ Checking(l) /\ Filling(l) /\ Caring(l) /\ Holding(l)
  BY <1>1, <1>3 DEF Own, Going, Checking, Filling, Caring, Holding
<1>11. Fine(l)
  BY <1>1, <1>3, <1>9, <1>10 DEF Fine, Own
<1>12. keys' = keys /\ default' = default
  BY DEF EnumKey
<1> QED BY <1>1, <1>7, <1>11, <1>12, FineStays

\* The list is complete when no key has the next index.
LEMMA EnumDoneFine ==
    ASSUME Apart, NEW p \in Procs, EnumDone(p)
    PROVE  Fine(proc[p])'
<1>1. /\ proc[p] \in Local /\ TypeOK /\ Own(proc[p]) /\ proc[p].pc = "enum"
      /\ Entries(proc[p].cursor) = {} /\ keys' = keys /\ default' = default
  BY DEF Apart, TypeOK, EnumDone
<1>2. Listed(proc[p].ids) = Live
  <2>1. Live \subseteq Stored /\ proc[p].cursor \in Nat
    BY <1>1 DEF Stored, Local
  <2> QED BY <1>1, <2>1, EnumComplete DEF Own, Listing
<1> DEFINE heir == proc[p].goal = "heir"
           pc  == IF ~heir THEN "names" ELSE IF proc[p].ids = <<>> THEN "clearDefault" ELSE "setDefault"
           ids == IF heir THEN <<>> ELSE proc[p].ids
           id  == IF heir /\ proc[p].ids # <<>> THEN Head(proc[p].ids) ELSE NoValue
           l   == [proc[p] EXCEPT !.cursor = 0, !.pc = pc, !.ids = ids, !.id = id]
<1>3. Become(p, l)
  BY DEF EnumDone
<1>4. pc \in {"names", "clearDefault", "setDefault"} /\ (pc = "names" <=> ~heir)
  OBVIOUS
<1>5. pc = "clearDefault" => Live = {}
  BY <1>1, <1>2, ListedSteps DEF Local
<1>6. pc = "setDefault" => id \in Live
  BY <1>1, <1>2, ListedSteps DEF Local
<1>7. /\ l.pc = pc /\ l.goal = proc[p].goal /\ l.cmd = proc[p].cmd /\ l.wasDefault = proc[p].wasDefault
      /\ l.id = id /\ (~heir => l.ids = proc[p].ids)
  BY <1>1 DEF Local
<1> HIDE DEF pc, id, ids, l
<1>8. Going(l)
  BY <1>1, <1>4, <1>7 DEF Own, Going
<1>9. Listing(l) /\ Checking(l) /\ Filling(l) /\ Caring(l) /\ Holding(l)
  BY <1>1, <1>2, <1>4, <1>5, <1>6, <1>7 DEF Own, Listing, Checking, Filling, Caring, Holding
<1>10. Fine(l)
  BY <1>4, <1>7, <1>8, <1>9 DEF Fine, Own
<1> QED BY <1>1, <1>3, <1>10, FineStays

\* A name that was read: the key is the one looked for, or it has been checked.
LEMMA ReadNameFine ==
    ASSUME Apart, NEW p \in Procs, ReadName(p)
    PROVE  Fine(proc[p])'
<1>1. /\ proc[p] \in Local /\ TypeOK /\ Own(proc[p]) /\ proc[p].pc = "names"
      /\ proc[p].ids # <<>> /\ keys' = keys /\ default' = default
  BY DEF Apart, TypeOK, ReadName
<1> DEFINE k == Head(proc[p].ids)
           match == keys[k].name = proc[p].cmd.name
           ids == Tail(proc[p].ids)
           l == [proc[p] EXCEPT !.ids = ids, !.taken = @ \/ match]
<1>2. k \in Guids /\ Listed(proc[p].ids) = Listed(ids) \cup {k}
  BY <1>1, ListedSteps DEF Local
<1>3. CASE Become(p, Raised(p))
  BY <1>1, <1>3, RaisedFine, FineStays
<1>4. CASE keys[k].name # NoValue /\ match /\ proc[p].goal # "check" /\ Become(p, Found(p, k))
  <2> DEFINE m == Found(p, k)
             pc == CASE proc[p].cmd.op = "unregister" -> "delete"
                     [] proc[p].cmd.op = "setDir"     -> "writeDir"
                     [] OTHER                         -> "setDefault"
  <2>1. m = [proc[p] EXCEPT !.id = k, !.ids = <<>>, !.pc = pc]
    BY DEF Found
  <2>2. k \in Live
    BY <1>2, <1>4 DEF Apart, Nameless, Live
  <2>3. proc[p].goal \in {"find", "adopt"} /\ (proc[p].goal = "adopt" => proc[p].cmd.op = "register")
    BY <1>1, <1>4 DEF Own, Going
  <2>4. /\ pc \in {"delete", "writeDir", "setDefault"}
        /\ pc = "delete" => proc[p].cmd.op = "unregister"
        /\ pc = "writeDir" => proc[p].cmd.op = "setDir"
    OBVIOUS
  <2>5. /\ pc = "setDefault" => proc[p].cmd.op \notin {"unregister", "setDir"}
        /\ proc[p].cmd.op \in {"register", "unregister", "setDir", "setDefault"}
    BY <1>1 DEF Apart, TypeOK, Commands
  <2> HIDE DEF pc, k
  <2>6. m.pc = pc /\ m.id = k /\ m.goal = proc[p].goal /\ m.cmd = proc[p].cmd /\ m.wasDefault = proc[p].wasDefault
    BY <1>1, <2>1 DEF Local
  <2> HIDE DEF m
  <2>7. Going(m)
    BY <1>1, <2>3, <2>4, <2>5, <2>6 DEF Own, Going
  <2>8. Listing(m) /\ Checking(m) /\ Filling(m) /\ Caring(m) /\ Holding(m)
    BY <1>1, <1>4, <2>2, <2>4, <2>6 DEF Own, Listing, Checking, Filling, Caring, Holding
  <2>9. Fine(m)
    BY <2>4, <2>6, <2>7, <2>8 DEF Fine, Own
  <2> QED BY <1>1, <1>4, <2>9, FineStays DEF m
<1>5. CASE keys[k].name # NoValue /\ Become(p, l)
  <2> HIDE DEF k
  <2>1. /\ l.pc = "names" /\ l.goal = proc[p].goal /\ l.cmd = proc[p].cmd /\ l.ids = ids
        /\ l.wasDefault = proc[p].wasDefault /\ l.taken = (proc[p].taken \/ match)
    BY <1>1 DEF Local
  <2> HIDE DEF l, ids
  <2>2. Checking(l)
    <3>1. ASSUME l.goal = "check", NEW j \in Live
          PROVE  \/ j \in Listed(l.ids)
                 \/ keys[j].name # NoValue /\ (keys[j].name = l.cmd.name => l.taken)
      BY <1>1, <1>2, <1>5, <2>1, <3>1 DEF Own, Checking
    <3> QED BY <2>1, <3>1 DEF Checking
  <2>3. Going(l) /\ Listing(l) /\ Filling(l) /\ Caring(l) /\ Holding(l)
    BY <1>1, <2>1 DEF Own, Going, Listing, Filling, Caring, Holding
  <2>4. Fine(l)
    BY <2>1, <2>2, <2>3 DEF Fine, Own
  <2> QED BY <1>1, <1>5, <2>4, FineStays
<1>6. \/ Become(p, Raised(p))
      \/ keys[k].name # NoValue /\ match /\ proc[p].goal # "check" /\ Become(p, Found(p, k))
      \/ keys[k].name # NoValue /\ Become(p, l)
  BY DEF ReadName
<1> QED BY <1>3, <1>4, <1>5, <1>6

\* All names have been checked.
LEMMA NamesDoneFine ==
    ASSUME Apart, NEW p \in Procs, NamesDone(p)
    PROVE  Fine(proc[p])'
<1>1. /\ proc[p] \in Local /\ TypeOK /\ Own(proc[p]) /\ proc[p].pc = "names"
      /\ Listed(proc[p].ids) = {} /\ keys' = keys /\ default' = default
  BY DEF Apart, TypeOK, NamesDone, Listed
<1>2. CASE proc[p].goal = "check" /\ ~proc[p].taken /\ Become(p, [proc[p] EXCEPT !.pc = "create"])
  <2> DEFINE l == [proc[p] EXCEPT !.pc = "create"]
  <2>1. /\ l.pc = "create" /\ l.goal = "check" /\ l.cmd = proc[p].cmd /\ l.wasDefault = proc[p].wasDefault
    BY <1>1, <1>2 DEF Local
  <2> HIDE DEF l
  <2>2. \A k \in Live : keys[k].name \notin {NoValue, proc[p].cmd.name}
    BY <1>1, <1>2 DEF Own, Checking
  <2>3. Going(l) /\ Listing(l) /\ Checking(l) /\ Filling(l) /\ Caring(l) /\ Holding(l)
    BY <1>1, <1>2, <2>1, <2>2 DEF Own, Going, Listing, Checking, Filling, Caring, Holding, Swallowed
  <2>4. Fine(l)
    BY <2>1, <2>3 DEF Fine, Own
  <2> QED BY <1>1, <1>2, <2>4, FineStays DEF l
<1>3. CASE Become(p, Raised(p))
  BY <1>1, <1>3, RaisedFine, FineStays
<1> QED BY <1>2, <1>3 DEF NamesDone

\* Without a default a registered distribution becomes it, and nothing is unregistered.
LEMMA NoDefaultFine ==
    ASSUME Apart, NEW p \in Procs, proc[p].pc \in {"default", "defaultName"}
    PROVE  Fine(NoDefault(p))
<1>1. proc[p].goal = "probe" => Effect(proc[p].cmd) /\ proc[p].cmd.op = "register"
  BY DEF Apart, Own, Caring, Going, Swallowed
<1> QED BY <1>1, ScanFine, RaisedFine DEF NoDefault

\* Looking for the default, and at its name.
LEMMA ReadDefaultFine ==
    ASSUME Apart, NEW p \in Procs, ReadDefault(p) \/ ReadDefaultName(p)
    PROVE  Fine(proc[p])'
<1>1. /\ proc[p] \in Local /\ TypeOK /\ Own(proc[p]) /\ proc[p].pc \in {"default", "defaultName"}
      /\ keys' = keys /\ default' = default
  BY DEF Apart, TypeOK, ReadDefault, ReadDefaultName
<1>2. CASE Become(p, NoDefault(p))
  BY <1>1, <1>2, NoDefaultFine, FineStays
<1>3. CASE ReadDefault(p) /\ Become(p, [proc[p] EXCEPT !.pc = "defaultName", !.id = default])
  <2> DEFINE l == [proc[p] EXCEPT !.pc = "defaultName", !.id = default]
  <2>1. /\ l.pc = "defaultName" /\ l.id = default /\ l.goal = proc[p].goal /\ l.cmd = proc[p].cmd
        /\ l.wasDefault = proc[p].wasDefault /\ proc[p].pc = "default"
    BY <1>1, <1>3 DEF Local, ReadDefault
  <2> HIDE DEF l
  <2>2. Going(l) /\ Listing(l) /\ Checking(l) /\ Filling(l) /\ Caring(l) /\ Holding(l)
    BY <1>1, <2>1 DEF Own, Going, Listing, Checking, Filling, Caring, Holding
  <2>3. Fine(l)
    BY <2>1, <2>2 DEF Fine, Own
  <2> QED BY <1>1, <1>3, <2>3, FineStays DEF l
<1> DEFINE name == keys[proc[p].id].name
           l == [Scan(p, "find") EXCEPT !.wasDefault = (name = proc[p].cmd.name)]
<1>4. ASSUME ReadDefaultName(p), name # NoValue PROVE default \in Live /\ name = keys[default].name
  BY <1>1, <1>4 DEF ReadDefaultName, Own, Holding, Apart, Nameless, Live, TypeOK, HoldsKey
<1>5. CASE ReadDefaultName(p) /\ name # NoValue /\ proc[p].goal = "probe" /\ Become(p, Finished(p))
  <2>1. Finished(p).outcome = "ok" /\ Finished(p).cmd = proc[p].cmd /\ default \in Live
    BY <1>4, <1>5 DEF Finished, Rest
  <2>2. Effect(proc[p].cmd)
    BY <1>1, <1>5 DEF Own, Caring, Swallowed
  <2>3. EndedWell(Finished(p))
    BY <2>1, <2>2 DEF EndedWell
  <2>4. Fine(Finished(p))
    BY <2>3, RaisedFine DEF Fine
  <2> QED BY <1>1, <1>5, <2>4, FineStays
<1>6. CASE ReadDefaultName(p) /\ name # NoValue /\ proc[p].goal # "probe" /\ Become(p, l)
  <2>1. proc[p].goal = "wasDefault" /\ proc[p].cmd.op = "unregister"
    BY <1>1, <1>6 DEF Own, Going
  <2>2. /\ l.pc = "enum" /\ l.goal = "find" /\ l.ids = <<>> /\ l.cursor = 0
        /\ l.cmd = proc[p].cmd /\ l.wasDefault = (name = proc[p].cmd.name)
    BY <1>1 DEF Scan, Local
  <2> HIDE DEF l
  <2>3. Listing(l)
    BY <2>2, StartListing DEF Listing
  <2>4. Going(l) /\ Checking(l) /\ Filling(l) /\ Holding(l)
    BY <2>1, <2>2 DEF Going, Checking, Filling, Holding
  <2>5. Caring(l)
    BY <1>4, <1>6, <2>2 DEF Caring, Swallowed
  <2>6. Fine(l)
    BY <2>2, <2>3, <2>4, <2>5 DEF Fine, Own
  <2> QED BY <1>1, <1>6, <2>6, FineStays
<1> QED BY <1>2, <1>3, <1>5, <1>6 DEF ReadDefault, ReadDefaultName

\* Whatever a process reads, it is right about it.
LEMMA ReadFine ==
    ASSUME Apart, NEW p \in Procs, Reads(p)
    PROVE  Fine(proc[p])'
BY EnumKeyFine, EnumDoneFine, ReadNameFine, NamesDoneFine, ReadDefaultFine DEF Reads

-----------------------------------------------------------------------------
(* Steps that write *)

\* A new key has no name yet, and all others have one that differs from its name to be.
LEMMA CreateFine ==
    ASSUME Apart, NEW p \in Procs, CreateKey(p)
    PROVE  Fine(proc[p])' /\ Nameless' /\ NamesUnique'
<1>1. proc[p] \in Local /\ TypeOK /\ Own(proc[p]) /\ proc[p].pc = "create" /\ proc[p].cmd.name \in Names
  BY DEF Apart, TypeOK, CreateKey, Commands
<1>2. PICK k \in Guids :
        /\ keys[k].status = "unborn"
        /\ keys' = [keys EXCEPT ![k] = Blank("live")]
        /\ Become(p, [proc[p] EXCEPT !.pc = "setName", !.goal = "fill", !.id = k])
  BY DEF CreateKey
<1>3. /\ keys'[k].status = "live" /\ keys'[k].name = NoValue
      /\ \A j \in Guids \ {k} : keys'[j] = keys[j]
  BY <1>1, <1>2 DEF TypeOK, Blank
<1>4. Live' = Live \cup {k} /\ k \notin Live
  BY <1>2, <1>3 DEF Live
<1>5. Nameless'
  BY <1>3 DEF Apart, Nameless
<1>6. \A j \in Live : keys'[j] = keys[j] /\ keys[j].name \notin {NoValue, proc[p].cmd.name}
  BY <1>1, <1>3, <1>4 DEF Own, Checking, Live
<1>7. NamesUnique'
  BY <1>3, <1>4, <1>6 DEF Apart, NamesUnique
<1> DEFINE l == [proc[p] EXCEPT !.pc = "setName", !.goal = "fill", !.id = k]
<1>8. /\ l.pc = "setName" /\ l.goal = "fill" /\ l.id = k /\ l.cmd = proc[p].cmd
      /\ proc'[p] = l
  BY <1>1, <1>2 DEF Local, Become, TypeOK
<1>9. proc[p].cmd.op = "register"
  BY <1>1 DEF Own, Going
<1> HIDE DEF l
<1>10. \A j \in Live' : keys'[j].name # proc[p].cmd.name
  BY <1>1, <1>3, <1>4, <1>6, NoValueAssumption
<1>11. Own(proc[p])'
  BY <1>4, <1>8, <1>9, <1>10 DEF Own, Going, Listing, Checking, Filling, Caring, Holding, Swallowed
<1> QED BY <1>5, <1>7, <1>8, <1>11 DEF Fine

\* What a value written under the own key changes: this key only.
LEMMA WriteFine ==
    ASSUME Apart, NEW p \in Procs, NEW value, NEW next, proc[p].id \in Live, value.status = "live",
           Write(p, value, next)
    PROVE  /\ proc'[p] = next /\ keys'[proc[p].id] = value /\ Live' = Live /\ Nameless'
           /\ default' = default /\ \A j \in Guids \ {proc[p].id} : keys'[j] = keys[j]
<1>1. keys' = [keys EXCEPT ![proc[p].id] = value] /\ Become(p, next)
  BY DEF Write, Live
<1>2. /\ proc'[p] = next /\ keys'[proc[p].id] = value
      /\ \A j \in Guids \ {proc[p].id} : keys'[j] = keys[j]
  BY <1>1 DEF Become, Apart, TypeOK, Live
<1>3. Live' = Live /\ Nameless'
  BY <1>2 DEF Live, Nameless, Apart
<1> QED BY <1>2, <1>3 DEF Write

\* Writing the values of a distribution, the name first.
LEMMA SetFine ==
    ASSUME Apart, NEW p \in Procs, Sets(p)
    PROVE  Fine(proc[p])' /\ Nameless' /\ NamesUnique'
<1> DEFINE id == proc[p].id
           cmd == proc[p].cmd
<1>1. /\ proc[p] \in Local /\ TypeOK /\ Own(proc[p]) /\ cmd \in Commands /\ cmd.name \in Names
      /\ id \in Guids /\ keys[id] \in Key
  BY DEF Apart, TypeOK, Sets, SetName, SetDir, SetState, SetVersion, WriteDir, Commands, HoldsKey
<1>2. id \in Live /\ keys[id].status = "live"
  BY <1>1 DEF Sets, SetName, SetDir, SetState, SetVersion, WriteDir, Own, Filling, Holding, Live
<1>3. /\ Here(p) \in Key /\ Here(p).status = "live" /\ Here(p).name = keys[id].name
      /\ Here(p).dir = keys[id].dir /\ Here(p).state = keys[id].state
  BY <1>1 DEF Here, Key
<1>4. ASSUME keys'[id].name = keys[id].name, Live' = Live, \A j \in Guids \ {id} : keys'[j] = keys[j]
      PROVE  NamesUnique'
  BY <1>2, <1>4 DEF Apart, NamesUnique, Live
<1>5. CASE SetName(p)
  <2> DEFINE v == [Here(p) EXCEPT !.name = cmd.name]
             l == Goto(p, "setDir")
  <2>1. v.status = "live" /\ v.name = cmd.name
    BY <1>3 DEF Key
  <2>2. l.pc = "setDir" /\ l.id = id /\ l.cmd = cmd /\ l.goal = "fill" /\ cmd.op = "register"
    BY <1>1, <1>5 DEF Goto, Local, SetName, Own, Going
  <2>3. Write(p, v, l)
    BY <1>5 DEF SetName
  <2> HIDE DEF v, l
  <2>4. /\ proc'[p] = l /\ keys'[id] = v /\ Live' = Live /\ Nameless'
        /\ \A j \in Guids \ {id} : keys'[j] = keys[j]
    BY <1>2, <2>1, <2>3, WriteFine
  <2>5. \A j \in Live : keys[j].name # cmd.name
    BY <1>1, <1>5 DEF SetName, Own, Checking
  <2>6. NamesUnique'
    BY <2>1, <2>4, <2>5 DEF Apart, NamesUnique, Live
  <2>7. Own(proc[p])'
    BY <1>2, <2>1, <2>2, <2>4 DEF Own, Going, Listing, Checking, Filling, Caring, Holding, Swallowed
  <2> QED BY <2>2, <2>4, <2>6, <2>7 DEF Fine
<1>6. CASE SetDir(p)
  <2> DEFINE v == [Here(p) EXCEPT !.dir = cmd.dir]
             l == Goto(p, "setState")
  <2>1. v.status = "live" /\ v.name = cmd.name /\ v.dir = cmd.dir
    BY <1>1, <1>3, <1>6 DEF Key, SetDir, Own, Filling
  <2>2. l.pc = "setState" /\ l.id = id /\ l.cmd = cmd /\ l.goal = "fill" /\ cmd.op = "register"
    BY <1>1, <1>6 DEF Goto, Local, SetDir, Own, Going
  <2>3. Write(p, v, l)
    BY <1>6 DEF SetDir
  <2>n. keys[id].name = cmd.name
    BY <1>1, <1>6 DEF SetDir, Own, Filling
  <2> HIDE DEF v, l
  <2>4. /\ proc'[p] = l /\ keys'[id] = v /\ Live' = Live /\ Nameless'
        /\ \A j \in Guids \ {id} : keys'[j] = keys[j]
    BY <1>2, <2>1, <2>3, WriteFine
  <2>5. Own(proc[p])'
    BY <1>2, <2>1, <2>2, <2>4 DEF Own, Going, Listing, Checking, Filling, Caring, Holding, Swallowed
  <2> QED BY <1>4, <2>n, <2>1, <2>2, <2>4, <2>5 DEF Fine
<1>7. CASE SetState(p)
  <2> DEFINE v == [Here(p) EXCEPT !.state = TRUE]
             l == Goto(p, "setVersion")
  <2>n. keys[id].name = cmd.name /\ keys[id].dir = cmd.dir
    BY <1>1, <1>7 DEF SetState, Own, Filling
  <2>1. v.status = "live" /\ v.name = cmd.name /\ v.dir = cmd.dir /\ v.state
    BY <1>3, <2>n DEF Key
  <2>2. l.pc = "setVersion" /\ l.id = id /\ l.cmd = cmd /\ l.goal = "fill" /\ cmd.op = "register"
    BY <1>1, <1>7 DEF Goto, Local, SetState, Own, Going
  <2>3. Write(p, v, l)
    BY <1>7 DEF SetState
  <2> HIDE DEF v, l
  <2>4. /\ proc'[p] = l /\ keys'[id] = v /\ Live' = Live /\ Nameless'
        /\ \A j \in Guids \ {id} : keys'[j] = keys[j]
    BY <1>2, <2>1, <2>3, WriteFine
  <2>5. Own(proc[p])'
    BY <1>2, <2>1, <2>2, <2>4 DEF Own, Going, Listing, Checking, Filling, Caring, Holding, Swallowed
  <2> QED BY <1>4, <2>n, <2>1, <2>2, <2>4, <2>5 DEF Fine
<1>8. CASE SetVersion(p)
  <2> DEFINE v == [Here(p) EXCEPT !.version = TRUE]
             l == [Goto(p, "default") EXCEPT !.goal = "probe", !.id = NoValue]
  <2>n. keys[id].name = cmd.name /\ keys[id].dir = cmd.dir /\ keys[id].state
    BY <1>1, <1>8 DEF SetVersion, Own, Filling
  <2>1. v.status = "live" /\ v.name = cmd.name /\ v.dir = cmd.dir /\ v.state /\ v.version
    BY <1>3, <2>n DEF Key
  <2>2. l.pc = "default" /\ l.cmd = cmd /\ l.goal = "probe" /\ cmd.op = "register"
    BY <1>1, <1>8 DEF Goto, Local, SetVersion, Own, Going
  <2>3. Write(p, v, l)
    BY <1>8 DEF SetVersion
  <2> HIDE DEF v, l
  <2>4. /\ proc'[p] = l /\ keys'[id] = v /\ Live' = Live /\ Nameless'
        /\ \A j \in Guids \ {id} : keys'[j] = keys[j]
    BY <1>2, <2>1, <2>3, WriteFine
  <2>5. Complete(v)
    BY <1>1, <2>1, <2>2, NoValueAssumption DEF Complete, Commands
  <2>6. proc'[p].cmd = cmd /\ Effect(proc[p].cmd)'
    BY <1>2, <2>1, <2>2, <2>4, <2>5 DEF Effect, Complete
  <2>7. Own(proc[p])'
    BY <2>2, <2>4, <2>6 DEF Own, Going, Listing, Checking, Filling, Caring, Holding, Swallowed
  <2> QED BY <1>4, <2>n, <2>1, <2>2, <2>4, <2>7 DEF Fine
<1>9. CASE WriteDir(p)
  <2> DEFINE v == [Here(p) EXCEPT !.dir = cmd.dir]
  <2>n. keys[id].name = cmd.name /\ cmd.op = "setDir"
    BY <1>1, <1>9 DEF WriteDir, Own, Holding, Going
  <2>1. v.status = "live" /\ v.name = cmd.name /\ v.dir = cmd.dir
    BY <1>1, <1>3, <2>n DEF Key
  <2>2. Finished(p).pc = "idle" /\ Finished(p).cmd = cmd
    BY DEF Finished, Rest
  <2>3. Write(p, v, Finished(p))
    BY <1>9 DEF WriteDir
  <2> HIDE DEF v
  <2>4. /\ proc'[p] = Finished(p) /\ keys'[id] = v /\ Live' = Live /\ Nameless'
        /\ \A j \in Guids \ {id} : keys'[j] = keys[j]
    BY <1>2, <2>1, <2>3, WriteFine
  <2>5. EndedWell(proc[p])'
    BY <1>2, <2>n, <2>1, <2>2, <2>4 DEF EndedWell, Effect
  <2>6. Own(proc[p])'
    BY <2>4 DEF Finished, Rest, Own, Going, Listing, Checking, Filling, Caring, Holding, Swallowed
  <2> QED BY <1>4, <2>n, <2>1, <2>4, <2>5, <2>6 DEF Fine
<1> QED BY <1>5, <1>6, <1>7, <1>8, <1>9 DEF Sets

\* Deleting the key with the name: no other has it, and a default elsewhere stays one.
LEMMA DeleteFine ==
    ASSUME Apart, NEW p \in Procs, DeleteTree(p)
    PROVE  Fine(proc[p])' /\ Nameless' /\ NamesUnique'
<1> DEFINE id == proc[p].id
           cmd == proc[p].cmd
<1>1. /\ proc[p] \in Local /\ TypeOK /\ Own(proc[p]) /\ proc[p].pc = "delete"
      /\ id \in Live /\ keys[id].name = cmd.name /\ cmd.op = "unregister" /\ cmd.name # NoValue
      /\ proc[p].goal = "find" /\ id \in Guids
  BY NoValueAssumption DEF Apart, TypeOK, DeleteTree, Own, Holding, Going, Live, Commands
<1>2. /\ keys'[id] = Blank("dead") /\ \A j \in Guids \ {id} : keys'[j] = keys[j]
      /\ default' = default /\ keys[id].status = "live"
  BY <1>1 DEF DeleteTree, TypeOK, Live
<1>3. Live' = Live \ {id} /\ Nameless'
  BY <1>2 DEF Live, Nameless, Apart, Blank
<1>4. NamesUnique'
  BY <1>2, <1>3 DEF Apart, NamesUnique, Live
<1>5. \A k \in Live' : keys'[k].name # cmd.name
  BY <1>1, <1>2, <1>3 DEF Apart, NamesUnique, Live
<1>6. proc'[p].cmd = cmd => Effect(proc[p].cmd)'
  BY <1>1, <1>5 DEF Effect
<1>7. CASE proc[p].wasDefault /\ proc'[p] = Scan(p, "heir")
  <2> DEFINE l == Scan(p, "heir")
  <2>1. l.pc = "enum" /\ l.goal = "heir" /\ l.ids = <<>> /\ l.cursor = 0 /\ l.cmd = cmd
    BY <1>1 DEF Scan, Local
  <2> HIDE DEF l
  <2>2. Effect(proc[p].cmd)' /\ proc'[p] = l
    BY <1>6, <1>7, <2>1 DEF l
  <2>3. \A k \in Live' : ~(Rank(k)' < 0)
    <3>1. (\A k \in Stored : ~(Rank(k) < 0))'
      BY NoRankBelow, PTL
    <3> QED BY <3>1 DEF Stored
  <2>4. Listing(proc[p])'
    BY <2>1, <2>2, <2>3 DEF Listing, Listed
  <2>5. Going(proc[p])'
    BY <1>1, <2>1, <2>2 DEF Going
  <2>6. Checking(proc[p])' /\ Filling(proc[p])' /\ Caring(proc[p])' /\ Holding(proc[p])'
    BY <2>1, <2>2 DEF Checking, Filling, Caring, Holding
  <2> QED BY <1>3, <1>4, <2>1, <2>2, <2>4, <2>5, <2>6 DEF Fine, Own
<1>8. CASE ~proc[p].wasDefault /\ proc'[p] = Finished(p)
  <2>1. Finished(p).cmd = cmd /\ Finished(p).pc = "idle"
    BY DEF Finished, Rest
  <2>2. default \in Live /\ keys[default].name # cmd.name
    BY <1>1, <1>8 DEF Own, Caring
  <2>3. default' \in Live'
    BY <1>1, <1>2, <1>3, <2>2
  <2>4. EndedWell(proc[p])'
    BY <1>6, <1>8, <2>1, <2>3 DEF EndedWell
  <2>5. Own(proc[p])'
    BY <1>8 DEF Finished, Rest, Own, Going, Listing, Checking, Filling, Caring, Holding, Swallowed
  <2> QED BY <1>3, <1>4, <2>4, <2>5 DEF Fine
<1>9. proc'[p] = IF proc[p].wasDefault THEN Scan(p, "heir") ELSE Finished(p)
  BY <1>1, <1>2 DEF DeleteTree, Become, TypeOK
<1> QED BY <1>1, <1>7, <1>8, <1>9

\* Setting and clearing the default, failing and being killed.
LEMMA SettleFine ==
    ASSUME Apart, NEW p \in Procs, Settles(p)
    PROVE  Fine(proc[p])' /\ Nameless' /\ NamesUnique'
<1>1. proc[p] \in Local /\ TypeOK /\ Own(proc[p]) /\ keys' = keys /\ Live' = Live
  BY DEF Apart, TypeOK, Settles, SetDefault, ClearDefault, Fault, Crash, Live
<1>2. Nameless' /\ NamesUnique'
  BY <1>1 DEF Apart, Nameless, NamesUnique
<1>3. CASE Become(p, Raised(p)) /\ default' = default
  BY <1>1, <1>2, <1>3, RaisedFine, FineStays
<1>4. CASE Crash(p)
  <2> DEFINE l == Rest(proc[p].cmd, "killed")
  <2>1. Fine(l)
    BY RestOwn DEF Fine, EndedWell, Rest
  <2> QED BY <1>1, <1>2, <1>4, <2>1, FineStays DEF Crash
<1>5. CASE (SetDefault(p) \/ ClearDefault(p)) /\ proc'[p] = Finished(p)
  <2>1. Finished(p).cmd = proc[p].cmd /\ Finished(p).pc = "idle" /\ Finished(p).outcome = "ok"
    BY DEF Finished, Rest
  <2>2. ASSUME SetDefault(p) PROVE EndedWell(proc[p])'
    <3>1. default' = proc[p].id /\ proc[p].id \in Live
      BY <1>1, <2>2 DEF SetDefault, Own, Holding
    <3>2. CASE proc[p].goal \in Swallowed
      <4>1. Effect(proc[p].cmd) /\ proc[p].cmd.op \in {"register", "unregister"}
        BY <1>1, <3>2 DEF Own, Caring, Going, Swallowed
      <4>2. Effect(proc[p].cmd)'
        BY <1>1, <1>5, <2>1, <4>1 DEF Effect
      <4> QED BY <1>1, <1>5, <2>1, <3>1, <4>2 DEF EndedWell
    <3>3. CASE proc[p].goal = "find"
      <4>1. proc[p].cmd.op = "setDefault" /\ keys[proc[p].id].name = proc[p].cmd.name
        BY <1>1, <2>2, <3>3 DEF SetDefault, Own, Holding, Going
      <4> QED BY <1>1, <1>5, <2>1, <3>1, <4>1 DEF EndedWell, Effect
    <3> QED BY <1>1, <2>2, <3>2, <3>3 DEF SetDefault, Own, Going, Swallowed
  <2>3. ASSUME ClearDefault(p) PROVE EndedWell(proc[p])'
    <3>1. proc[p].goal = "heir" /\ Live = {} /\ default' = NoValue
      BY <1>1, <2>3 DEF ClearDefault, Own, Holding, Going
    <3>2. Effect(proc[p].cmd) /\ proc[p].cmd.op = "unregister"
      BY <1>1, <3>1 DEF Own, Caring, Going, Swallowed
    <3>3. Effect(proc[p].cmd)'
      BY <1>1, <1>5, <2>1, <3>2 DEF Effect
    <3> QED BY <1>1, <1>5, <2>1, <3>1, <3>3 DEF EndedWell
  <2>4. EndedWell(proc[p])'
    BY <1>5, <2>2, <2>3
  <2>5. Own(proc[p])'
    BY <1>5 DEF Finished, Rest, Own, Going, Listing, Checking, Filling, Caring, Holding, Swallowed
  <2> QED BY <1>2, <2>4, <2>5 DEF Fine
<1>6. \/ Become(p, Raised(p)) /\ default' = default
      \/ Crash(p)
      \/ (SetDefault(p) \/ ClearDefault(p)) /\ proc'[p] = Finished(p)
  BY <1>1 DEF Settles, SetDefault, ClearDefault, Fault, Become, TypeOK
<1> QED BY <1>3, <1>4, <1>5, <1>6

\* A new command has nothing to know yet.
LEMMA IssueFine ==
    ASSUME Apart, NEW p \in Procs, Issue(p)
    PROVE  Own(proc[p])' /\ Nameless' /\ NamesUnique' /\ proc'[p].pc # "idle"
<1>1. PICK cmd \in Commands : Become(p,
        [Rest(cmd, "none") EXCEPT
            !.pc   = IF cmd.op = "unregister" THEN "default" ELSE "enum",
            !.goal = CASE cmd.op = "register"   -> "check"
                       [] cmd.op = "unregister" -> "wasDefault"
                       [] OTHER                 -> "find"])
  BY DEF Issue
<1> DEFINE goal == CASE cmd.op = "register"   -> "check"
                     [] cmd.op = "unregister" -> "wasDefault"
                     [] OTHER                 -> "find"
           pc == IF cmd.op = "unregister" THEN "default" ELSE "enum"
           l == [Rest(cmd, "none") EXCEPT !.pc = pc, !.goal = goal]
<1>2. /\ goal = "check" <=> cmd.op = "register"
      /\ goal = "wasDefault" <=> cmd.op = "unregister"
      /\ goal \in {"check", "wasDefault", "find"}
      /\ pc \in {"default", "enum"} /\ (pc = "default" <=> goal = "wasDefault")
  OBVIOUS
<1>3. /\ keys' = keys /\ default' = default /\ Become(p, l) /\ Live' = Live /\ TypeOK
  BY <1>1 DEF Issue, Live, Apart
<1> HIDE DEF goal, pc
<1>4. l.pc = pc /\ l.goal = goal /\ l.cmd = cmd /\ l.ids = <<>> /\ l.cursor = 0
  BY DEF Rest
<1> HIDE DEF l
<1>5. Listing(l)
  BY <1>4, StartListing DEF Listing
<1>6. Going(l) /\ Checking(l) /\ Filling(l) /\ Holding(l)
  BY <1>2, <1>4 DEF Going, Checking, Filling, Holding
<1>7. Caring(l)
  BY <1>2, <1>4 DEF Caring, Swallowed
<1>8. Fine(l)
  BY <1>2, <1>4, <1>5, <1>6, <1>7 DEF Fine, Own
<1>9. Fine(proc[p])'
  BY <1>3, <1>8, FineStays
<1>10. proc'[p].pc # "idle"
  BY <1>2, <1>3, <1>4 DEF Become, TypeOK
<1>11. Nameless' /\ NamesUnique'
  BY <1>3 DEF Apart, Nameless, NamesUnique
<1> QED BY <1>9, <1>10, <1>11 DEF Fine

-----------------------------------------------------------------------------
(* All steps together *)

(* How a command may end. *)
Ends == \A p \in Procs : proc[p].pc # "idle" /\ proc'[p].pc = "idle" => EndedWell(proc[p])'

(* What a command finds that creates a key. *)
BesideNamed ==
    \A k \in Guids : keys[k].status = "unborn" /\ keys'[k].status = "live" =>
        \A j \in Live : keys[j].name # NoValue

\* What a process knows does not depend on anything but the registry.
LEMMA OwnStays ==
    ASSUME NEW q \in Procs, Own(proc[q]), proc'[q] = proc[q],
           proc[q].pc = "idle" \/ (keys' = keys /\ default' = default)
    PROVE  Own(proc[q])'
<1>1. CASE proc[q].pc = "idle"
  BY <1>1 DEF Own, Going, Listing, Checking, Filling, Caring, Holding, Swallowed
<1>2. CASE keys' = keys /\ default' = default
  <2>1. Live' = Live
    BY <1>2 DEF Live
  <2>2. \A k : Rank(k)' = Rank(k)
    BY <2>1 DEF Rank, Before, Stored
  <2> QED BY <1>2, <2>1, <2>2 DEF Own, Going, Listing, Checking, Filling, Caring, Holding, Listed, Effect
<1> QED BY <1>1, <1>2

\* A step of the only command that runs.
LEMMA StepFine ==
    ASSUME Apart, OneAtATime, NEW p \in Procs,
           Reads(p) \/ Sets(p) \/ CreateKey(p) \/ DeleteTree(p) \/ Settles(p)
    PROVE  (\A q \in Procs : Own(proc[q])') /\ Nameless' /\ NamesUnique' /\ Ends
<1>1. Fine(proc[p])' /\ Nameless' /\ NamesUnique'
  <2>1. CASE Reads(p)
    <3>1. keys' = keys
      BY <2>1 DEF Reads, EnumKey, EnumDone, ReadName, NamesDone, ReadDefault, ReadDefaultName
    <3>2. Nameless' /\ NamesUnique'
      BY <3>1 DEF Apart, Nameless, NamesUnique, Live
    <3> QED BY <2>1, <3>2, ReadFine
  <2> QED BY <2>1, SetFine, CreateFine, DeleteFine, SettleFine
<1>2. proc[p].pc # "idle"
  BY ZenonT(60) DEF Reads, EnumKey, EnumDone, ReadName, NamesDone, ReadDefault, ReadDefaultName, CreateKey, DeleteTree,
         Sets, SetName, SetDir, SetState, SetVersion, WriteDir, Settles, SetDefault, ClearDefault, Fault, Crash
<1>3. \E l : Become(p, l)
  BY DEF Reads, EnumKey, EnumDone, ReadName, NamesDone, ReadDefault, ReadDefaultName, CreateKey, DeleteTree,
         Sets, SetName, SetDir, SetState, SetVersion, WriteDir, Settles, SetDefault, ClearDefault, Fault, Crash,
         Write
<1>4. ASSUME NEW q \in Procs, q # p PROVE proc'[q] = proc[q] /\ proc[q].pc = "idle"
  BY <1>2, <1>3, <1>4 DEF Become, Apart, TypeOK, OneAtATime
<1>5. ASSUME NEW q \in Procs PROVE Own(proc[q])'
  <2>1. CASE q = p
    BY <1>1, <2>1 DEF Fine
  <2>2. CASE q # p
    BY <1>4, <2>2, OwnStays DEF Apart
  <2> QED BY <2>1, <2>2
<1>6. Ends
  BY <1>1, <1>4 DEF Ends, Fine
<1> QED BY <1>1, <1>5, <1>6

\* Every step keeps the invariant and every command ends well while commands do not overlap.
LEMMA ApartStep == Apart /\ OneAtATime /\ [Next]_vars => Apart' /\ Ends
<1> SUFFICES ASSUME Apart, OneAtATime, [Next]_vars PROVE Apart' /\ Ends
  OBVIOUS
<1>1. TypeOK'
  BY TypeStep DEF Apart
<1>2. CASE UNCHANGED vars
  <2>1. (\A q \in Procs : Own(proc[q])') /\ Nameless' /\ NamesUnique'
    BY <1>2, OwnStays DEF vars, Apart, Nameless, NamesUnique, Live
  <2> QED BY <1>1, <1>2, <2>1 DEF Apart, Ends, vars
<1>3. ASSUME NEW p \in Procs, Issue(p) PROVE Apart' /\ Ends
  <2>1. Own(proc[p])' /\ Nameless' /\ NamesUnique' /\ proc'[p].pc # "idle"
    BY <1>3, IssueFine
  <2>2. ASSUME NEW q \in Procs, q # p PROVE proc'[q] = proc[q]
    BY <1>3, <2>2 DEF Issue, Become, Apart, TypeOK
  <2>3. ASSUME NEW q \in Procs PROVE Own(proc[q])'
    <3>1. CASE q = p
      BY <2>1, <3>1
    <3>2. CASE q # p
      BY <1>3, <2>2, <3>2, OwnStays DEF Apart, Issue
    <3> QED BY <3>1, <3>2
  <2>4. Ends
    BY <2>1, <2>2 DEF Ends
  <2> QED BY <1>1, <2>1, <2>3, <2>4 DEF Apart
<1> QED BY <1>1, <1>2, <1>3, NextSteps, StepFine DEF Apart

\* The invariant holds of a store that commands left behind.
LEMMA ApartInit == Init => Apart
<1> SUFFICES ASSUME Init PROVE Apart
  OBVIOUS
<1>1. \A p \in Procs : Own(proc[p])
  BY RestOwn DEF Init
<1>2. ASSUME NEW k \in Guids, keys[k].status # "live" PROVE keys[k].name = NoValue
  <2>1. keys[k] = Blank("unborn") \/ keys[k].status \in {"live"}
    BY DEF Init
  <2> QED BY <1>2, <2>1 DEF Blank
<1>3. NamesUnique
  BY DEF Init, NamesUnique, Live
<1> QED BY <1>1, <1>2, <1>3, TypeInit DEF Apart, Nameless

\* A key is created by a command that has checked the names of all others.
LEMMA CreatesBesideNamed == Apart /\ [Next]_vars => BesideNamed
<1> SUFFICES ASSUME Apart, [Next]_vars, NEW k \in Guids, keys[k].status = "unborn", keys'[k].status = "live"
             PROVE  \A j \in Live : keys[j].name # NoValue
  BY DEF BesideNamed
<1>1. keys' # keys
  OBVIOUS
<1>2. PICK p \in Procs : Sets(p) \/ CreateKey(p) \/ DeleteTree(p)
  BY <1>1, NextSteps, ZenonT(60) DEF vars, Issue, Settles, SetDefault, ClearDefault, Fault, Crash,
        Reads, EnumKey, EnumDone, ReadName, NamesDone, ReadDefault, ReadDefaultName
<1>3. Own(proc[p]) /\ TypeOK
  BY DEF Apart
<1>4. CASE CreateKey(p)
  BY <1>3, <1>4 DEF CreateKey, Own, Checking
<1>5. CASE Sets(p)
  <2>1. proc[p].id \in Live
    BY <1>3, <1>5 DEF Sets, SetName, SetDir, SetState, SetVersion, WriteDir, Own, Filling, Holding
  <2>2. \E v : keys' = [keys EXCEPT ![proc[p].id] = v]
    BY <1>1, <1>5 DEF Sets, SetName, SetDir, SetState, SetVersion, WriteDir, Write
  <2>3. k = proc[p].id
    BY <1>3, <2>2 DEF TypeOK
  <2> QED BY <2>1, <2>3 DEF Live
<1>6. CASE DeleteTree(p)
  <2>1. keys'[k] = keys[k] \/ keys'[k] = Blank("dead")
    BY <1>3, <1>6 DEF DeleteTree, TypeOK
  <2> QED BY <2>1 DEF Blank
<1> QED BY <1>2, <1>4, <1>5, <1>6

\* Without overlapping commands no two distributions ever have the same name, whatever
\* fails and whoever is killed: the check of register_distro sees every name.
THEOREM NamesStayUnique == Spec /\ []OneAtATime => []NamesUnique
<1>1. Apart => NamesUnique
  BY DEF Apart
<1> QED BY <1>1, ApartInit, ApartStep, PTL DEF Spec

\* And every key is created beside named keys only: what a killed or failed "register"
\* has left without a name blocks all later ones.
THEOREM NamedOrBlocked == Spec /\ []OneAtATime => RegisterNeedsNames
<1>1. Spec /\ []OneAtATime => []Apart
  BY ApartInit, ApartStep, PTL DEF Spec
<1>2. Apart /\ [Next]_vars => [BesideNamed]_vars
  BY CreatesBesideNamed
<1>3. Spec /\ []OneAtATime => [][BesideNamed]_vars
  BY <1>1, <1>2, PTL DEF Spec
<1> QED BY <1>3 DEF RegisterNeedsNames, BesideNamed

\* And every command that ends without an error has had all of its effect.
THEOREM CommandsEndWell == Spec /\ []OneAtATime => [][Ends]_vars
<1>1. Spec /\ []OneAtATime => []Apart
  BY ApartInit, ApartStep, PTL DEF Spec
<1>2. Apart /\ OneAtATime /\ [Next]_vars => [Ends]_vars
  BY ApartStep
<1> QED BY <1>1, <1>2, PTL DEF Spec

(* There is one process. *)
Alone == \A p, q \in Procs : p = q

\* With one process nobody undoes what the last command has done.
THEOREM NothingFailsSilently == Alone /\ Spec => []NoSilentFailure
<1> SUFFICES ASSUME Alone PROVE Spec => []NoSilentFailure
  OBVIOUS
<1>1. OneAtATime
  BY DEF Alone, OneAtATime
<1>2. Init => NoSilentFailure
  BY DEF Init, NoSilentFailure, EndedWell, Rest
<1>3. NoSilentFailure /\ Apart /\ [Next]_vars => NoSilentFailure'
  <2> SUFFICES ASSUME NoSilentFailure, Apart, [Next]_vars, NEW p \in Procs, proc'[p].pc = "idle"
               PROVE  EndedWell(proc[p])'
    BY DEF NoSilentFailure
  <2>1. CASE proc[p].pc # "idle"
    BY <1>1, <2>1, ApartStep DEF Ends
  <2>2. CASE proc[p].pc = "idle"
    <3>1. \A q \in Procs : ~Issue(q)
      BY IssueFine DEF Alone
    <3>2. UNCHANGED vars
      <4>1. \A q \in Procs : proc[q].pc = "idle"
        BY <2>2 DEF Alone
      <4> QED BY <3>1, <4>1, ZenonT(60) DEF Next, Step, Quiet, EnumKey, EnumDone, ReadName, NamesDone, ReadDefault,
                ReadDefaultName, CreateKey, DeleteTree, SetName, SetDir, SetState, SetVersion, WriteDir,
                SetDefault, ClearDefault, Fault, Crash
    <3> QED BY <2>2, <3>2 DEF NoSilentFailure, EndedWell, Effect, vars, Live
  <2> QED BY <2>1, <2>2
<1>4. Apart /\ [Next]_vars => Apart'
  BY <1>1, ApartStep
<1> QED BY <1>2, <1>3, <1>4, ApartInit, PTL DEF Spec

-----------------------------------------------------------------------------
(* The refinement of DistroStore *)

(* The table T has the names and the directories of the keys L, and c the
   name of the default, if there is one. *)
Held(ks, L, T) ==
    /\ T \in [{ks[k].name : k \in L} -> Dirs]
    /\ \A k \in L : ks[k].name \in Names /\ T[ks[k].name] = ks[k].dir
Chosen(ks, def, L, c) == IF def = NoValue THEN c = NoValue ELSE def \in L /\ c = ks[def].name

With(T, name, dir) == [n \in DOMAIN T \cup {name} |-> IF n = name THEN dir ELSE T[n]]
Without(T, name) == [n \in DOMAIN T \ {name} |-> T[n]]

LiveOf(ks) == {k \in Guids : ks[k].status = "live"}

-----------------------------------------------------------------------------
(* Tables *)

\* Names and directories are those of keys.
LEMMA HeldTypes ==
    ASSUME NEW ks, NEW L, NEW T, Held(ks, L, T)
    PROVE  /\ DOMAIN T = {ks[k].name : k \in L}
           /\ DOMAIN T \subseteq Names
           /\ \A n \in DOMAIN T : T[n] \in Dirs
           /\ T = [n \in DOMAIN T |-> T[n]]
           /\ \A k \in L : ks[k].name \in DOMAIN T /\ ks[k].name # NoValue
BY NoValueAssumption DEF Held

\* A table that tells what the keys hold is what is read from them.
LEMMA ReadingHeld ==
    ASSUME NEW ks, NEW def, NEW T, NEW c, Held(ks, LiveOf(ks), T), Chosen(ks, def, LiveOf(ks), c)
    PROVE  Reading(ks, def) = [table |-> T, chosen |-> c]
<1> DEFINE L == LiveOf(ks)
           D == {ks[k].name : k \in L}
           R == [n \in D |-> ks[CHOOSE k \in L : ks[k].name = n].dir]
<1>1. ASSUME NEW n \in D PROVE R[n] = T[n]
  <2>1. \E k \in L : ks[k].name = n
    OBVIOUS
  <2>2. PICK k \in L : ks[k].name = n /\ k = CHOOSE j \in L : ks[j].name = n
    BY <2>1
  <2>3. R[n] = ks[k].dir
    BY <2>2
  <2>4. T[n] = ks[k].dir
    BY <2>2 DEF Held
  <2> QED BY <2>3, <2>4
<1>2. T \in [D -> Dirs]
  BY DEF Held
<1>3. R = T
  <2>1. R = [n \in D |-> R[n]] /\ T = [n \in D |-> T[n]]
    BY <1>2
  <2> HIDE DEF R, D
  <2> QED BY <1>1, <2>1
<1>4. (IF def = NoValue THEN NoValue ELSE ks[def].name) = c
  BY DEF Chosen
<1>5. Reading(ks, def) = [table |-> R, chosen |-> IF def = NoValue THEN NoValue ELSE ks[def].name]
  BY DEF Reading, LiveOf
<1> QED BY <1>3, <1>4, <1>5

\* And what is read from keys with different names tells what they hold.
LEMMA HeldReading ==
    ASSUME NEW ks, NEW def,
           \A k \in LiveOf(ks) : ks[k].name \in Names /\ ks[k].dir \in Dirs,
           \A j, k \in LiveOf(ks) : ks[j].name = ks[k].name => j = k,
           def \in LiveOf(ks) \cup {NoValue}
    PROVE  Held(ks, LiveOf(ks), Reading(ks, def).table) /\ Chosen(ks, def, LiveOf(ks), Reading(ks, def).chosen)
<1> DEFINE L == LiveOf(ks)
           D == {ks[k].name : k \in L}
           R == [n \in D |-> ks[CHOOSE k \in L : ks[k].name = n].dir]
<1>1. ASSUME NEW k \in L PROVE R[ks[k].name] = ks[k].dir
  <2>1. PICK j \in L : ks[j].name = ks[k].name /\ j = CHOOSE i \in L : ks[i].name = ks[k].name
    OBVIOUS
  <2> QED BY <2>1
<1>2. R \in [D -> Dirs]
  <2>1. ASSUME NEW n \in D PROVE R[n] \in Dirs
    <3>1. PICK k \in L : ks[k].name = n
      OBVIOUS
    <3> QED BY <1>1, <3>1
  <2>2. R = [n \in D |-> R[n]]
    OBVIOUS
  <2> HIDE DEF R, D
  <2> QED BY <2>1, <2>2
<1>3. Reading(ks, def) = [table |-> R, chosen |-> IF def = NoValue THEN NoValue ELSE ks[def].name]
  BY DEF Reading, LiveOf
<1>4. Reading(ks, def).table = R /\ Reading(ks, def).chosen = IF def = NoValue THEN NoValue ELSE ks[def].name
  BY <1>3
<1> QED BY <1>1, <1>2, <1>4 DEF Held, Chosen

\* Tables only tell of names and directories.
LEMMA HeldSame ==
    ASSUME NEW ks, NEW ls, NEW L, NEW T, NEW c, NEW def,
           \A k \in L : ls[k].name = ks[k].name /\ ls[k].dir = ks[k].dir
    PROVE  /\ Held(ks, L, T) => Held(ls, L, T)
           /\ Chosen(ks, def, L, c) => Chosen(ls, def, L, c)
<1>1. {ks[k].name : k \in L} = {ls[k].name : k \in L}
  OBVIOUS
<1> QED BY <1>1 DEF Held, Chosen

\* One more key, one key less, and one with another directory.
LEMMA HeldWith ==
    ASSUME NEW ks, NEW L, NEW T, NEW k \in L, NEW name \in Names, NEW dir \in Dirs,
           Held(ks, L \ {k}, T), ks[k].name = name, ks[k].dir = dir, name \notin DOMAIN T
    PROVE  Held(ks, L, With(T, name, dir))
<1>1. DOMAIN T = {ks[j].name : j \in L \ {k}} /\ \A n \in DOMAIN T : T[n] \in Dirs
  BY HeldTypes
<1>2. DOMAIN T \cup {name} = {ks[j].name : j \in L}
  BY <1>1
<1>3. With(T, name, dir) \in [{ks[j].name : j \in L} -> Dirs]
  BY <1>1, <1>2 DEF With
<1>4. ASSUME NEW j \in L PROVE ks[j].name \in Names /\ With(T, name, dir)[ks[j].name] = ks[j].dir
  <2>1. CASE j = k
    BY <2>1 DEF With
  <2>2. CASE j # k
    BY <1>1, <2>2 DEF With, Held
  <2> QED BY <2>1, <2>2
<1> QED BY <1>3, <1>4 DEF Held

LEMMA HeldWithout ==
    ASSUME NEW ks, NEW L, NEW T, NEW k \in L, Held(ks, L, T),
           \A j \in L : ks[j].name = ks[k].name => j = k
    PROVE  Held(ks, L \ {k}, Without(T, ks[k].name))
<1>1. DOMAIN T = {ks[j].name : j \in L} /\ \A n \in DOMAIN T : T[n] \in Dirs
  BY DEF Held
<1>2. DOMAIN T \ {ks[k].name} = {ks[j].name : j \in L \ {k}}
  BY <1>1
<1>3. Without(T, ks[k].name) \in [{ks[j].name : j \in L \ {k}} -> Dirs]
  BY <1>1, <1>2 DEF Without
<1>4. ASSUME NEW j \in L \ {k} PROVE ks[j].name \in Names /\ Without(T, ks[k].name)[ks[j].name] = ks[j].dir
  BY <1>1 DEF Without, Held
<1> QED BY <1>3, <1>4 DEF Held

LEMMA HeldMoved ==
    ASSUME NEW ks, NEW ls, NEW L, NEW T, NEW k \in L, NEW dir \in Dirs, Held(ks, L, T),
           \A j \in L : ks[j].name = ks[k].name => j = k,
           \A j \in L : ls[j].name = ks[j].name /\ ls[j].dir = IF j = k THEN dir ELSE ks[j].dir
    PROVE  Held(ls, L, [T EXCEPT ![ks[k].name] = dir])
<1>1. DOMAIN T = {ks[j].name : j \in L} /\ T \in [DOMAIN T -> Dirs]
  BY HeldTypes DEF Held
<1>2. {ks[j].name : j \in L} = {ls[j].name : j \in L}
  OBVIOUS
<1>3. [T EXCEPT ![ks[k].name] = dir] \in [DOMAIN T -> Dirs]
  BY <1>1
<1>4. ASSUME NEW j \in L PROVE ls[j].name \in Names /\ [T EXCEPT ![ks[k].name] = dir][ls[j].name] = ls[j].dir
  <2>1. ks[j].name \in DOMAIN T /\ ks[j].name \in Names /\ T[ks[j].name] = ks[j].dir
    BY <1>1 DEF Held
  <2> QED BY <1>1, <2>1
<1> QED BY <1>1, <1>2, <1>3, <1>4 DEF Held

-----------------------------------------------------------------------------
(* The invariant *)

(* The registry is what it was when the last command ended; all but the key k is. *)
Known == Held(keys, Live, settled.table) /\ Chosen(keys, default, Live, settled.chosen)
KnownBut(k) ==
    /\ k \in Live
    /\ Held(keys, Live \ {k}, settled.table)
    /\ Chosen(keys, default, Live \ {k}, settled.chosen)

(* How far the running command has brought the registry from there. *)
Telling(l) ==
    /\ l.goal \in {"check", "find", "wasDefault"} => Known
    /\ l.goal \in {"fill", "probe", "adopt"} => l.cmd.name \notin DOMAIN settled.table
    /\ l.goal = "fill" => KnownBut(l.id)
    /\ l.goal \in {"probe", "adopt"} =>
        \E k \in Live : KnownBut(k) /\ keys[k].name = l.cmd.name /\ keys[k].dir = l.cmd.dir
    /\ l.goal = "adopt" => default = NoValue
    /\ l.goal = "heir" =>
        /\ settled.chosen = l.cmd.name /\ l.cmd.name \in DOMAIN settled.table /\ default # NoValue
        /\ Held(keys, Live, Without(settled.table, l.cmd.name))

(* What it has found in the lists it has fetched. *)
Seeking(l) ==
    /\ l.pc = "names" =>
        /\ Listed(l.ids) \subseteq Live
        /\ l.goal # "check" => \A k \in Live \ Listed(l.ids) : keys[k].name # l.cmd.name
    /\ l.goal = "check" /\ l.taken => l.pc = "names" /\ \E k \in Live : keys[k].name = l.cmd.name
    /\ l.goal = "find" /\ l.cmd.op = "unregister" /\ l.wasDefault => keys[default].name = l.cmd.name
    /\ l.pc = "setDefault" /\ l.goal = "adopt" => keys[l.id].name = l.cmd.name

Run(l) == Telling(l) /\ Seeking(l) /\ l.outcome = "none"

Recorded == settled = [table |-> settled.table, chosen |-> settled.chosen]

(* The inductive invariant, for commands that do not overlap. *)
Settled ==
    /\ Apart /\ Recorded
    /\ AllIdle => Known
    /\ \A p \in Procs : proc[p].pc # "idle" => Run(proc[p])

(* The reasons for which a command may be refused. *)
Cause(cmd) ==
    CASE cmd.op = "register"   -> cmd.name \in DOMAIN settled.table
      [] cmd.op = "unregister" -> settled.chosen = NoValue \/ cmd.name \notin DOMAIN settled.table
      [] OTHER                 -> cmd.name \notin DOMAIN settled.table

(* A step of the only running command, *)
Solo(p) ==
    /\ Apart /\ Recorded /\ SettledNext
    /\ proc[p].pc # "idle" /\ Run(proc[p])
    /\ \A q \in Procs \ {p} : proc[q].pc = "idle" /\ proc'[q] = proc[q]

(* and what may come of it: it goes on, it is done, or it is refused. *)
GoesOn(p) == proc'[p].pc # "idle" /\ Run(proc[p])' /\ settled' = settled
IsDone(p) == proc'[p].pc = "idle" /\ proc'[p].outcome # "error" /\ Known' /\ Recorded' /\ Promised!StoreNext
IsRefused(p) == proc'[p].pc = "idle" /\ Known' /\ settled' = settled /\ Cause(proc[p].cmd)
After(p) == GoesOn(p) \/ IsDone(p) \/ IsRefused(p)

\* A command that goes on leaves the record as it is.
LEMMA Ongoing ==
    ASSUME NEW p \in Procs, Solo(p), proc'[p].pc # "idle"
    PROVE  settled' = settled
BY DEF Solo, SettledNext, AllIdle

\* One that ends makes it what the registry holds.
LEMMA Ending ==
    ASSUME NEW p \in Procs, Solo(p), proc'[p].pc = "idle", NEW T, NEW c,
           Held(keys', Live', T), Chosen(keys', default', Live', c)
    PROVE  settled' = [table |-> T, chosen |-> c] /\ settled'.table = T /\ settled'.chosen = c /\ Known' /\ Recorded'
<1>1. AllIdle'
  BY DEF Solo, AllIdle
<1>2. Live' = LiveOf(keys')
  BY DEF Live, LiveOf
<1>3. settled' = Reading(keys', default')
  BY <1>1 DEF Solo, SettledNext
<1>4. Reading(keys', default') = [table |-> T, chosen |-> c]
  BY <1>2, ReadingHeld
<1>5. settled' = [table |-> T, chosen |-> c] /\ settled'.table = T /\ settled'.chosen = c
  BY <1>3, <1>4
<1>6. Known'
  BY <1>5 DEF Known
<1>7. Recorded'
  BY <1>5 DEF Recorded
<1> QED BY <1>5, <1>6, <1>7

\* What a command knows stays true while it only reads.
LEMMA RunStays ==
    ASSUME NEW p \in Procs, Solo(p), NEW l, Become(p, l), keys' = keys, default' = default, Run(l), l.pc # "idle"
    PROVE  After(p)
<1>1. proc'[p] = l
  BY DEF Become, Solo, Apart, TypeOK
<1>2. settled' = settled
  BY <1>1, Ongoing
<1>3. Live' = Live
  BY DEF Live
<1>4. Telling(proc[p])'
  BY <1>1, <1>2, <1>3 DEF Run, Telling, Known, KnownBut
<1>5. Seeking(proc[p])'
  BY <1>1, <1>2, <1>3 DEF Run, Seeking, Listed
<1>6. proc'[p].outcome = "none"
  BY <1>1 DEF Run
<1> QED BY <1>1, <1>2, <1>4, <1>5, <1>6 DEF After, GoesOn, Run

\* A command that is refused has changed nothing.
LEMMA Refusing ==
    ASSUME NEW p \in Procs, Solo(p), Become(p, Raised(p)), keys' = keys, default' = default,
           Known, Cause(proc[p].cmd)
    PROVE  After(p)
<1>1. proc'[p].pc = "idle"
  BY DEF Become, Solo, Apart, TypeOK, Raised, Rest
<1>2. Held(keys', Live', settled.table) /\ Chosen(keys', default', Live', settled.chosen)
  BY DEF Known, Live
<1>3. settled' = [table |-> settled.table, chosen |-> settled.chosen] /\ Known'
  BY <1>1, <1>2, Ending
<1>4. settled' = settled
  BY <1>3 DEF Solo, Recorded
<1> QED BY <1>1, <1>3, <1>4 DEF After, IsRefused

\* What a running command is.
LEMMA SoloTypes ==
    ASSUME NEW p \in Procs, Solo(p)
    PROVE  /\ TypeOK /\ Own(proc[p]) /\ Nameless /\ NamesUnique
           /\ proc[p] \in Local /\ proc[p].cmd \in Commands /\ proc[p].cmd.name \in Names
           /\ proc[p].cmd.op \in {"register", "unregister", "setDir", "setDefault"}
           /\ proc[p].cmd.op \in {"register", "setDir"} => proc[p].cmd.dir \in Dirs
           /\ Live \subseteq Guids
BY DEF Solo, Apart, TypeOK, Commands, Live

-----------------------------------------------------------------------------
(* Steps that only read *)

\* One more key is listed.
LEMMA EnumKeyRuns ==
    ASSUME NEW p \in Procs, Solo(p), EnumKey(p)
    PROVE  After(p)
<1>1. /\ proc[p] \in Local /\ Run(proc[p]) /\ Own(proc[p]) /\ proc[p].pc = "enum"
      /\ keys' = keys /\ default' = default
  BY SoloTypes DEF EnumKey, Solo
<1>2. PICK k \in Entries(proc[p].cursor) : Become(p,
         [proc[p] EXCEPT !.cursor = @ + 1, !.ids = IF k \in Foreign THEN @ ELSE Append(@, k)])
  BY DEF EnumKey
<1> DEFINE ids == IF k \in Foreign THEN proc[p].ids ELSE Append(proc[p].ids, k)
           l == [proc[p] EXCEPT !.cursor = proc[p].cursor + 1, !.ids = ids]
<1>3. Become(p, l)
  BY <1>2
<1> HIDE DEF ids
<1>4. /\ l.pc = "enum" /\ l.goal = proc[p].goal /\ l.cmd = proc[p].cmd /\ l.taken = proc[p].taken
      /\ l.wasDefault = proc[p].wasDefault /\ l.id = proc[p].id /\ l.outcome = proc[p].outcome
  BY <1>1 DEF Local
<1> HIDE DEF l
<1>5. Run(l)
  BY <1>1, <1>4 DEF Run, Telling, Seeking
<1> QED BY <1>1, <1>3, <1>4, <1>5, RunStays

\* The list is complete when no key has the next index.
LEMMA EnumDoneRuns ==
    ASSUME NEW p \in Procs, Solo(p), EnumDone(p)
    PROVE  After(p)
<1>1. /\ proc[p] \in Local /\ TypeOK /\ Run(proc[p]) /\ Own(proc[p]) /\ proc[p].pc = "enum"
      /\ Entries(proc[p].cursor) = {} /\ keys' = keys /\ default' = default
  BY SoloTypes DEF EnumDone, Solo
<1>2. Listed(proc[p].ids) = Live
  <2>1. Live \subseteq Stored /\ proc[p].cursor \in Nat
    BY <1>1 DEF Stored, Local
  <2> QED BY <1>1, <2>1, EnumComplete DEF Own, Listing
<1> DEFINE heir == proc[p].goal = "heir"
           pc  == IF ~heir THEN "names" ELSE IF proc[p].ids = <<>> THEN "clearDefault" ELSE "setDefault"
           ids == IF heir THEN <<>> ELSE proc[p].ids
           id  == IF heir /\ proc[p].ids # <<>> THEN Head(proc[p].ids) ELSE NoValue
           l   == [proc[p] EXCEPT !.cursor = 0, !.pc = pc, !.ids = ids, !.id = id]
<1>3. Become(p, l)
  BY DEF EnumDone
<1>4. pc \in {"names", "clearDefault", "setDefault"} /\ (pc = "names" <=> ~heir)
  OBVIOUS
<1>5. /\ l.pc = pc /\ l.goal = proc[p].goal /\ l.cmd = proc[p].cmd /\ l.wasDefault = proc[p].wasDefault
      /\ l.taken = proc[p].taken /\ l.outcome = proc[p].outcome /\ (~heir => l.ids = proc[p].ids)
  BY <1>1 DEF Local
<1> HIDE DEF pc, id, ids, l
<1>6. Telling(l)
  BY <1>1, <1>5 DEF Run, Telling, Own, Going
<1>7. Seeking(l)
  BY <1>1, <1>2, <1>4, <1>5 DEF Run, Seeking
<1>8. Run(l)
  BY <1>1, <1>5, <1>6, <1>7 DEF Run
<1> QED BY <1>1, <1>3, <1>4, <1>5, <1>8, RunStays

\* A name that was read: every key has one, so the command goes on with this key or without it.
LEMMA ReadNameRuns ==
    ASSUME NEW p \in Procs, Solo(p), ReadName(p)
    PROVE  After(p)
<1>1. /\ proc[p] \in Local /\ TypeOK /\ Run(proc[p]) /\ Own(proc[p]) /\ proc[p].pc = "names"
      /\ proc[p].ids # <<>> /\ keys' = keys /\ default' = default /\ proc[p].cmd.name # NoValue
  BY SoloTypes, NoValueAssumption DEF ReadName, Solo
<1> DEFINE k == Head(proc[p].ids)
           match == keys[k].name = proc[p].cmd.name
           ids == Tail(proc[p].ids)
           l == [proc[p] EXCEPT !.ids = ids, !.taken = @ \/ match]
<1>2. k \in Guids /\ Listed(proc[p].ids) = Listed(ids) \cup {k}
  BY <1>1, ListedSteps DEF Local
<1>3. k \in Live /\ Listed(ids) \subseteq Live
  BY <1>1, <1>2 DEF Run, Seeking
<1>4. proc[p].goal \in {"check", "find", "adopt"}
  BY <1>1 DEF Own, Going
<1>5. keys[k].name # NoValue
  <2> HIDE DEF k
  <2>1. CASE proc[p].goal \in {"check", "find"}
    BY <1>1, <1>3, <2>1, NoValueAssumption DEF Run, Telling, Known, Held
  <2>2. CASE proc[p].goal = "adopt"
    <3>1. PICK j \in Live : KnownBut(j) /\ keys[j].name = proc[p].cmd.name
      BY <1>1, <2>2 DEF Run, Telling
    <3> QED BY <1>1, <1>3, <3>1, NoValueAssumption DEF KnownBut, Held
  <2> QED BY <1>4, <2>1, <2>2
<1>6. CASE match /\ proc[p].goal # "check" /\ Become(p, Found(p, k))
  <2> DEFINE m == Found(p, k)
             pc == CASE proc[p].cmd.op = "unregister" -> "delete"
                     [] proc[p].cmd.op = "setDir"     -> "writeDir"
                     [] OTHER                         -> "setDefault"
  <2>1. m = [proc[p] EXCEPT !.id = k, !.ids = <<>>, !.pc = pc]
    BY DEF Found
  <2>2. pc \in {"delete", "writeDir", "setDefault"}
    OBVIOUS
  <2> HIDE DEF pc, k
  <2>3. /\ m.pc = pc /\ m.id = k /\ m.goal = proc[p].goal /\ m.cmd = proc[p].cmd
        /\ m.wasDefault = proc[p].wasDefault /\ m.outcome = proc[p].outcome
    BY <1>1, <2>1 DEF Local
  <2> HIDE DEF m
  <2>4. Telling(m)
    BY <1>1, <1>4, <1>6, <2>3 DEF Run, Telling
  <2>5. Seeking(m)
    BY <1>1, <1>4, <1>6, <2>2, <2>3 DEF Run, Seeking
  <2>6. Run(m)
    BY <1>1, <2>3, <2>4, <2>5 DEF Run
  <2> QED BY <1>1, <1>6, <2>2, <2>3, <2>6, RunStays DEF m
<1>7. CASE ~(match /\ proc[p].goal # "check") /\ Become(p, l)
  <2> HIDE DEF k
  <2>1. /\ l.pc = "names" /\ l.goal = proc[p].goal /\ l.cmd = proc[p].cmd /\ l.ids = ids /\ l.id = proc[p].id
        /\ l.wasDefault = proc[p].wasDefault /\ l.outcome = proc[p].outcome /\ l.taken = (proc[p].taken \/ match)
    BY <1>1 DEF Local
  <2> HIDE DEF l, ids
  <2>2. Telling(l)
    BY <1>1, <2>1 DEF Run, Telling
  <2>3. l.goal # "check" => \A j \in Live \ Listed(l.ids) : keys[j].name # l.cmd.name
    BY <1>1, <1>2, <1>7, <2>1 DEF Run, Seeking
  <2>4. l.goal = "check" /\ l.taken => \E j \in Live : keys[j].name = l.cmd.name
    BY <1>1, <1>3, <2>1, ZenonT(60) DEF Run, Seeking
  <2>5. Seeking(l)
    BY <1>1, <1>3, <2>1, <2>3, <2>4 DEF Run, Seeking
  <2>6. Run(l)
    BY <1>1, <2>1, <2>2, <2>5 DEF Run
  <2> QED BY <1>1, <1>7, <2>1, <2>6, RunStays
<1>8. \/ match /\ proc[p].goal # "check" /\ Become(p, Found(p, k))
      \/ ~(match /\ proc[p].goal # "check") /\ Become(p, l)
  BY <1>5 DEF ReadName
<1> QED BY <1>6, <1>7, <1>8

\* The end of the list: the name is free, or it is a reason to refuse the command.
LEMMA NamesDoneRuns ==
    ASSUME NEW p \in Procs, Solo(p), NamesDone(p)
    PROVE  After(p)
<1>1. /\ proc[p] \in Local /\ TypeOK /\ Run(proc[p]) /\ Own(proc[p]) /\ proc[p].pc = "names"
      /\ Listed(proc[p].ids) = {} /\ keys' = keys /\ default' = default
  BY SoloTypes DEF NamesDone, Solo, Listed
<1>2. CASE proc[p].goal = "check" /\ ~proc[p].taken /\ Become(p, [proc[p] EXCEPT !.pc = "create"])
  <2> DEFINE l == [proc[p] EXCEPT !.pc = "create"]
  <2>1. /\ l.pc = "create" /\ l.goal = "check" /\ l.cmd = proc[p].cmd /\ l.taken = proc[p].taken
        /\ l.outcome = proc[p].outcome
    BY <1>1, <1>2 DEF Local
  <2> HIDE DEF l
  <2>2. Run(l)
    BY <1>1, <1>2, <2>1 DEF Run, Telling, Seeking
  <2> QED BY <1>1, <1>2, <2>1, <2>2, RunStays DEF l
<1>3. CASE ~(proc[p].goal = "check" /\ ~proc[p].taken) /\ Become(p, Raised(p))
  <2>1. proc[p].goal \in {"check", "find", "adopt"}
    BY <1>1 DEF Own, Going
  <2>2. CASE proc[p].goal = "check"
    <3>1. Known /\ proc[p].cmd.op = "register"
      BY <1>1, <2>2 DEF Run, Telling, Own, Going
    <3>2. PICK k \in Live : keys[k].name = proc[p].cmd.name
      BY <1>1, <1>3, <2>2 DEF Run, Seeking
    <3>3. proc[p].cmd.name \in DOMAIN settled.table
      BY <3>1, <3>2 DEF Known, Held
    <3> QED BY <1>1, <1>3, <3>1, <3>3, Refusing DEF Cause
  <2>3. CASE proc[p].goal = "find"
    <3>1. Known /\ proc[p].cmd.op # "register"
      BY <1>1, <2>3 DEF Run, Telling, Own, Going
    <3>2. \A k \in Live : keys[k].name # proc[p].cmd.name
      BY <1>1, <2>3 DEF Run, Seeking
    <3>3. proc[p].cmd.name \notin DOMAIN settled.table
      BY <3>1, <3>2 DEF Known, Held
    <3> QED BY <1>1, <1>3, <3>1, <3>3, Refusing DEF Cause
  <2>4. CASE proc[p].goal = "adopt"
    BY <1>1, <2>4 DEF Run, Telling, Seeking
  <2> QED BY <2>1, <2>2, <2>3, <2>4
<1> QED BY <1>2, <1>3 DEF NamesDone

\* Without a default, "unregister" is refused and a new distribution is going to be it.
LEMMA NoDefaultRuns ==
    ASSUME NEW p \in Procs, Solo(p), proc[p].pc \in {"default", "defaultName"}, default = NoValue,
           Become(p, NoDefault(p)), keys' = keys, default' = default
    PROVE  After(p)
<1>1. /\ proc[p] \in Local /\ Run(proc[p]) /\ Own(proc[p]) /\ proc[p].goal \in {"probe", "wasDefault"}
  BY SoloTypes DEF Solo, Own, Going
<1>2. CASE proc[p].goal = "probe"
  <2> DEFINE l == Scan(p, "adopt")
  <2>1. /\ l.pc = "enum" /\ l.goal = "adopt" /\ l.cmd = proc[p].cmd /\ l.outcome = proc[p].outcome
        /\ l.taken = proc[p].taken
    BY <1>1 DEF Scan, Local
  <2> HIDE DEF l
  <2>2. Telling(l) /\ Seeking(l)
    BY <1>1, <1>2, <2>1 DEF Run, Telling, Seeking
  <2>3. Run(l)
    BY <1>1, <2>1, <2>2 DEF Run
  <2>4. Become(p, l)
    BY <1>2 DEF NoDefault, l
  <2> QED BY <2>1, <2>3, <2>4, RunStays
<1>3. CASE proc[p].goal = "wasDefault"
  <2>1. Known /\ proc[p].cmd.op = "unregister"
    BY <1>1, <1>3 DEF Run, Telling, Own, Going
  <2>2. settled.chosen = NoValue
    BY <2>1 DEF Known, Chosen
  <2>3. Become(p, Raised(p))
    BY <1>3 DEF NoDefault
  <2> QED BY <2>1, <2>2, <2>3, Refusing DEF Cause
<1> QED BY <1>1, <1>2, <1>3

\* Looking for the default.
LEMMA ReadDefaultRuns ==
    ASSUME NEW p \in Procs, Solo(p), ReadDefault(p)
    PROVE  After(p)
<1>1. /\ proc[p] \in Local /\ Run(proc[p]) /\ Own(proc[p]) /\ proc[p].pc = "default"
      /\ keys' = keys /\ default' = default
  BY SoloTypes DEF Solo, ReadDefault
<1>2. CASE default = NoValue
  BY <1>1, <1>2, NoDefaultRuns DEF ReadDefault
<1>3. CASE default # NoValue
  <2> DEFINE l == [proc[p] EXCEPT !.pc = "defaultName", !.id = default]
  <2>1. /\ l.pc = "defaultName" /\ l.goal = proc[p].goal /\ l.cmd = proc[p].cmd /\ l.taken = proc[p].taken
        /\ l.wasDefault = proc[p].wasDefault /\ l.outcome = proc[p].outcome /\ l.id = default
    BY <1>1 DEF Local
  <2>2. Become(p, l)
    BY <1>3 DEF ReadDefault
  <2> HIDE DEF l
  <2>3. proc[p].goal \in {"probe", "wasDefault"}
    BY <1>1 DEF Own, Going
  <2>4. Telling(l) /\ Seeking(l)
    BY <1>1, <2>1, <2>3 DEF Run, Telling, Seeking
  <2>5. Run(l)
    BY <1>1, <2>1, <2>4 DEF Run
  <2> QED BY <1>1, <2>1, <2>2, <2>5, RunStays
<1> QED BY <1>2, <1>3

-----------------------------------------------------------------------------
(* Steps that end a command *)

\* The promise of a store step, for a command that has just been done.
LEMMA Promising ==
    ASSUME NEW T, NEW c, settled.table = T, settled.chosen = c, NEW name \in Names
    PROVE  /\ \A dir \in Dirs :
                /\ name \notin DOMAIN T /\ settled'.table = With(T, name, dir)
                   /\ settled'.chosen = (IF c = NoValue THEN name ELSE c) => Promised!StoreNext
                /\ name \in DOMAIN T /\ settled'.table = [T EXCEPT ![name] = dir] /\ settled'.chosen = c
                   => Promised!StoreNext
           /\ name \in DOMAIN T /\ settled'.table = T /\ settled'.chosen = name => Promised!StoreNext
           /\ /\ c # NoValue /\ name \in DOMAIN T /\ settled'.table = Without(T, name)
              /\ \/ c # name /\ settled'.chosen = c
                 \/ c = name /\ DOMAIN T = {name} /\ settled'.chosen = NoValue
                 \/ c = name /\ DOMAIN T # {name} /\ settled'.chosen \in DOMAIN T \ {name}
              => Promised!StoreNext
<1>1. ASSUME NEW dir \in Dirs, name \notin DOMAIN T, settled'.table = With(T, name, dir),
             settled'.chosen = (IF c = NoValue THEN name ELSE c)
      PROVE  Promised!StoreNext
  BY <1>1 DEF Promised!StoreNext, Promised!Register, With
<1>2. ASSUME NEW dir \in Dirs, name \in DOMAIN T, settled'.table = [T EXCEPT ![name] = dir], settled'.chosen = c
      PROVE  Promised!StoreNext
  BY <1>2 DEF Promised!StoreNext, Promised!Relocate
<1>3. ASSUME name \in DOMAIN T, settled'.table = T, settled'.chosen = name
      PROVE  Promised!StoreNext
  BY <1>3 DEF Promised!StoreNext, Promised!Choose
<1>4. ASSUME c # NoValue, name \in DOMAIN T, settled'.table = Without(T, name),
             \/ c # name /\ settled'.chosen = c
             \/ c = name /\ DOMAIN T = {name} /\ settled'.chosen = NoValue
             \/ c = name /\ DOMAIN T # {name} /\ settled'.chosen \in DOMAIN T \ {name}
      PROVE  Promised!StoreNext
  <2>1. Promised!Unregister(name)
    BY <1>4 DEF Promised!Unregister, Without
  <2> QED BY <2>1 DEF Promised!StoreNext
<1> QED BY <1>1, <1>2, <1>3, <1>4

\* "register" is done when its key is there with its values and there is a default.
LEMMA RegisterDone ==
    ASSUME NEW p \in Procs, Solo(p), Become(p, Finished(p)), keys' = keys, NEW k \in Live,
           proc[p].goal \in {"probe", "adopt"}, KnownBut(k),
           keys[k].name = proc[p].cmd.name, keys[k].dir = proc[p].cmd.dir,
           Chosen(keys, default', Live, IF settled.chosen = NoValue THEN proc[p].cmd.name ELSE settled.chosen)
    PROVE  After(p)
<1> DEFINE name == proc[p].cmd.name
           dir == proc[p].cmd.dir
           T == settled.table
           c == IF settled.chosen = NoValue THEN name ELSE settled.chosen
<1>1. proc'[p].pc = "idle" /\ proc'[p].outcome # "error"
  BY DEF Become, Solo, Apart, TypeOK, Finished, Rest
<1>2. name \in Names /\ dir \in Dirs
  BY SoloTypes DEF Own, Going
<1>3. name \notin DOMAIN T
  BY DEF Solo, Run, Telling
<1>4. Held(keys, Live \ {k}, T)
  BY DEF KnownBut
<1>5. Held(keys, Live, With(T, name, dir))
  BY <1>2, <1>3, <1>4, HeldWith
<1>6. Held(keys', Live', With(T, name, dir)) /\ Chosen(keys', default', Live', c)
  BY <1>5 DEF Live
<1>7. settled'.table = With(T, name, dir) /\ settled'.chosen = c /\ Known' /\ Recorded'
  BY <1>1, <1>6, Ending
<1>8. Promised!StoreNext
  BY <1>2, <1>3, <1>7, Promising
<1> QED BY <1>1, <1>7, <1>8 DEF After, IsDone

\* The name of the default, or of the distribution that will be it.
LEMMA ReadDefaultNameRuns ==
    ASSUME NEW p \in Procs, Solo(p), ReadDefaultName(p)
    PROVE  After(p)
<1>1. /\ proc[p] \in Local /\ Run(proc[p]) /\ Own(proc[p]) /\ proc[p].pc = "defaultName"
      /\ keys' = keys /\ default' = default /\ proc[p].id = default /\ default # NoValue
      /\ proc[p].goal \in {"probe", "wasDefault"}
  <2>1. /\ proc[p].pc = "defaultName" /\ keys' = keys /\ default' = default
    BY DEF ReadDefaultName
  <2>2. proc[p] \in Local /\ Run(proc[p]) /\ Own(proc[p]) /\ Going(proc[p]) /\ Holding(proc[p])
    BY SoloTypes DEF Solo, Own
  <2>3. proc[p].id = default
    BY <2>1, <2>2 DEF Holding
  <2>4. proc[p].goal \in {"probe", "wasDefault"}
    BY <2>1, <2>2 DEF Going
  <2>5. default # NoValue
    <3>1. TypeOK
      BY SoloTypes
    <3> QED BY <2>1, <2>3, <3>1, NoValueAssumption DEF TypeOK, HoldsKey, Guids
  <2> QED BY <2>1, <2>2, <2>3, <2>4, <2>5
<1>2. CASE proc[p].goal = "probe"
  <2>1. PICK k \in Live : KnownBut(k) /\ keys[k].name = proc[p].cmd.name /\ keys[k].dir = proc[p].cmd.dir
    BY <1>1, <1>2 DEF Run, Telling
  <2>2. default \in Live \ {k} /\ settled.chosen = keys[default].name
    BY <1>1, <2>1 DEF KnownBut, Chosen
  <2>3. keys[default].name # NoValue
    BY <2>1, <2>2, NoValueAssumption DEF KnownBut, Held
  <2>4. Become(p, Finished(p))
    BY <1>1, <1>2, <2>3 DEF ReadDefaultName
  <2>5. Chosen(keys, default', Live, IF settled.chosen = NoValue THEN proc[p].cmd.name ELSE settled.chosen)
    BY <1>1, <2>2, <2>3 DEF Chosen
  <2> QED BY <1>1, <1>2, <2>1, <2>4, <2>5, RegisterDone
<1>3. CASE proc[p].goal = "wasDefault"
  <2> DEFINE was == keys[default].name = proc[p].cmd.name
             l == [Scan(p, "find") EXCEPT !.wasDefault = was]
  <2>1. Known
    BY <1>1, <1>3 DEF Run, Telling
  <2>2. default \in Live /\ keys[default].name # NoValue
    BY <1>1, <2>1, NoValueAssumption DEF Known, Held, Chosen
  <2>3. Become(p, l)
    BY <1>1, <1>3, <2>2 DEF ReadDefaultName
  <2>4. /\ l.pc = "enum" /\ l.goal = "find" /\ l.cmd = proc[p].cmd /\ l.wasDefault = was
        /\ l.outcome = proc[p].outcome
    BY <1>1 DEF Scan, Local
  <2> HIDE DEF l
  <2>5. Telling(l) /\ Seeking(l)
    BY <1>1, <2>1, <2>4 DEF Telling, Seeking
  <2>6. Run(l)
    BY <1>1, <2>4, <2>5 DEF Run
  <2> QED BY <1>1, <2>3, <2>4, <2>6, RunStays
<1> QED BY <1>1, <1>2, <1>3

\* Setting the default ends set_default_distro, and the other two when there is none.
LEMMA SetDefaultRuns ==
    ASSUME NEW p \in Procs, Solo(p), SetDefault(p)
    PROVE  After(p)
<1> DEFINE name == proc[p].cmd.name
           T == settled.table
           id == proc[p].id
<1>1. /\ proc[p] \in Local /\ Run(proc[p]) /\ Own(proc[p]) /\ proc[p].pc = "setDefault"
      /\ keys' = keys /\ default' = id /\ id \in Live /\ NamesUnique /\ name \in Names
      /\ proc[p].goal \in {"find", "adopt", "heir"} /\ Become(p, Finished(p)) /\ id # NoValue
  BY SoloTypes, NoValueAssumption DEF Solo, SetDefault, Own, Holding, Going, Live, Guids
<1>2. proc'[p].pc = "idle" /\ proc'[p].outcome # "error"
  BY <1>1 DEF Become, Solo, Apart, TypeOK, Finished, Rest
<1>3. CASE proc[p].goal = "find"
  <2>1. Known /\ keys[id].name = name
    BY <1>1, <1>3 DEF Run, Telling, Own, Holding
  <2>2. Held(keys, Live, T) /\ Chosen(keys, id, Live, name)
    BY <1>1, <2>1 DEF Known, Chosen
  <2>3. Held(keys', Live', T) /\ Chosen(keys', default', Live', name)
    BY <1>1, <2>2 DEF Live
  <2>4. settled'.table = T /\ settled'.chosen = name /\ Known' /\ Recorded'
    BY <1>2, <2>3, Ending
  <2>5. name \in DOMAIN T
    BY <1>1, <2>1, <2>2 DEF Held
  <2>6. Promised!StoreNext
    BY <1>1, <2>4, <2>5, Promising
  <2> QED BY <1>2, <2>4, <2>6 DEF After, IsDone
<1>4. CASE proc[p].goal = "adopt"
  <2>1. PICK k \in Live : KnownBut(k) /\ keys[k].name = name /\ keys[k].dir = proc[p].cmd.dir
    BY <1>1, <1>4 DEF Run, Telling
  <2>2. keys[id].name = name /\ default = NoValue
    BY <1>1, <1>4 DEF Run, Telling, Seeking
  <2>3. settled.chosen = NoValue
    BY <2>1, <2>2 DEF KnownBut, Chosen
  <2>4. Chosen(keys, default', Live, IF settled.chosen = NoValue THEN name ELSE settled.chosen)
    BY <1>1, <2>2, <2>3 DEF Chosen
  <2> QED BY <1>1, <1>4, <2>1, <2>4, RegisterDone
<1>5. CASE proc[p].goal = "heir"
  <2> DEFINE heir == keys[id].name
  <2>1. settled.chosen = name /\ name \in DOMAIN T /\ Held(keys, Live, Without(T, name))
    BY <1>1, <1>5 DEF Run, Telling
  <2>2. Held(keys', Live', Without(T, name)) /\ Chosen(keys', default', Live', heir)
    BY <1>1, <2>1 DEF Live, Chosen
  <2>3. settled'.table = Without(T, name) /\ settled'.chosen = heir /\ Known' /\ Recorded'
    BY <1>2, <2>2, Ending
  <2>4. heir \in DOMAIN T \ {name} /\ DOMAIN T # {name}
    BY <1>1, <2>1 DEF Held, Without
  <2>5. name # NoValue
    BY <1>1, NoValueAssumption
  <2>6. Promised!StoreNext
    BY <1>1, <2>1, <2>3, <2>4, <2>5, Promising
  <2> QED BY <1>2, <2>3, <2>6 DEF After, IsDone
<1> QED BY <1>1, <1>3, <1>4, <1>5

\* The last distribution takes the default with it.
LEMMA ClearDefaultRuns ==
    ASSUME NEW p \in Procs, Solo(p), ClearDefault(p)
    PROVE  After(p)
<1> DEFINE name == proc[p].cmd.name
           T == settled.table
<1>1. /\ proc[p] \in Local /\ Run(proc[p]) /\ Own(proc[p]) /\ proc[p].goal = "heir" /\ Live = {}
      /\ keys' = keys /\ default' = NoValue /\ name \in Names
  BY SoloTypes DEF Solo, ClearDefault, Own, Holding, Going
<1>2. settled.chosen = name /\ name \in DOMAIN T /\ Held(keys, Live, Without(T, name)) /\ default # NoValue
  BY <1>1 DEF Run, Telling
<1>3. proc'[p].pc = "idle" /\ proc'[p].outcome # "error"
  BY <1>2 DEF ClearDefault, Become, Solo, Apart, TypeOK, Finished, Rest
<1>4. Held(keys', Live', Without(T, name)) /\ Chosen(keys', default', Live', NoValue)
  BY <1>1, <1>2 DEF Live, Chosen
<1>5. settled'.table = Without(T, name) /\ settled'.chosen = NoValue /\ Known' /\ Recorded'
  BY <1>3, <1>4, Ending
<1>6. DOMAIN T = {name}
  BY <1>1, <1>2 DEF Held, Without
<1>7. name # NoValue
  BY <1>1, NoValueAssumption
<1>8. Promised!StoreNext
  BY <1>1, <1>2, <1>5, <1>6, <1>7, Promising
<1> QED BY <1>3, <1>5, <1>8 DEF After, IsDone

-----------------------------------------------------------------------------
(* Steps that write *)

\* A new key comes beside the known ones.
LEMMA CreateKeyRuns ==
    ASSUME NEW p \in Procs, Solo(p), CreateKey(p)
    PROVE  After(p)
<1>1. /\ proc[p] \in Local /\ TypeOK /\ Run(proc[p]) /\ Own(proc[p]) /\ proc[p].pc = "create"
      /\ default' = default /\ Live \subseteq Guids
  BY SoloTypes DEF Solo, CreateKey
<1>2. PICK k \in Guids :
        /\ keys[k].status = "unborn"
        /\ keys' = [keys EXCEPT ![k] = Blank("live")]
        /\ Become(p, [proc[p] EXCEPT !.pc = "setName", !.goal = "fill", !.id = k])
  BY DEF CreateKey
<1>3. keys'[k].status = "live" /\ \A j \in Guids \ {k} : keys'[j] = keys[j]
  BY <1>1, <1>2 DEF TypeOK, Blank
<1>4. Live' = Live \cup {k} /\ Live' \ {k} = Live
  BY <1>2, <1>3 DEF Live
<1> DEFINE l == [proc[p] EXCEPT !.pc = "setName", !.goal = "fill", !.id = k]
<1>5. l.pc = "setName" /\ l.goal = "fill" /\ l.id = k /\ l.cmd = proc[p].cmd /\ l.outcome = proc[p].outcome
  BY <1>1 DEF Local
<1>6. proc'[p] = l
  BY <1>1, <1>2 DEF Become, TypeOK
<1> HIDE DEF l
<1>7. settled' = settled
  BY <1>5, <1>6, Ongoing
<1>8. Known /\ proc[p].goal = "check"
  BY <1>1 DEF Run, Telling, Own, Going
<1>9. proc[p].cmd.name \notin DOMAIN settled.table
  BY <1>1, <1>8 DEF Own, Checking, Known, Held
<1>10. Held(keys', Live, settled.table) /\ Chosen(keys', default, Live, settled.chosen)
  <2>1. \A j \in Live : keys'[j].name = keys[j].name /\ keys'[j].dir = keys[j].dir
    BY <1>1, <1>3, <1>2 DEF Live
  <2> QED BY <1>8, <2>1, HeldSame DEF Known
<1>11. KnownBut(k)'
  BY <1>1, <1>4, <1>7, <1>10 DEF KnownBut
<1>12. Telling(proc[p])'
  BY <1>5, <1>6, <1>7, <1>9, <1>11 DEF Telling
<1>13. Seeking(proc[p])'
  BY <1>5, <1>6 DEF Seeking
<1>14. Run(proc[p])' /\ proc'[p].pc # "idle"
  BY <1>1, <1>5, <1>6, <1>12, <1>13 DEF Run
<1> QED BY <1>7, <1>14 DEF After, GoesOn

\* What a write under the own key leaves alone: what is known of the others.
LEMMA KnownStays ==
    ASSUME NEW p \in Procs, Solo(p), NEW k \in Live, KnownBut(k), Live' = Live, default' = default,
           settled' = settled, \A j \in Guids \ {k} : keys'[j] = keys[j]
    PROVE  KnownBut(k)'
<1>1. \A j \in Live \ {k} : keys'[j].name = keys[j].name /\ keys'[j].dir = keys[j].dir
  BY DEF Live
<1>2. Held(keys', Live \ {k}, settled.table) /\ Chosen(keys', default, Live \ {k}, settled.chosen)
  BY <1>1, HeldSame DEF KnownBut
<1> QED BY <1>2 DEF KnownBut

\* The values of the new key are written one after the other.
LEMMA FillRuns ==
    ASSUME NEW p \in Procs, Solo(p), SetName(p) \/ SetDir(p) \/ SetState(p) \/ SetVersion(p)
    PROVE  After(p)
<1>0. PICK id, cmd : id = proc[p].id /\ cmd = proc[p].cmd
  OBVIOUS
<1>1. /\ proc[p] \in Local /\ TypeOK /\ Run(proc[p]) /\ Own(proc[p]) /\ proc[p].goal = "fill"
      /\ id \in Live /\ id \in Guids /\ Apart
      /\ proc[p].pc \in {"setName", "setDir", "setState", "setVersion"}
  BY <1>0, SoloTypes DEF Solo, SetName, SetDir, SetState, SetVersion, Own, Going, Filling, Live
<1>2. KnownBut(id) /\ cmd.name \notin DOMAIN settled.table
  BY <1>0, <1>1 DEF Run, Telling
<1>3. /\ keys[id] \in Key /\ Here(p) \in Key /\ Here(p).status = "live" /\ Here(p).name = keys[id].name
      /\ Here(p).dir = keys[id].dir
  BY <1>0, <1>1 DEF TypeOK, Here, Key
<1>4. ASSUME NEW v, NEW l, Write(p, v, l), v.status = "live", l.pc # "idle", l.cmd = cmd,
             l.outcome = proc[p].outcome, l.pc \notin {"names", "setDefault"},
             \/ l.goal = "fill" /\ l.id = id
             \/ l.goal = "probe" /\ v.name = cmd.name /\ v.dir = cmd.dir
      PROVE  After(p)
  <2>1. /\ proc'[p] = l /\ keys'[id] = v /\ Live' = Live /\ default' = default
        /\ \A j \in Guids \ {id} : keys'[j] = keys[j]
    BY <1>0, <1>1, <1>4, WriteFine
  <2>2. settled' = settled
    BY <1>4, <2>1, Ongoing
  <2>3. KnownBut(id)'
    BY <1>1, <1>2, <2>1, <2>2, KnownStays
  <2>4. Telling(proc[p])'
    <3>1. CASE l.goal = "fill" /\ l.id = id
      BY <1>2, <1>4, <2>1, <2>2, <2>3, <3>1 DEF Telling, KnownBut
    <3>2. CASE l.goal = "probe" /\ v.name = cmd.name /\ v.dir = cmd.dir
      BY <1>1, <1>2, <1>4, <2>1, <2>2, <2>3, <3>2 DEF Telling, KnownBut
    <3> QED BY <1>4, <3>1, <3>2
  <2>5. Seeking(proc[p])'
    BY <1>4, <2>1 DEF Seeking
  <2>6. Run(proc[p])'
    BY <1>0, <1>1, <1>4, <2>1, <2>4, <2>5 DEF Run
  <2> QED BY <1>4, <2>1, <2>2, <2>6 DEF After, GoesOn
<1>5. ASSUME NEW pc \in {"setDir", "setState", "setVersion"}
      PROVE  LET l == Goto(p, pc)
             IN  l.pc = pc /\ l.cmd = cmd /\ l.outcome = proc[p].outcome /\ l.goal = "fill" /\ l.id = id
  BY <1>0, <1>1 DEF Goto, Local
<1>6. CASE SetName(p)
  <2>1. [Here(p) EXCEPT !.name = cmd.name].status = "live"
    BY <1>3 DEF Key
  <2> QED BY <1>0, <1>4, <1>5, <1>6, <2>1 DEF SetName
<1>7. CASE SetDir(p)
  <2>1. [Here(p) EXCEPT !.dir = cmd.dir].status = "live"
    BY <1>3 DEF Key
  <2> QED BY <1>0, <1>4, <1>5, <1>7, <2>1 DEF SetDir
<1>8. CASE SetState(p)
  <2>1. [Here(p) EXCEPT !.state = TRUE].status = "live"
    BY <1>3 DEF Key
  <2> QED BY <1>0, <1>4, <1>5, <1>8, <2>1 DEF SetState
<1>9. CASE SetVersion(p)
  <2> DEFINE v == [Here(p) EXCEPT !.version = TRUE]
             l == [Goto(p, "default") EXCEPT !.goal = "probe", !.id = NoValue]
  <2>1. keys[id].name = cmd.name /\ keys[id].dir = cmd.dir
    BY <1>0, <1>1, <1>9 DEF SetVersion, Own, Filling
  <2>2. v.status = "live" /\ v.name = cmd.name /\ v.dir = cmd.dir
    BY <1>3, <2>1 DEF Key
  <2>3. l.pc = "default" /\ l.cmd = cmd /\ l.outcome = proc[p].outcome /\ l.goal = "probe"
    BY <1>0, <1>1 DEF Goto, Local
  <2>4. Write(p, v, l)
    BY <1>0, <1>9 DEF SetVersion
  <2> QED BY <1>4, <2>2, <2>3, <2>4
<1> QED BY <1>6, <1>7, <1>8, <1>9

\* Another directory for the key with the name.
LEMMA WriteDirRuns ==
    ASSUME NEW p \in Procs, Solo(p), WriteDir(p)
    PROVE  After(p)
<1> DEFINE id == proc[p].id
           cmd == proc[p].cmd
           T == settled.table
           v == [Here(p) EXCEPT !.dir = cmd.dir]
<1>1. /\ proc[p] \in Local /\ TypeOK /\ Run(proc[p]) /\ Own(proc[p]) /\ proc[p].goal = "find"
      /\ id \in Live /\ Live \subseteq Guids /\ Apart /\ NamesUnique /\ cmd.name \in Names /\ cmd.dir \in Dirs
      /\ keys[id].name = cmd.name
  BY SoloTypes DEF Solo, WriteDir, Own, Going, Holding
<1>2. Known
  BY <1>1 DEF Run, Telling
<1>3. v.status = "live" /\ v.name = cmd.name /\ v.dir = cmd.dir
  BY <1>1 DEF TypeOK, Here, Key
<1>4. Write(p, v, Finished(p))
  BY DEF WriteDir
<1> HIDE DEF v
<1>5. /\ proc'[p] = Finished(p) /\ keys'[id] = v /\ Live' = Live /\ default' = default
      /\ \A j \in Guids \ {id} : keys'[j] = keys[j]
  BY <1>1, <1>3, <1>4, WriteFine
<1>6. proc'[p].pc = "idle" /\ proc'[p].outcome # "error"
  BY <1>5 DEF Finished, Rest
<1>7. \A j \in Live : keys[j].name = keys[id].name => j = id
  BY <1>1, NoValueAssumption DEF NamesUnique
<1>8. \A j \in Live : keys'[j].name = keys[j].name /\ keys'[j].dir = IF j = id THEN cmd.dir ELSE keys[j].dir
  BY <1>1, <1>3, <1>5
<1>9. Held(keys', Live', [T EXCEPT ![cmd.name] = cmd.dir])
  <2>1. Held(keys, Live, T)
    BY <1>2 DEF Known
  <2>2. Held(keys', Live, [T EXCEPT ![keys[id].name] = cmd.dir])
    BY <1>1, <1>7, <1>8, <2>1, HeldMoved
  <2> QED BY <1>1, <1>5, <2>2
<1>10. Chosen(keys', default', Live', settled.chosen)
  BY <1>2, <1>5, <1>8 DEF Known, Chosen
<1>11. settled'.table = [T EXCEPT ![cmd.name] = cmd.dir] /\ settled'.chosen = settled.chosen /\ Known' /\ Recorded'
  BY <1>6, <1>9, <1>10, Ending
<1>12. cmd.name \in DOMAIN T
  BY <1>1, <1>2 DEF Known, Held
<1>13. Promised!StoreNext
  BY <1>1, <1>11, <1>12, Promising
<1> QED BY <1>6, <1>11, <1>13 DEF After, IsDone

\* The key with the name goes, and if it was the default, an heir is looked for.
LEMMA DeleteTreeRuns ==
    ASSUME NEW p \in Procs, Solo(p), DeleteTree(p)
    PROVE  After(p)
<1> DEFINE id == proc[p].id
           cmd == proc[p].cmd
           T == settled.table
<1>1. /\ proc[p] \in Local /\ TypeOK /\ Run(proc[p]) /\ Own(proc[p]) /\ proc[p].goal = "find"
      /\ id \in Live /\ Live \subseteq Guids /\ NamesUnique /\ cmd.name \in Names
      /\ keys[id].name = cmd.name /\ cmd.op = "unregister" /\ proc[p].pc = "delete"
  BY SoloTypes DEF Solo, DeleteTree, Own, Going, Holding
<1>2. Known /\ default \in Live /\ (proc[p].wasDefault <=> keys[default].name = cmd.name)
  BY <1>1 DEF Run, Telling, Seeking, Own, Caring
<1>3. /\ keys'[id] = Blank("dead") /\ \A j \in Guids \ {id} : keys'[j] = keys[j]
      /\ default' = default /\ keys[id].status = "live"
  BY <1>1 DEF DeleteTree, TypeOK, Live
<1>4. Live' = Live \ {id}
  BY <1>3 DEF Live, Blank
<1>5. \A j \in Live : keys[j].name = keys[id].name => j = id
  BY <1>1, NoValueAssumption DEF NamesUnique
<1>6. Held(keys', Live', Without(T, cmd.name))
  <2>1. Held(keys, Live, T)
    BY <1>2 DEF Known
  <2>2. Held(keys, Live \ {id}, Without(T, keys[id].name))
    BY <1>1, <1>5, <2>1, HeldWithout
  <2>3. \A j \in Live \ {id} : keys'[j].name = keys[j].name /\ keys'[j].dir = keys[j].dir
    BY <1>1, <1>3
  <2>4. Held(keys', Live \ {id}, Without(T, keys[id].name))
    BY <2>2, <2>3, HeldSame
  <2> QED BY <1>1, <1>4, <2>4
<1>7. cmd.name \in DOMAIN T /\ settled.chosen = keys[default].name /\ default # NoValue /\ settled.chosen # NoValue
  BY <1>1, <1>2, NoValueAssumption DEF Known, Held, Chosen, Guids
<1>8. CASE ~proc[p].wasDefault
  <2>1. proc'[p] = Finished(p)
    BY <1>1, <1>3, <1>8 DEF DeleteTree, Become, TypeOK
  <2>2. proc'[p].pc = "idle" /\ proc'[p].outcome # "error"
    BY <2>1 DEF Finished, Rest
  <2>3. settled.chosen # cmd.name /\ default # id
    BY <1>1, <1>2, <1>7, <1>8
  <2>4. Chosen(keys', default', Live', settled.chosen)
    BY <1>1, <1>2, <1>3, <1>4, <1>7, <2>3 DEF Chosen
  <2>5. settled'.table = Without(T, cmd.name) /\ settled'.chosen = settled.chosen /\ Known' /\ Recorded'
    BY <1>6, <2>2, <2>4, Ending
  <2>6. Promised!StoreNext
    BY <1>1, <1>7, <2>3, <2>5, Promising
  <2> QED BY <2>2, <2>5, <2>6 DEF After, IsDone
<1>9. CASE proc[p].wasDefault
  <2> DEFINE l == Scan(p, "heir")
  <2>1. proc'[p] = l
    BY <1>1, <1>3, <1>9 DEF DeleteTree, Become, TypeOK
  <2>2. l.pc = "enum" /\ l.goal = "heir" /\ l.cmd = cmd /\ l.outcome = proc[p].outcome
    BY <1>1 DEF Scan, Local
  <2> HIDE DEF l
  <2>3. settled' = settled
    BY <2>1, <2>2, Ongoing
  <2>4. Telling(proc[p])'
    BY <1>2, <1>3, <1>6, <1>7, <1>9, <2>1, <2>2, <2>3 DEF Telling
  <2>5. Seeking(proc[p])'
    BY <2>1, <2>2 DEF Seeking
  <2>6. Run(proc[p])'
    BY <1>1, <2>1, <2>2, <2>4, <2>5 DEF Run
  <2> QED BY <2>1, <2>2, <2>3, <2>6 DEF After, GoesOn
<1> QED BY <1>8, <1>9

-----------------------------------------------------------------------------
(* All steps together *)

\* Every step of a command, when no call fails, goes on, is its promise, or is a refusal.
LEMMA StepRuns ==
    ASSUME NEW p \in Procs, Solo(p), Step(p)
    PROVE  After(p)
BY EnumKeyRuns, EnumDoneRuns, ReadNameRuns, NamesDoneRuns, ReadDefaultRuns, ReadDefaultNameRuns,
   SetDefaultRuns, ClearDefaultRuns, CreateKeyRuns, FillRuns, WriteDirRuns, DeleteTreeRuns DEF Step

\* A new command finds the registry as the last one left it.
LEMMA IssueRuns ==
    ASSUME Settled, NEW p \in Procs, Issue(p), OneAtATime', SettledNext
    PROVE  /\ Run(proc[p])' /\ proc'[p].pc # "idle" /\ settled' = settled
           /\ \A q \in Procs \ {p} : proc'[q] = proc[q] /\ proc[q].pc = "idle"
<1>1. PICK cmd \in Commands : Become(p,
        [Rest(cmd, "none") EXCEPT
            !.pc   = IF cmd.op = "unregister" THEN "default" ELSE "enum",
            !.goal = CASE cmd.op = "register"   -> "check"
                       [] cmd.op = "unregister" -> "wasDefault"
                       [] OTHER                 -> "find"])
  BY DEF Issue
<1> DEFINE goal == CASE cmd.op = "register"   -> "check"
                     [] cmd.op = "unregister" -> "wasDefault"
                     [] OTHER                 -> "find"
           pc == IF cmd.op = "unregister" THEN "default" ELSE "enum"
           l == [Rest(cmd, "none") EXCEPT !.pc = pc, !.goal = goal]
<1>2. goal \in {"check", "wasDefault", "find"} /\ pc \in {"default", "enum"}
  OBVIOUS
<1>3. /\ keys' = keys /\ default' = default /\ Become(p, l) /\ Live' = Live /\ TypeOK /\ proc[p].pc = "idle"
  BY <1>1 DEF Issue, Live, Apart, Settled
<1> HIDE DEF goal, pc
<1>4. /\ l.pc = pc /\ l.goal = goal /\ l.cmd = cmd /\ l.taken = FALSE /\ l.wasDefault = FALSE
      /\ l.outcome = "none"
  BY DEF Rest
<1> HIDE DEF l
<1>5. proc'[p] = l /\ \A q \in Procs \ {p} : proc'[q] = proc[q]
  BY <1>3 DEF Become, TypeOK
<1>6. \A q \in Procs \ {p} : proc[q].pc = "idle"
  BY <1>2, <1>4, <1>5 DEF OneAtATime
<1>7. AllIdle /\ ~AllIdle'
  BY <1>2, <1>3, <1>4, <1>5, <1>6 DEF AllIdle
<1>8. settled' = settled
  BY <1>7 DEF SettledNext
<1>9. Known'
  BY <1>3, <1>7, <1>8 DEF Settled, Known
<1>10. Telling(proc[p])'
  BY <1>2, <1>4, <1>5, <1>9 DEF Telling
<1>11. Seeking(proc[p])'
  BY <1>2, <1>4, <1>5 DEF Seeking
<1> QED BY <1>2, <1>4, <1>5, <1>6, <1>8, <1>10, <1>11 DEF Run

\* What a step of the system is, when commands do not overlap and no call fails: a new
\* command, a step of the only one there is, or nothing.
LEMMA SettledSteps ==
    ASSUME Settled, OneAtATime, OneAtATime', MaxMishaps = 0, [SettledNext]_allVars
    PROVE  \/ UNCHANGED allVars
           \/ \E p \in Procs : /\ Issue(p) /\ SettledNext
                               /\ Run(proc[p])' /\ proc'[p].pc # "idle" /\ settled' = settled
                               /\ \A q \in Procs \ {p} : proc'[q] = proc[q] /\ proc[q].pc = "idle"
           \/ \E p \in Procs : Solo(p) /\ After(p)
<1>1. CASE UNCHANGED allVars
  BY <1>1
<1>2. CASE SettledNext /\ Quiet
  <2>1. UNCHANGED vars /\ AllIdle /\ AllIdle'
    BY <1>2 DEF Quiet, vars, AllIdle
  <2>2. Known /\ Recorded
    BY <2>1 DEF Settled
  <2>3. Held(keys, LiveOf(keys), settled.table) /\ Chosen(keys, default, LiveOf(keys), settled.chosen)
    BY <2>2 DEF Known, Live, LiveOf
  <2>4. Reading(keys, default) = settled
    BY <2>2, <2>3, ReadingHeld DEF Recorded
  <2>5. settled' = Reading(keys', default')
    BY <1>2, <2>1 DEF SettledNext
  <2>6. settled' = Reading(keys, default)
    BY <2>1, <2>5 DEF vars
  <2> QED BY <2>1, <2>4, <2>6 DEF allVars
<1>3. ASSUME NEW p \in Procs, Issue(p), SettledNext
      PROVE  /\ Run(proc[p])' /\ proc'[p].pc # "idle" /\ settled' = settled
             /\ \A q \in Procs \ {p} : proc'[q] = proc[q] /\ proc[q].pc = "idle"
  BY <1>3, IssueRuns
<1>4. ASSUME NEW p \in Procs, Step(p), SettledNext PROVE Solo(p) /\ After(p)
  <2>1. proc[p].pc # "idle" /\ \E l : Become(p, l)
    BY <1>4 DEF Step, EnumKey, EnumDone, ReadName, NamesDone, ReadDefault, ReadDefaultName, CreateKey, DeleteTree,
           SetName, SetDir, SetState, SetVersion, WriteDir, SetDefault, ClearDefault, Write
  <2>2. \A q \in Procs \ {p} : proc[q].pc = "idle" /\ proc'[q] = proc[q]
    BY <2>1 DEF OneAtATime, Become, Settled, Apart, TypeOK
  <2>3. Solo(p)
    BY <1>4, <2>1, <2>2 DEF Solo, Settled
  <2> QED BY <1>4, <2>3, StepRuns
<1>5. ASSUME NEW p \in Procs PROVE ~Fault(p) /\ ~Crash(p)
  BY DEF Fault, Crash, Settled, Apart, TypeOK
<1> QED BY <1>1, <1>2, <1>3, <1>4, <1>5 DEF SettledNext, Next

\* At the beginning the record is what the registry holds.
LEMMA SettledStart == SettledInit => Settled /\ Promised!StoreInit
<1> SUFFICES ASSUME SettledInit PROVE Settled /\ Promised!StoreInit
  OBVIOUS
<1>1. Init /\ settled = Reading(keys, default) /\ Apart
  BY ApartInit DEF SettledInit
<1>2. \A k \in LiveOf(keys) : keys[k].name \in Names /\ keys[k].dir \in Dirs
  <2>1. ASSUME NEW k \in LiveOf(keys) PROVE keys[k].name \in Names /\ keys[k].dir \in Dirs
    <3>1. k \in Guids /\ keys[k] # Blank("unborn")
      BY DEF LiveOf, Blank
    <3>2. keys[k] \in [status : {"live"}, name : Names, dir : Dirs, state : {TRUE}, version : {TRUE}]
      BY <1>1, <3>1 DEF Init
    <3> QED BY <3>2
  <2> QED BY <2>1
<1>3. LiveOf(keys) = Live
  BY DEF LiveOf, Live
<1>4. Held(keys, Live, settled.table) /\ Chosen(keys, default, Live, settled.chosen)
  BY <1>1, <1>2, <1>3, HeldReading DEF Init
<1>5. Known
  BY <1>4 DEF Known
<1>6. Recorded
  BY <1>1 DEF Recorded, Reading
<1>7. \A p \in Procs : proc[p].pc = "idle"
  BY <1>1 DEF Init, Rest
<1>8. Settled
  BY <1>1, <1>5, <1>6, <1>7 DEF Settled
<1>9. Promised!StoreInit
  <2>1. DOMAIN settled.table \in SUBSET Names /\ settled.table \in [DOMAIN settled.table -> Dirs]
    BY <1>4 DEF Held
  <2>2. settled.chosen \in DOMAIN settled.table \cup {NoValue}
    BY <1>4 DEF Held, Chosen
  <2> QED BY <2>1, <2>2 DEF Promised!StoreInit
<1> QED BY <1>8, <1>9

\* Every step keeps the invariant, and is a step of the promised store or none of it.
LEMMA SettledStep ==
    Settled /\ OneAtATime /\ OneAtATime' /\ MaxMishaps = 0 /\ [SettledNext]_allVars
        => Settled' /\ [Promised!StoreNext]_<<settled.table, settled.chosen>>
<1> SUFFICES ASSUME Settled, OneAtATime, OneAtATime', MaxMishaps = 0, [SettledNext]_allVars
             PROVE  Settled' /\ [Promised!StoreNext]_<<settled.table, settled.chosen>>
  OBVIOUS
<1>1. Apart'
  BY ApartStep DEF Settled, SettledNext, allVars
<1>2. CASE UNCHANGED allVars
  <2>1. keys' = keys /\ default' = default /\ proc' = proc /\ settled' = settled /\ Live' = Live
    BY <1>2 DEF allVars, vars, Live
  <2>2. (AllIdle => Known)'
    BY <2>1 DEF Settled, AllIdle, Known
  <2>3. Recorded'
    BY <2>1 DEF Settled, Recorded
  <2>4. ASSUME NEW p \in Procs, proc'[p].pc # "idle" PROVE Run(proc[p])'
    <3>1. Run(proc[p]) /\ proc'[p] = proc[p]
      BY <2>1, <2>4 DEF Settled
    <3>2. Telling(proc[p])'
      BY <2>1, <3>1 DEF Run, Telling, Known, KnownBut
    <3>3. Seeking(proc[p])'
      BY <2>1, <3>1 DEF Run, Seeking, Listed
    <3> QED BY <3>1, <3>2, <3>3 DEF Run
  <2> QED BY <1>1, <2>1, <2>2, <2>3, <2>4 DEF Settled
<1>3. ASSUME NEW p \in Procs, Run(proc[p])', proc'[p].pc # "idle", settled' = settled,
             \A q \in Procs \ {p} : proc'[q] = proc[q] /\ proc[q].pc = "idle"
      PROVE  Settled' /\ [Promised!StoreNext]_<<settled.table, settled.chosen>>
  <2>1. ~AllIdle'
    BY <1>3 DEF AllIdle
  <2>2. Recorded'
    BY <1>3 DEF Settled, Recorded
  <2>3. \A q \in Procs : proc'[q].pc # "idle" => q = p
    BY <1>3
  <2>4. Settled'
    BY <1>1, <1>3, <2>1, <2>2, <2>3 DEF Settled
  <2> QED BY <1>3, <2>4
<1>4. ASSUME NEW p \in Procs, Solo(p), proc'[p].pc = "idle", Known', Recorded'
      PROVE  Settled'
  <2>1. \A q \in Procs : proc'[q].pc = "idle"
    BY <1>4 DEF Solo
  <2> QED BY <1>1, <1>4, <2>1 DEF Settled
<1>5. ASSUME NEW p \in Procs, Solo(p), After(p)
      PROVE  Settled' /\ [Promised!StoreNext]_<<settled.table, settled.chosen>>
  <2>1. CASE GoesOn(p)
    BY <1>3, <1>5, <2>1 DEF GoesOn, Solo
  <2>2. CASE IsDone(p)
    BY <1>4, <1>5, <2>2 DEF IsDone
  <2>3. CASE IsRefused(p)
    <3>1. Recorded'
      BY <1>5, <2>3 DEF IsRefused, Solo, Recorded
    <3> QED BY <1>4, <1>5, <2>3, <3>1 DEF IsRefused
  <2> QED BY <1>5, <2>1, <2>2, <2>3 DEF After
<1> QED BY <1>2, <1>3, <1>5, SettledSteps

\* A step that refuses a command.
Refuses == \A p \in Procs : proc[p].pc # "idle" /\ proc'[p].outcome = "error" =>
    LET cmd == proc[p].cmd
    IN  /\ settled' = settled
        /\ CASE cmd.op = "register"   -> cmd.name \in DOMAIN settled.table
             [] cmd.op = "unregister" -> settled.chosen = NoValue \/ cmd.name \notin DOMAIN settled.table
             [] OTHER                 -> cmd.name \notin DOMAIN settled.table

\* Every refusal has its cause and leaves no trace.
LEMMA RefusedStep ==
    Settled /\ OneAtATime /\ OneAtATime' /\ MaxMishaps = 0 /\ [SettledNext]_allVars => [Refuses]_allVars
<1> SUFFICES ASSUME Settled, OneAtATime, OneAtATime', MaxMishaps = 0, [SettledNext]_allVars,
                    NEW p \in Procs, proc[p].pc # "idle", proc'[p].outcome = "error"
             PROVE  settled' = settled /\ Cause(proc[p].cmd)
  BY DEF Refuses, Cause
<1>1. proc[p].outcome = "none"
  BY DEF Settled, Run
<1>2. PICK q \in Procs : Solo(q) /\ After(q)
  <2>1. ~UNCHANGED allVars
    BY <1>1 DEF allVars, vars
  <2>2. ~\E q \in Procs : Issue(q) /\ \A r \in Procs \ {q} : proc'[r] = proc[r] /\ proc[r].pc = "idle"
    BY DEF Issue
  <2> QED BY <2>1, <2>2, SettledSteps
<1>3. q = p
  BY <1>1, <1>2 DEF Solo
<1>4. ~GoesOn(p) /\ ~IsDone(p)
  BY DEF GoesOn, IsDone, Run
<1> QED BY <1>2, <1>3, <1>4 DEF After, IsRefused

\* The commands of reg.cpp implement the abstract store: however many registry calls one
\* takes, it is all of its promise or nothing, as long as commands do not overlap and no
\* call fails.
THEOREM CommandsLookAtomic ==
    MaxMishaps = 0 /\ SettledSpec /\ []OneAtATime => ImplementsStore
<1> SUFFICES ASSUME MaxMishaps = 0 PROVE SettledSpec /\ []OneAtATime => ImplementsStore
  OBVIOUS
<1>1. Settled /\ OneAtATime /\ OneAtATime' /\ [SettledNext]_allVars
        => Settled' /\ [Promised!StoreNext]_<<settled.table, settled.chosen>>
  BY SettledStep
<1>2. SettledSpec /\ []OneAtATime
        => Promised!StoreInit /\ [][Promised!StoreNext]_<<settled.table, settled.chosen>>
  BY <1>1, SettledStart, PTL DEF SettledSpec
<1> QED BY <1>2 DEF ImplementsStore, Promised!StoreSpec, Promised!store

\* And a command that is refused is refused for the promised reason, without a trace.
THEOREM RefusalsHaveCauses ==
    MaxMishaps = 0 /\ SettledSpec /\ []OneAtATime => RefusedForCause
<1> SUFFICES ASSUME MaxMishaps = 0 PROVE SettledSpec /\ []OneAtATime => RefusedForCause
  OBVIOUS
<1>1. Settled /\ OneAtATime /\ OneAtATime' /\ [SettledNext]_allVars => Settled' /\ [Refuses]_allVars
  BY SettledStep, RefusedStep
<1>2. SettledSpec /\ []OneAtATime => [][Refuses]_allVars
  BY <1>1, SettledStart, PTL DEF SettledSpec
<1> QED BY <1>2 DEF RefusedForCause, Refuses
=============================================================================
