--------------------------- MODULE CommandsProofs ---------------------------
(***************************************************************************)
(* Proofs about Commands, for any number of processes, directories and     *)
(* files, failing calls and killed processes.                              *)
(***************************************************************************)
EXTENDS Commands, TLAPS

Pcs == {"idle", "detect", "load", "register", "configure", "prepare", "checkPath", "extract", "copy",
        "delete", "checkRunning", "readDir", "rename", "relocate", "unregister"}
Outcomes == {"none", "ok", "error", "rejected", "killed"}
Local == [pc : Pcs, cmd : Commands \cup {NoCommand}, src : Dirs \cup {NoValue}, seen : SUBSET Parts,
          outcome : Outcomes, home : Dirs \cup {NoValue}, before : Contents]

(* Which commands come to which stage, and where they know a source directory. *)
Going(l) ==
    /\ l.pc # "idle" => l.cmd \in Commands
    /\ l.pc = "detect" => l.cmd.op = "register"
    /\ l.pc = "load" => l.cmd.op = "duplicate"
    /\ l.pc \in {"checkRunning", "readDir"} => l.cmd.op \in {"move", "uninstall"}
    /\ l.pc \in {"register", "configure"} => l.cmd.op \in {"install", "register", "duplicate"}
    /\ l.pc = "prepare" => l.cmd.op \in {"install", "move", "duplicate"}
    /\ l.pc \in {"checkPath", "copy"} => l.cmd.op \in {"move", "duplicate"}
    /\ l.pc \in {"rename", "relocate"} => l.cmd.op = "move"
    /\ l.pc = "delete" => l.cmd.op \in {"move", "uninstall"}
    /\ l.pc \in {"rename", "copy", "delete"} => l.src \in Dirs
    /\ l.pc \in {"prepare", "checkPath"} /\ l.cmd.op = "move" => l.src \in Dirs
    /\ l.pc = "unregister" => l.cmd.op \in {"unregister", "uninstall"}
    /\ l.pc = "unregister" /\ l.cmd.op = "uninstall" => l.src \in Dirs

LocalOK(l) == l \in Local /\ Going(l)
ProcsOK == proc \in [Procs -> Local] /\ \A p \in Procs : Going(proc[p])
DiskOK == disk \in [Dirs -> Contents \cup {NoDir}]
StoreOK ==
    /\ DOMAIN table \subseteq Names /\ table \in [DOMAIN table -> Dirs]
    /\ chosen \in DOMAIN table \cup {NoValue} /\ configured \subseteq DOMAIN table
Types == ProcsOK /\ DiskOK /\ StoreOK /\ running \subseteq Dirs

-----------------------------------------------------------------------------
(* Types *)

\* The strengthening says what TypeOK says.
LEMMA TypesOK == Types => TypeOK
<1> SUFFICES ASSUME Types PROVE TypeOK
  OBVIOUS
<1>1. \A p \in Procs : /\ proc[p].src \in Dirs \cup {NoValue} /\ proc[p].seen \subseteq Parts
                       /\ proc[p].cmd \in Commands \cup {NoCommand}
  BY DEF Types, ProcsOK, Local
<1>2. \A d \in Dirs : disk[d] = NoDir \/ disk[d] \in Contents
  BY DEF Types, DiskOK
<1> QED BY <1>1, <1>2 DEF Types, StoreOK, TypeOK

\* Files and directories that are there, and that are not.
LEMMA DirKinds ==
  /\ Empty \in Contents /\ NoDir \notin Contents
  /\ \A c \in Contents : DOMAIN c = Parts
<1>1. Empty \in Contents
  BY DEF Empty, Contents
<1>2. \A c \in Contents : DOMAIN c = Parts
  BY DEF Contents
<1>3. DOMAIN NoDir = {} /\ InitFile \in Parts
  BY InstalledAssumption DEF NoDir
<1> QED BY <1>1, <1>2, <1>3

\* A step that replaces the state of one process by a well-typed one keeps the rest.
LEMMA BecomeType ==
  ASSUME ProcsOK, NEW p \in Procs, NEW l, LocalOK(l), Become(p, l)
  PROVE  ProcsOK'
BY DEF ProcsOK, LocalOK, Become

\* A process that has ended its command, in whatever way, is well-typed.
LEMMA EndType ==
  ASSUME ProcsOK, NEW p \in Procs, NEW outcome \in Outcomes, End(p, outcome)
  PROVE  ProcsOK'
<1> DEFINE l == Rest(Cmd(p), outcome, proc[p].home, proc[p].before)
<1>1. /\ proc[p].cmd \in Commands \cup {NoCommand} /\ proc[p].before \in Contents
      /\ proc[p].home \in Dirs \cup {NoValue}
  BY DEF ProcsOK, Local
<1>2. l \in Local /\ l.pc = "idle"
  BY <1>1 DEF Rest, Cmd, Local, Pcs
<1>3. LocalOK(l)
  BY <1>2 DEF LocalOK, Going
<1> QED BY <1>3, BecomeType DEF End

\* So is one that goes to a stage of its command.
LEMMA GotoType ==
  ASSUME ProcsOK, NEW p \in Procs, NEW pc \in Pcs, Goto(p, pc),
         Going([proc[p] EXCEPT !.pc = pc, !.seen = {}])
  PROVE  ProcsOK'
<1>1. [proc[p] EXCEPT !.pc = pc, !.seen = {}] \in Local
  BY DEF ProcsOK, Local
<1> QED BY <1>1, BecomeType DEF Goto, LocalOK

\* And one that has done another file.
LEMMA SeenType ==
  ASSUME ProcsOK, NEW p \in Procs, NEW f \in Parts,
         Become(p, [proc[p] EXCEPT !.seen = @ \cup {f}])
  PROVE  ProcsOK'
<1> DEFINE l == [proc[p] EXCEPT !.seen = @ \cup {f}]
<1>1. l \in Local /\ proc[p] \in Local /\ Going(proc[p])
  BY DEF ProcsOK, Local
<1>2. l.pc = proc[p].pc /\ l.cmd = proc[p].cmd /\ l.src = proc[p].src
  BY DEF ProcsOK, Local
<1>3. LocalOK(l)
  BY <1>1, <1>2 DEF LocalOK, Going
<1> QED BY <1>3, BecomeType

\* The initial states are well-typed.
LEMMA TypesInit == Init => Types
<1> SUFFICES ASSUME Init PROVE Types
  OBVIOUS
<1>1. ProcsOK
  <2>1. NoCommand \in Commands \cup {NoCommand} /\ Empty \in Contents
    BY DirKinds
  <2>2. Rest(NoCommand, "none", NoValue, Empty) \in Local
    BY <2>1 DEF Rest, Local, Pcs, Outcomes
  <2>3. Rest(NoCommand, "none", NoValue, Empty).pc = "idle"
    BY DEF Rest
  <2>4. Going(Rest(NoCommand, "none", NoValue, Empty))
    BY <2>3 DEF Going
  <2> HIDE DEF Local
  <2> QED BY <2>2, <2>4 DEF Init, ProcsOK
<1>2. DiskOK
  <2>1. ASSUME NEW d \in Dirs, \E n \in Installed : table[n] = d
        PROVE  [f \in Parts |-> CHOOSE n \in Installed : table[n] = d] \in Contents
    BY <2>1, InstalledAssumption DEF Contents
  <2> QED BY <2>1 DEF Init, DiskOK
<1>3. StoreOK /\ running \subseteq Dirs
  BY InstalledAssumption DEF Init, StoreOK
<1> QED BY <1>1, <1>2, <1>3 DEF Types

\* The operations of the store keep it one.
LEMMA StoreType ==
  ASSUME StoreOK, NEW name \in Names, NEW dir \in Dirs
  PROVE  /\ Register(name, dir) /\ configured' = configured \ {name} => StoreOK'
         /\ Unregister(name) /\ configured' = configured \ {name} => StoreOK'
         /\ Relocate(name, dir) /\ configured' = configured => StoreOK'
<1>1. ASSUME Register(name, dir), configured' = configured \ {name} PROVE StoreOK'
  <2>1. DOMAIN table' = DOMAIN table \cup {name}
    BY <1>1 DEF Register
  <2>2. \A n \in DOMAIN table' : table'[n] \in Dirs
    BY <1>1, <2>1 DEF Register, StoreOK
  <2>3. table' = [n \in DOMAIN table' |-> table'[n]]
    BY <1>1, <2>1 DEF Register
  <2>4. table' \in [DOMAIN table' -> Dirs]
    BY <2>2, <2>3
  <2> QED BY <1>1, <2>1, <2>4 DEF Register, StoreOK
<1>2. ASSUME Unregister(name), configured' = configured \ {name} PROVE StoreOK'
  <2>1. DOMAIN table' = DOMAIN table \ {name}
    BY <1>2 DEF Unregister
  <2>2. \A n \in DOMAIN table' : table'[n] \in Dirs
    BY <1>2, <2>1 DEF Unregister, StoreOK
  <2>3. table' = [n \in DOMAIN table' |-> table'[n]]
    BY <1>2, <2>1 DEF Unregister
  <2>4. table' \in [DOMAIN table' -> Dirs]
    BY <2>2, <2>3
  <2>5. chosen' \in DOMAIN table' \cup {NoValue}
    BY <1>2, <2>1 DEF Unregister, StoreOK
  <2> QED BY <1>2, <2>1, <2>4, <2>5 DEF StoreOK
<1>3. ASSUME Relocate(name, dir), configured' = configured PROVE StoreOK'
  BY <1>3 DEF Relocate, StoreOK
<1> QED BY <1>1, <1>2, <1>3

\* What a command that is running was given.
LEMMA CmdOK ==
  ASSUME ProcsOK, NEW p \in Procs, proc[p].pc # "idle"
  PROVE  /\ Cmd(p) \in Commands /\ Cmd(p).op \in Ops /\ Cmd(p).name \in Names /\ Cmd(p).dir \in Dirs
         /\ Cmd(p).new \in Names /\ NewName(p) \in Names
<1>1. Cmd(p) \in Commands
  BY DEF ProcsOK, Going, Cmd
<1> QED BY <1>1 DEF Commands, NewName

\* What the proofs use of a step that leaves the registry alone, and the disk.
LEMMA SameStore == ASSUME StoreOK, SameRegistry PROVE StoreOK'
BY DEF StoreOK, SameRegistry
LEMMA SameDiskType == ASSUME DiskOK, SameDisk PROVE DiskOK'
BY DEF DiskOK, SameDisk

\* A command is issued.
LEMMA IssueType ==
  ASSUME Types, NEW p \in Procs, Issue(p)
  PROVE  Types' /\ proc'[p].pc \notin {"copy", "delete"} /\ proc'[p].pc # "idle"
<1>1. PICK cmd \in Commands, home \in Dirs \cup {NoValue}, before \in Contents :
        LET l == [Rest(cmd, "none", home, before)
                EXCEPT !.pc = CASE cmd.op = "install"    -> "register"
                                [] cmd.op = "register"   -> "detect"
                                [] cmd.op = "unregister" -> "unregister"
                                [] cmd.op = "duplicate"  -> "load"
                                [] OTHER                 -> "checkRunning"]
        IN Become(p, l)
  <2>1. \A cmd \in Commands : (IF cmd.name \in DOMAIN table /\ disk[table[cmd.name]] # NoDir
                               THEN disk[table[cmd.name]] ELSE Empty) \in Contents
    <3>1. \A n \in DOMAIN table : table[n] \in Dirs
      BY DEF Types, StoreOK
    <3> QED BY <3>1, DirKinds DEF Types, DiskOK
  <2>2. \A cmd \in Commands :
          (IF cmd.name \in DOMAIN table THEN table[cmd.name] ELSE NoValue) \in Dirs \cup {NoValue}
    BY DEF Types, StoreOK
  <2> QED BY <2>1, <2>2 DEF Issue
<1> DEFINE pc == CASE cmd.op = "install"    -> "register"
                   [] cmd.op = "register"   -> "detect"
                   [] cmd.op = "unregister" -> "unregister"
                   [] cmd.op = "duplicate"  -> "load"
                   [] OTHER                 -> "checkRunning"
           l == [pc |-> pc, cmd |-> cmd, src |-> NoValue, seen |-> {}, outcome |-> "none",
                 home |-> home, before |-> before]
<1>2. Become(p, l)
  BY <1>1 DEF Rest
<1>3. cmd.op \in Ops
  BY DEF Commands
<1>4. /\ pc = "register" => cmd.op = "install"
      /\ pc = "detect" => cmd.op = "register"
      /\ pc = "load" => cmd.op = "duplicate"
      /\ pc = "unregister" => cmd.op = "unregister"
      /\ pc = "checkRunning" => cmd.op \in {"move", "uninstall"}
      /\ pc \in {"register", "detect", "unregister", "load", "checkRunning"}
  BY <1>3, InstalledAssumption
<1> HIDE DEF pc
<1>5. l \in Local
  BY <1>4 DEF Local, Pcs, Outcomes
<1>6. Going(l)
  BY <1>4 DEF Going
<1>7. ProcsOK'
  BY <1>2, <1>5, <1>6, BecomeType DEF LocalOK, Types
<1>8. proc'[p] = l
  BY <1>2 DEF Become, Types, ProcsOK
<1>9. StoreOK' /\ DiskOK' /\ running' \subseteq Dirs
  BY DEF Issue, Types, StoreOK, DiskOK
<1> QED BY <1>4, <1>7, <1>8, <1>9 DEF Types

\* Every step of a command keeps the types: the registry first, then the disk.
LEMMA RegistryStepType ==
  ASSUME Types, NEW p \in Procs, RegisterDistro(p) \/ Configure(p) \/ SetDistroDir(p) \/ UnregisterDistro(p)
  PROVE  Types'
<1> USE DEF Types
<1>1. CASE RegisterDistro(p)
  <2>1. proc[p].pc # "idle" /\ running' \subseteq Dirs /\ DiskOK'
    BY <1>1, SameDiskType DEF RegisterDistro, At
  <2>2. CASE Register(NewName(p), Cmd(p).dir) /\ configured' = configured \ {NewName(p)} /\ Goto(p, "configure")
    <3>1. StoreOK'
      BY <2>1, <2>2, CmdOK, StoreType
    <3>2. proc[p] \in Local /\ Going(proc[p]) /\ proc[p].pc = "register"
      BY <1>1 DEF ProcsOK, RegisterDistro, At
    <3>3. Going([proc[p] EXCEPT !.pc = "configure", !.seen = {}])
      BY <3>2 DEF Going, Local
    <3> QED BY <2>1, <2>2, <3>1, <3>3, GotoType, Zenon DEF Pcs
  <2>3. CASE SameRegistry /\ End(p, "error")
    BY <2>1, <2>3, EndType, SameStore DEF Outcomes
  <2> QED BY <1>1, <2>2, <2>3 DEF RegisterDistro
<1>2. CASE Configure(p)
  <2>1. proc[p].pc = "configure" /\ running' \subseteq Dirs /\ DiskOK' /\ proc[p] \in Local /\ Going(proc[p])
    BY <1>2, SameDiskType DEF Configure, At, ProcsOK
  <2>2. StoreOK'
    BY <1>2 DEF Configure, StoreOK, store
  <2>3. ProcsOK'
    <3>1. CASE End(p, "error") \/ End(p, "ok")
      BY <3>1, EndType DEF Outcomes
    <3>2. CASE Cmd(p).op # "register" /\ Goto(p, "prepare")
      <4>1. proc[p].cmd.op \in {"install", "duplicate"}
        BY <2>1, <3>2 DEF Going, Cmd
      <4>2. Going([proc[p] EXCEPT !.pc = "prepare", !.seen = {}])
        BY <2>1, <4>1 DEF Going, Local
      <4> QED BY <3>2, <4>2, GotoType, Zenon DEF Pcs
    <3> QED BY <1>2, <3>1, <3>2 DEF Configure
  <2> QED BY <2>1, <2>2, <2>3
<1>3. CASE SetDistroDir(p)
  <2>1. proc[p].pc # "idle" /\ running' \subseteq Dirs /\ DiskOK'
    BY <1>3, SameDiskType DEF SetDistroDir, At
  <2>2. StoreOK'
    <3>1. CASE Relocate(Cmd(p).name, Cmd(p).dir)
      BY <1>3, <2>1, <3>1, CmdOK, StoreType DEF SetDistroDir
    <3>2. CASE UNCHANGED store
      BY <1>3, <3>2 DEF SetDistroDir, store, StoreOK
    <3> QED BY <1>3, <3>1, <3>2 DEF SetDistroDir
  <2>3. End(p, "ok") \/ End(p, "error")
    BY <1>3 DEF SetDistroDir
  <2> QED BY <2>1, <2>2, <2>3, EndType DEF Outcomes
<1>4. CASE UnregisterDistro(p)
  <2>1. proc[p].pc = "unregister" /\ running' \subseteq Dirs /\ DiskOK' /\ proc[p] \in Local /\ Going(proc[p])
    BY <1>4, SameDiskType DEF UnregisterDistro, At, ProcsOK
  <2>2. StoreOK'
    <3>1. CASE Unregister(Cmd(p).name) /\ configured' = configured \ {Cmd(p).name}
      <4>1. Cmd(p).name \in Names /\ Cmd(p).dir \in Dirs
        BY <2>1, CmdOK
      <4> QED BY <3>1, <4>1, StoreType
    <3>2. CASE SameRegistry
      BY <3>2, SameStore
    <3> QED BY <1>4, <3>1, <3>2 DEF UnregisterDistro
  <2>3. ProcsOK'
    <3>1. CASE End(p, "ok") \/ End(p, "error")
      BY <3>1, EndType DEF Outcomes
    <3>2. CASE Cmd(p).op = "uninstall" /\ Goto(p, "delete")
      <4>1. proc[p].cmd.op = "uninstall" /\ proc[p].src \in Dirs
        BY <2>1, <3>2 DEF Going, Cmd
      <4>2. Going([proc[p] EXCEPT !.pc = "delete", !.seen = {}])
        BY <2>1, <4>1 DEF Going, Local
      <4> QED BY <3>2, <4>2, GotoType, Zenon DEF Pcs
    <3> QED BY <1>4, <3>1, <3>2 DEF UnregisterDistro
  <2> QED BY <2>1, <2>2, <2>3
<1> QED BY <1>1, <1>2, <1>3, <1>4

\* Steps that only look.
LEMMA LookStepType ==
  ASSUME Types, NEW p \in Procs, Detect(p) \/ Load(p) \/ CheckPath(p) \/ CheckRunning(p) \/ ReadDir(p)
  PROVE  Types'
<1>1. StoreOK' /\ DiskOK' /\ running' \subseteq Dirs /\ ProcsOK /\ proc[p] \in Local /\ Going(proc[p])
  BY SameStore, SameDiskType DEF Types, ProcsOK, Detect, Load, CheckPath, CheckRunning, ReadDir, At
<1>2. ASSUME End(p, "error") \/ End(p, "rejected") PROVE ProcsOK'
  BY <1>1, <1>2, EndType DEF Outcomes
<1>3. \A n \in DOMAIN table : table[n] \in Dirs
  BY DEF Types, StoreOK
<1>4. CASE Detect(p) \/ Load(p)
  <2>1. CASE Goto(p, "register")
    <3>1. proc[p].cmd.op \in {"install", "register", "duplicate"}
      BY <1>1, <1>4 DEF Detect, Load, At, Going
    <3>2. Going([proc[p] EXCEPT !.pc = "register", !.seen = {}])
      BY <1>1, <1>4, <3>1 DEF Going, Local, Detect, Load, At
    <3> QED BY <1>1, <2>1, <3>2, GotoType, Zenon DEF Pcs, Types
  <2> QED BY <1>1, <1>2, <1>4, <2>1 DEF Detect, Load, Types
<1>5. CASE CheckPath(p)
  <2>1. CASE \E src \in Dirs : Become(p, [proc[p] EXCEPT !.pc = "copy", !.src = src, !.seen = {}])
    <3>1. PICK src \in Dirs : Become(p, [proc[p] EXCEPT !.pc = "copy", !.src = src, !.seen = {}])
      BY <2>1
    <3>2. [proc[p] EXCEPT !.pc = "copy", !.src = src, !.seen = {}] \in Local
      BY <1>1, Zenon DEF Local, Pcs
    <3>3. Going([proc[p] EXCEPT !.pc = "copy", !.src = src, !.seen = {}])
      BY <1>1, <1>5 DEF Going, Local, CheckPath, At
    <3> QED BY <1>1, <3>1, <3>2, <3>3, BecomeType DEF LocalOK, Types
  <2> DEFINE src == IF Cmd(p).op = "duplicate" THEN table[Cmd(p).name] ELSE Src(p)
  <2>2. \/ End(p, "error") \/ End(p, "rejected")
        \/ /\ ~(Cmd(p).op = "duplicate" /\ Cmd(p).name \notin DOMAIN table)
           /\ Become(p, [proc[p] EXCEPT !.pc = "copy", !.src = src, !.seen = {}])
    BY <1>5 DEF CheckPath
  <2>3. ASSUME ~(Cmd(p).op = "duplicate" /\ Cmd(p).name \notin DOMAIN table) PROVE src \in Dirs
    BY <1>1, <1>3, <1>5, <2>3 DEF CheckPath, At, Going, Cmd, Src
  <2> HIDE DEF src
  <2> QED BY <1>1, <1>2, <2>1, <2>2, <2>3 DEF Types
<1>6. CASE CheckRunning(p)
  <2>1. CASE Goto(p, "readDir")
    <3>1. Going([proc[p] EXCEPT !.pc = "readDir", !.seen = {}])
      BY <1>1, <1>6 DEF Going, Local, CheckRunning, At
    <3> QED BY <1>1, <2>1, <3>1, GotoType, Zenon DEF Pcs, Types
  <2> QED BY <1>1, <1>2, <1>6, <2>1 DEF CheckRunning, Types
<1>7. CASE ReadDir(p)
  <2>1. CASE Cmd(p).name \in DOMAIN table
    <3> DEFINE pc == IF Cmd(p).op = "move" THEN "rename" ELSE "unregister"
               l == [proc[p] EXCEPT !.src = table[Cmd(p).name], !.pc = pc]
    <3>1. Become(p, l)
      BY <1>7, <2>1 DEF ReadDir
    <3>2. pc \in Pcs /\ table[Cmd(p).name] \in Dirs
      BY <1>3, <2>1 DEF Pcs
    <3>3. proc[p].cmd.op \in {"move", "uninstall"} /\ proc[p].cmd \in Commands
      BY <1>1, <1>7 DEF Going, ReadDir, At
    <3>4. /\ pc = "rename" => proc[p].cmd.op = "move"
          /\ pc = "unregister" => proc[p].cmd.op = "uninstall"
          /\ pc \in {"rename", "unregister"}
      BY <3>3 DEF Cmd
    <3> HIDE DEF pc
    <3>5. l \in Local /\ l.pc = pc /\ l.cmd = proc[p].cmd /\ l.src \in Dirs
      BY <1>1, <3>2 DEF Local
    <3> HIDE DEF l
    <3>6. Going(l)
      BY <3>3, <3>4, <3>5 DEF Going
    <3> QED BY <1>1, <3>1, <3>5, <3>6, BecomeType DEF LocalOK, Types
  <2> QED BY <1>1, <1>2, <1>7, <2>1 DEF ReadDir, Types
<1> QED BY <1>4, <1>5, <1>6, <1>7

\* A file of a directory that exists is replaced, or added.
LEMMA PutDisk ==
  ASSUME DiskOK, NEW d \in Dirs, disk[d] # NoDir, NEW f \in Parts, NEW v \in Names \cup {Image, NoValue}
  PROVE  [disk EXCEPT ![d][f] = v] \in [Dirs -> Contents \cup {NoDir}]
<1>1. disk[d] \in Contents
  BY DEF DiskOK
<1>2. [disk[d] EXCEPT ![f] = v] \in Contents
  BY <1>1 DEF Contents
<1> HIDE DEF Contents
<1> QED BY <1>2 DEF DiskOK

\* What a file of a directory holds.
LEMMA FileType ==
  ASSUME DiskOK, NEW d \in Dirs, NEW f \in Holds(d)
  PROVE  /\ f \in Parts /\ disk[d] # NoDir /\ disk[d] \in Contents
         /\ disk[d][f] \in Names \cup {Image} /\ disk[d][f] # NoValue
<1>1. disk[d] # NoDir /\ f \in Parts /\ disk[d][f] # NoValue
  BY DEF Holds
<1>2. disk[d] \in Contents
  BY <1>1 DEF DiskOK
<1> QED BY <1>1, <1>2 DEF Contents

\* One file is made.
LEMMA PutFileType ==
  ASSUME ProcsOK, DiskOK, NEW p \in Procs, proc[p].pc # "idle",
         NEW f \in Parts, NEW v \in Names \cup {Image, NoValue}, PutFile(p, f, v)
  PROVE  ProcsOK' /\ DiskOK'
<1>1. Cmd(p).dir \in Dirs
  BY CmdOK
<1>2. CASE SameDisk /\ End(p, "error")
  BY <1>2, EndType, SameDiskType DEF Outcomes
<1>3. CASE /\ disk[Cmd(p).dir] # NoDir
           /\ disk' = [disk EXCEPT ![Cmd(p).dir][f] = v]
           /\ Become(p, [proc[p] EXCEPT !.seen = @ \cup {f}])
  <2>1. DiskOK'
    BY <1>1, <1>3, PutDisk DEF DiskOK
  <2> QED BY <1>3, <2>1, SeenType
<1> QED BY <1>2, <1>3 DEF PutFile

\* Steps that work on the disk.
LEMMA DiskStepType ==
  ASSUME Types, NEW p \in Procs, Prepare(p) \/ Extract(p) \/ Copy(p) \/ Delete(p) \/ Rename(p)
  PROVE  Types'
<1>1. StoreOK' /\ running' \subseteq Dirs /\ ProcsOK /\ DiskOK /\ proc[p] \in Local /\ Going(proc[p])
  BY SameStore DEF Types, ProcsOK, Prepare, Extract, Copy, Delete, Rename, At
<1>2. proc[p].pc \in {"prepare", "extract", "copy", "delete", "rename"}
  BY DEF Prepare, Extract, Copy, Delete, Rename, At
<1>3. Cmd(p).dir \in Dirs
  BY <1>1, <1>2, CmdOK
<1>4. ASSUME NEW outcome \in Outcomes, SameDisk, End(p, outcome) PROVE ProcsOK' /\ DiskOK'
  BY <1>1, <1>4, EndType, SameDiskType
<1>5. CASE Prepare(p)
  <2> DEFINE pc == IF Cmd(p).op = "install" THEN "extract" ELSE "checkPath"
  <2>1. DiskOK'
    BY <1>1, <1>3, <1>5, DirKinds DEF DiskOK, Prepare
  <2>2. proc[p].cmd.op \in {"install", "move", "duplicate"} /\ (proc[p].cmd.op = "move" => proc[p].src \in Dirs)
    BY <1>1, <1>5 DEF Going, Prepare, At
  <2>3. /\ pc = "checkPath" => proc[p].cmd.op \in {"move", "duplicate"}
        /\ pc \in {"extract", "checkPath"}
    BY <2>2 DEF Cmd
  <2>4. Goto(p, pc)
    BY <1>5 DEF Prepare
  <2> HIDE DEF pc
  <2>5. Going([proc[p] EXCEPT !.pc = pc, !.seen = {}])
    BY <1>1, <1>2, <2>2, <2>3 DEF Going, Local
  <2> QED BY <1>1, <2>1, <2>3, <2>4, <2>5, GotoType, Zenon DEF Types, Pcs
<1>6. CASE Extract(p)
  <2>1. CASE \E f \in Parts \ proc[p].seen : PutFile(p, f, Image)
    BY <1>1, <1>2, <2>1, PutFileType DEF Types
  <2>2. CASE SameDisk /\ End(p, "ok")
    BY <1>1, <1>4, <2>2 DEF Types, Outcomes
  <2> QED BY <1>6, <2>1, <2>2 DEF Extract
<1>7. CASE Copy(p)
  <2>1. Src(p) \in Dirs /\ proc[p].cmd.op \in {"move", "duplicate"}
    BY <1>1, <1>7 DEF Going, Copy, At, Src
  <2>2. CASE \E f \in Holds(Src(p)) \ proc[p].seen : PutFile(p, f, disk[Src(p)][f])
    <3>1. PICK f \in Holds(Src(p)) : PutFile(p, f, disk[Src(p)][f])
      BY <2>2
    <3>2. f \in Parts /\ disk[Src(p)][f] \in Names \cup {Image, NoValue}
      BY <1>1, <2>1, FileType
    <3> QED BY <1>1, <1>2, <3>1, <3>2, PutFileType DEF Types
  <2>3. CASE SameDisk /\ (End(p, "error") \/ End(p, "ok"))
    BY <1>1, <1>4, <2>3 DEF Types, Outcomes
  <2>4. CASE SameDisk /\ Cmd(p).op # "duplicate" /\ Goto(p, "delete")
    <3>1. proc[p].cmd.op = "move" /\ proc[p].src \in Dirs
      BY <2>1, <2>4 DEF Cmd, Src
    <3>2. Going([proc[p] EXCEPT !.pc = "delete", !.seen = {}])
      BY <1>1, <1>2, <3>1 DEF Going, Local
    <3> QED BY <1>1, <2>4, <3>2, GotoType, SameDiskType, Zenon DEF Types, Pcs
  <2> QED BY <1>7, <2>2, <2>3, <2>4 DEF Copy
<1>8. CASE Delete(p)
  <2>1. Src(p) \in Dirs
    BY <1>1, <1>8 DEF Going, Delete, At, Src
  <2>2. CASE SameDisk /\ End(p, "error")
    BY <1>1, <1>4, <2>2 DEF Types, Outcomes
  <2>3. CASE \E f \in Holds(Src(p)) : /\ disk' = [disk EXCEPT ![Src(p)][f] = NoValue]
                                      /\ Become(p, [proc[p] EXCEPT !.seen = @ \cup {f}])
    <3>1. PICK f \in Holds(Src(p)) : /\ disk' = [disk EXCEPT ![Src(p)][f] = NoValue]
                                     /\ Become(p, [proc[p] EXCEPT !.seen = @ \cup {f}])
      BY <2>3
    <3>2. f \in Parts /\ disk[Src(p)] # NoDir
      BY <1>1, <2>1, FileType
    <3>3. DiskOK'
      BY <1>1, <2>1, <3>1, <3>2, PutDisk DEF DiskOK
    <3> QED BY <1>1, <3>1, <3>2, <3>3, SeenType DEF Types
  <2>4. CASE /\ disk' = [disk EXCEPT ![Src(p)] = NoDir]
             /\ IF Cmd(p).op = "move" THEN Goto(p, "relocate") ELSE End(p, "ok")
    <3>1. DiskOK'
      BY <1>1, <2>1, <2>4 DEF DiskOK
    <3>2. CASE Cmd(p).op = "move"
      <4>1. Going([proc[p] EXCEPT !.pc = "relocate", !.seen = {}])
        BY <1>1, <1>2, <3>2 DEF Going, Local, Cmd
      <4> QED BY <1>1, <2>4, <3>1, <3>2, <4>1, GotoType, Zenon DEF Types, Pcs
    <3>3. CASE Cmd(p).op # "move"
      BY <1>1, <2>4, <3>1, <3>3, EndType DEF Types, Outcomes
    <3> QED BY <3>2, <3>3
  <2> QED BY <1>8, <2>2, <2>3, <2>4 DEF Delete
<1>9. CASE Rename(p)
  <2>1. Src(p) \in Dirs /\ proc[p].cmd.op = "move"
    BY <1>1, <1>9 DEF Going, Rename, At, Src
  <2>2. CASE /\ disk' = [d \in Dirs |-> IF d = Cmd(p).dir THEN disk[Src(p)]
                                        ELSE IF d = Src(p) THEN NoDir ELSE disk[d]]
             /\ Goto(p, "relocate")
    <3>1. DiskOK'
      BY <1>1, <2>1, <2>2 DEF DiskOK
    <3>2. Going([proc[p] EXCEPT !.pc = "relocate", !.seen = {}])
      BY <1>1, <1>2, <2>1 DEF Going, Local
    <3> QED BY <1>1, <2>2, <3>1, <3>2, GotoType, Zenon DEF Types, Pcs
  <2>3. CASE SameDisk /\ End(p, "error")
    BY <1>1, <1>4, <2>3 DEF Types, Outcomes
  <2>4. CASE SameDisk /\ Goto(p, "prepare")
    <3>1. Going([proc[p] EXCEPT !.pc = "prepare", !.seen = {}])
      BY <1>1, <1>2, <2>1 DEF Going, Local, Src
    <3> QED BY <1>1, <2>4, <3>1, GotoType, SameDiskType, Zenon DEF Types, Pcs
  <2> QED BY <1>9, <2>2, <2>3, <2>4 DEF Rename
<1> QED BY <1>5, <1>6, <1>7, <1>8, <1>9

\* Every step.
LEMMA TypesNext == Types /\ [Next]_vars => Types'
<1> SUFFICES ASSUME Types, [Next]_vars PROVE Types'
  OBVIOUS
<1>1. ASSUME NEW p \in Procs, Issue(p) PROVE Types'
  BY <1>1, IssueType
<1>2. ASSUME NEW p \in Procs, Step(p) PROVE Types'
  BY <1>2, RegistryStepType, LookStepType, DiskStepType DEF Step
<1>3. ASSUME NEW p \in Procs, Mishap(p) PROVE Types'
  <2>1. End(p, "error") \/ End(p, "killed")
    BY <1>3 DEF Mishap
  <2>2. ProcsOK'
    BY <2>1, EndType DEF Outcomes, Types
  <2> QED BY <1>3, <2>2 DEF Mishap, Types, StoreOK, DiskOK
<1>4. CASE WslStart \/ WslStop
  BY <1>4 DEF WslStart, WslStop, Types, ProcsOK, DiskOK, StoreOK
<1>5. CASE UNCHANGED vars
  BY <1>5 DEF vars, Types, ProcsOK, DiskOK, StoreOK
<1> QED BY <1>1, <1>2, <1>3, <1>4, <1>5 DEF Next, Quiet

\* Directories hold files of distributions or of the archive and processes know the
\* directories they need, whatever commands cross, fail or get killed.
THEOREM TypeCorrect == Spec => []TypeOK
<1>1. Spec => []Types
  BY TypesInit, TypesNext, PTL DEF Spec
<1> QED BY <1>1, TypesOK, PTL

-----------------------------------------------------------------------------
(* Copies *)

Moving(p) == proc[p].pc # "idle" /\ Cmd(p).op = "move"

(* No two processes move distributions at once. *)
OneMove == \A p, q \in Procs : Moving(p) /\ Moving(q) => p = q

(* What a move has copied agrees with its source, and once it deletes the source
   every distribution is whole somewhere else. *)
MoveOK(p) ==
    /\ proc[p].pc = "copy" /\ Cmd(p).op = "move" =>
        /\ Src(p) # Cmd(p).dir
        /\ \A f \in proc[p].seen : /\ f \in Holds(Src(p)) /\ f \in Holds(Cmd(p).dir)
                                   /\ disk[Cmd(p).dir][f] = disk[Src(p)][f]
    /\ proc[p].pc = "delete" /\ Cmd(p).op = "move" =>
        \A n \in Installed : \E d \in Dirs \ {Src(p)} : Whole(d, n)

(* The inductive invariant. *)
Inv == Types /\ WholeCopySurvives /\ \A p \in Procs : MoveOK(p)

(* A step that takes no file away and writes over none. *)
Grows == \A d \in Dirs : \A f \in Holds(d) : f \in Holds(d)' /\ disk'[d][f] = disk[d][f]

\* A whole copy is a directory with every file of the distribution.
LEMMA WholeHolds ==
  ASSUME NEW d, NEW n \in Installed
  PROVE  Whole(d, n) <=> \A f \in Parts : f \in Holds(d) /\ disk[d][f] = n
<1>1. n # NoValue /\ InitFile \in Parts
  BY InstalledAssumption
<1> QED BY <1>1 DEF Whole, Holds

\* And stays one when nothing is taken away.
LEMMA GrowKeeps ==
  ASSUME Grows, NEW d \in Dirs, NEW n \in Installed, Whole(d, n)
  PROVE  Whole(d, n)'
<1>1. \A f \in Parts : f \in Holds(d) /\ disk[d][f] = n
  BY WholeHolds
<1>2. \A f \in Parts : f \in Holds(d)' /\ disk'[d][f] = n
  BY <1>1 DEF Grows
<1>3. n # NoValue /\ InitFile \in Parts
  BY InstalledAssumption
<1> QED BY <1>2, <1>3 DEF Whole, Holds

\* A file is only made where there is none.
LEMMA PutGrows ==
  ASSUME Types, NEW p \in Procs, proc[p].pc # "idle", NEW f, NEW v, PutFile(p, f, v)
  PROVE  Grows
<1>1. CASE SameDisk
  BY <1>1 DEF SameDisk, Grows, Holds
<1>2. CASE f \notin Holds(Cmd(p).dir) /\ disk[Cmd(p).dir] # NoDir /\ disk' = [disk EXCEPT ![Cmd(p).dir][f] = v]
  <2> DEFINE to == Cmd(p).dir
  <2>1. to \in Dirs /\ DiskOK
    BY CmdOK DEF Types
  <2>2. disk[to] \in Contents /\ DOMAIN disk[to] = Parts
    BY <1>2, <2>1, DirKinds DEF DiskOK
  <2>3. disk'[to] = [disk[to] EXCEPT ![f] = v] /\ \A d \in Dirs \ {to} : disk'[d] = disk[d]
    BY <1>2, <2>1 DEF DiskOK
  <2>4. \A g \in Parts : g # f => disk'[to][g] = disk[to][g]
    BY <2>2, <2>3
  <2>5. disk'[to] # NoDir
    <3>1. DOMAIN disk'[to] = Parts
      BY <2>2, <2>3
    <3>2. DOMAIN NoDir = {} /\ InitFile \in Parts
      BY InstalledAssumption DEF NoDir
    <3> QED BY <3>1, <3>2
  <2> HIDE DEF to
  <2>6. f \notin Holds(to)
    BY <1>2 DEF to
  <2>7. ASSUME NEW d \in Dirs, NEW g \in Holds(d) PROVE g \in Holds(d)' /\ disk'[d][g] = disk[d][g]
    <3>1. CASE d = to
      <4>1. g \in Parts /\ g # f /\ disk[d][g] # NoValue
        BY <2>6, <2>7, <3>1 DEF Holds
      <4> QED BY <2>4, <2>5, <3>1, <4>1 DEF Holds
    <3>2. CASE d # to
      BY <2>3, <2>7, <3>2 DEF Holds
    <3> QED BY <3>1, <3>2
  <2> QED BY <2>7 DEF Grows
<1> QED BY <1>1, <1>2 DEF PutFile

\* Nothing but a deletion or a renaming takes files away.
LEMMA StepGrows ==
  ASSUME Types, NEW p \in Procs, Step(p), proc[p].pc \notin {"delete", "rename"}
  PROVE  Grows
<1>1. CASE SameDisk
  BY <1>1 DEF SameDisk, Grows, Holds
<1>2. CASE Prepare(p)
  <2>1. Cmd(p).dir \in Dirs
    BY <1>2, CmdOK DEF Types, Prepare, At
  <2>2. \A d \in Dirs : disk[d] # NoDir => disk'[d] = disk[d]
    BY <1>2, <2>1 DEF Prepare, Types, DiskOK
  <2> QED BY <2>2 DEF Grows, Holds
<1>3. CASE Extract(p)
  BY <1>1, <1>3, PutGrows DEF Extract, At
<1>4. CASE Copy(p)
  BY <1>1, <1>4, PutGrows DEF Copy, At
<1>5. CASE Delete(p) \/ Rename(p)
  BY <1>5 DEF Delete, Rename, At
<1> QED BY <1>1, <1>2, <1>3, <1>4, <1>5 DEF Step, Detect, Load, RegisterDistro, Configure, CheckPath, CheckRunning,
                                            ReadDir, SetDistroDir, UnregisterDistro

\* When nothing is taken away, what is said of a process that stays as it is stays true.
LEMMA GrowMoveOK ==
  ASSUME Types, Grows, NEW p \in Procs, proc'[p] = proc[p], MoveOK(p)
  PROVE  MoveOK(p)'
<1>1. CASE proc[p].pc = "copy" /\ Cmd(p).op = "move"
  <2>1. Src(p) \in Dirs /\ Cmd(p).dir \in Dirs
    BY <1>1, CmdOK DEF Types, ProcsOK, Going, Src
  <2>2. ASSUME NEW f \in proc[p].seen
        PROVE  f \in Holds(Src(p))' /\ f \in Holds(Cmd(p).dir)' /\ disk'[Cmd(p).dir][f] = disk'[Src(p)][f]
    <3>1. f \in Holds(Src(p)) /\ f \in Holds(Cmd(p).dir) /\ disk[Cmd(p).dir][f] = disk[Src(p)][f]
      BY <1>1, <2>2 DEF MoveOK
    <3>2. Src(p)' = Src(p) /\ Cmd(p)' = Cmd(p)
      BY DEF Src, Cmd
    <3>3. /\ f \in Parts /\ disk'[Src(p)] # NoDir /\ disk'[Src(p)][f] # NoValue
          /\ disk'[Cmd(p).dir] # NoDir /\ disk'[Cmd(p).dir][f] # NoValue
          /\ disk'[Src(p)][f] = disk[Src(p)][f] /\ disk'[Cmd(p).dir][f] = disk[Cmd(p).dir][f]
      BY <2>1, <3>1 DEF Grows, Holds
    <3> QED BY <3>1, <3>2, <3>3 DEF Holds
  <2> QED BY <1>1, <2>2 DEF MoveOK, Src, Cmd
<1>2. CASE proc[p].pc = "delete" /\ Cmd(p).op = "move"
  <2>1. \A n \in Installed : \E d \in Dirs \ {Src(p)} : Whole(d, n)'
    BY <1>2, GrowKeeps DEF MoveOK
  <2> QED BY <1>2, <2>1 DEF MoveOK, Src, Cmd
<1> QED BY <1>1, <1>2 DEF MoveOK, Cmd

\* Nothing is said of a process that neither copies nor deletes.
LEMMA ElsewhereOK == ASSUME NEW p, proc[p].pc \notin {"copy", "delete"} PROVE MoveOK(p)
BY DEF MoveOK

\* Where a process goes.
LEMMA GoesTo ==
  ASSUME ProcsOK, NEW p \in Procs
  PROVE  /\ \A pc \in Pcs : Goto(p, pc) => proc'[p] = [proc[p] EXCEPT !.pc = pc, !.seen = {}] /\ proc'[p].pc = pc
         /\ \A outcome : End(p, outcome) => proc'[p].pc = "idle"
         /\ \A l : Become(p, l) => proc'[p] = l /\ \A q \in Procs : q # p => proc'[q] = proc[q]
<1>1. \A l : Become(p, l) => proc'[p] = l /\ \A q \in Procs : q # p => proc'[q] = proc[q]
  BY DEF ProcsOK, Become
<1>2. \A pc \in Pcs : [proc[p] EXCEPT !.pc = pc, !.seen = {}].pc = pc
  BY DEF ProcsOK, Local
<1>3. \A outcome : Rest(Cmd(p), outcome, proc[p].home, proc[p].before).pc = "idle"
  BY DEF Rest
<1> QED BY <1>1, <1>2, <1>3, ZenonT(60) DEF Goto, End

\* Without "uninstall" only a move deletes or renames.
LEMMA OnlyMoves ==
  ASSUME ProcsOK, "uninstall" \notin Ops, NEW p \in Procs, proc[p].pc \in {"delete", "rename"}
  PROVE  Cmd(p).op = "move" /\ Src(p) \in Dirs /\ Cmd(p).dir \in Dirs
BY CmdOK DEF ProcsOK, Going, Cmd, Src

\* A move that copies one more file.
LEMMA CopyFileOK ==
  ASSUME Inv, NEW p \in Procs, proc[p].pc = "copy", Cmd(p).op = "move",
         NEW f \in Holds(Src(p)), PutFile(p, f, disk[Src(p)][f])
  PROVE  MoveOK(p)'
<1>1. Src(p) \in Dirs /\ Cmd(p).dir \in Dirs /\ Src(p) # Cmd(p).dir /\ ProcsOK /\ DiskOK
  BY CmdOK DEF Inv, Types, ProcsOK, Going, Src, MoveOK
<1>2. CASE End(p, "error")
  BY <1>1, <1>2, GoesTo, ElsewhereOK DEF MoveOK
<1>3. CASE /\ f \notin Holds(Cmd(p).dir) /\ disk[Cmd(p).dir] # NoDir
           /\ disk' = [disk EXCEPT ![Cmd(p).dir][f] = disk[Src(p)][f]]
           /\ Become(p, [proc[p] EXCEPT !.seen = @ \cup {f}])
  <2> DEFINE to == Cmd(p).dir
             from == Src(p)
  <2>1. /\ proc'[p].cmd = proc[p].cmd /\ proc'[p].src = proc[p].src /\ proc'[p].pc = "copy"
        /\ proc'[p].seen = proc[p].seen \cup {f}
    <3>1. proc'[p] = [proc[p] EXCEPT !.seen = @ \cup {f}] /\ proc[p] \in Local
      BY <1>1, <1>3, GoesTo DEF ProcsOK
    <3> QED BY <3>1 DEF Local
  <2>2. Src(p)' = from /\ Cmd(p)' = Cmd(p)
    BY <2>1 DEF Src, Cmd
  <2>3. disk'[from] = disk[from] /\ disk'[to] = [disk[to] EXCEPT ![f] = disk[from][f]]
    BY <1>1, <1>3 DEF DiskOK
  <2>4. Grows
    BY PutGrows DEF Inv
  <2>5. f \in Parts /\ disk[from] # NoDir /\ disk[from][f] # NoValue
    BY DEF Holds
  <2>6. disk'[to] # NoDir /\ disk'[to][f] = disk[from][f]
    <3>1. DOMAIN disk[to] = Parts
      BY <1>1, <1>3, DirKinds DEF DiskOK
    <3>2. DOMAIN disk'[to] = Parts
      BY <2>3, <3>1
    <3>3. DOMAIN NoDir = {} /\ InitFile \in Parts
      BY InstalledAssumption DEF NoDir
    <3> QED BY <2>3, <2>5, <3>1, <3>2, <3>3
  <2>7. ASSUME NEW g \in proc[p].seen \cup {f}
        PROVE  /\ g \in Parts /\ disk'[from] # NoDir /\ disk'[to] # NoDir /\ disk'[from][g] # NoValue
               /\ disk'[to][g] = disk'[from][g]
    <3>1. CASE g = f
      BY <2>3, <2>5, <2>6, <3>1
    <3>2. CASE g \in proc[p].seen
      <4>1. g \in Holds(from) /\ g \in Holds(to) /\ disk[to][g] = disk[from][g]
        BY <3>2 DEF Inv, MoveOK
      <4> QED BY <1>1, <2>4, <4>1 DEF Grows, Holds
    <3> QED BY <2>7, <3>1, <3>2
  <2> HIDE DEF to, from
  <2> QED BY <1>1, <2>1, <2>2, <2>7 DEF MoveOK, Holds, to, from
<1> QED BY <1>2, <1>3 DEF PutFile

\* A move that has copied everything: what was whole in the source is whole in the target.
LEMMA CopyDoneOK ==
  ASSUME Inv, NEW p \in Procs, proc[p].pc = "copy", Cmd(p).op = "move",
         Holds(Src(p)) \subseteq proc[p].seen, NEW n \in Installed
  PROVE  \E d \in Dirs \ {Src(p)} : Whole(d, n)
<1>1. PICK d \in Dirs : Whole(d, n)
  BY DEF Inv, WholeCopySurvives
<1>2. CASE d = Src(p)
  <2>1. Cmd(p).dir \in Dirs \ {Src(p)}
    BY CmdOK DEF Inv, Types, MoveOK
  <2>2. \A f \in Parts : f \in Holds(Src(p)) /\ disk[Src(p)][f] = n
    BY <1>1, <1>2, WholeHolds
  <2>3. \A f \in Parts : f \in Holds(Cmd(p).dir) /\ disk[Cmd(p).dir][f] = n
    BY <2>2 DEF Inv, MoveOK
  <2> QED BY <2>1, <2>3, WholeHolds
<1> QED BY <1>1, <1>2

\* A deletion, in a move, leaves the copies elsewhere alone.
LEMMA DeleteKeeps ==
  ASSUME Inv, "uninstall" \notin Ops, NEW p \in Procs, Delete(p)
  PROVE  /\ \A d \in Dirs \ {Src(p)} : disk'[d] = disk[d]
         /\ \A n \in Installed : \E d \in Dirs \ {Src(p)} : Whole(d, n) /\ Whole(d, n)'
         /\ WholeCopySurvives'
         /\ MoveOK(p)'
<1>1. Cmd(p).op = "move" /\ Src(p) \in Dirs /\ proc[p].pc = "delete" /\ ProcsOK
  BY OnlyMoves DEF Inv, Types, Delete, At
<1>2. \A d \in Dirs \ {Src(p)} : disk'[d] = disk[d]
  BY <1>1, Zenon DEF Delete, SameDisk, Inv, Types, DiskOK
<1>3. \A n \in Installed : \E d \in Dirs \ {Src(p)} : Whole(d, n)
  BY <1>1 DEF Inv, MoveOK
<1>4. \A n \in Installed : \E d \in Dirs \ {Src(p)} : Whole(d, n) /\ Whole(d, n)'
  BY <1>2, <1>3 DEF Whole
<1>5. WholeCopySurvives'
  BY <1>4 DEF WholeCopySurvives
<1>6. MoveOK(p)'
  <2>1. CASE proc'[p].pc \notin {"copy", "delete"}
    BY <2>1, ElsewhereOK DEF MoveOK
  <2>2. CASE \E f : Become(p, [proc[p] EXCEPT !.seen = @ \cup {f}])
    <3>1. proc'[p].cmd = proc[p].cmd /\ proc'[p].src = proc[p].src /\ proc'[p].pc = "delete"
      <4>1. PICK f : Become(p, [proc[p] EXCEPT !.seen = @ \cup {f}])
        BY <2>2
      <4>2. proc[p] \in Local /\ proc'[p] = [proc[p] EXCEPT !.seen = @ \cup {f}]
        BY <1>1, <4>1 DEF ProcsOK, Become
      <4> QED BY <1>1, <4>2 DEF Local
    <3>2. Src(p)' = Src(p)
      BY <3>1 DEF Src
    <3> QED BY <1>4, <3>1, <3>2 DEF MoveOK
  <2>3. End(p, "error") \/ Goto(p, "relocate") \/ \E f : Become(p, [proc[p] EXCEPT !.seen = @ \cup {f}])
    BY <1>1 DEF Delete
  <2> QED BY <1>1, <2>1, <2>2, <2>3, GoesTo, Zenon DEF Pcs
<1> QED BY <1>2, <1>4, <1>5, <1>6

\* A renaming takes every whole copy along.
LEMMA RenameKeeps ==
  ASSUME Inv, NEW p \in Procs, Rename(p)
  PROVE  WholeCopySurvives' /\ MoveOK(p)'
<1>1. proc[p].pc = "rename" /\ ProcsOK /\ DiskOK /\ Src(p) \in Dirs /\ Cmd(p).dir \in Dirs
  BY CmdOK DEF Inv, Types, ProcsOK, Going, Rename, At, Src
<1>2. WholeCopySurvives'
  <2>1. CASE SameDisk
    BY <2>1 DEF SameDisk, Inv, WholeCopySurvives, Whole
  <2>2. CASE /\ disk[Cmd(p).dir] = NoDir \/ Src(p) = Cmd(p).dir
             /\ disk' = [d \in Dirs |-> IF d = Cmd(p).dir THEN disk[Src(p)]
                                        ELSE IF d = Src(p) THEN NoDir ELSE disk[d]]
    <3>1. ASSUME NEW n \in Installed PROVE \E d \in Dirs : Whole(d, n)'
      <4>1. PICK d \in Dirs : Whole(d, n)
        BY DEF Inv, WholeCopySurvives
      <4>2. CASE d = Src(p)
        <5>1. disk'[Cmd(p).dir] = disk[d]
          BY <1>1, <2>2, <4>2
        <5> QED BY <1>1, <4>1, <5>1 DEF Whole
      <4>3. CASE d # Src(p)
        <5>1. d # Cmd(p).dir
          BY <2>2, <4>1, <4>3 DEF Whole
        <5>2. disk'[d] = disk[d]
          BY <2>2, <4>3, <5>1
        <5> QED BY <4>1, <5>2 DEF Whole
      <4> QED BY <4>2, <4>3
    <3> QED BY <3>1 DEF WholeCopySurvives
  <2> QED BY <2>1, <2>2 DEF Rename
<1>3. proc'[p].pc \notin {"copy", "delete"}
  <2>1. Goto(p, "relocate") \/ Goto(p, "prepare") \/ End(p, "error")
    BY DEF Rename
  <2> QED BY <1>1, <2>1, GoesTo, Zenon DEF Pcs
<1> QED BY <1>2, <1>3, ElsewhereOK DEF MoveOK

\* What any other step does for its own process.
LEMMA OwnStepOK ==
  ASSUME Inv, "uninstall" \notin Ops, NEW p \in Procs, Step(p), proc[p].pc \notin {"delete", "rename"}
  PROVE  MoveOK(p)'
<1>1. ProcsOK /\ proc[p] \in Local
  BY DEF Inv, Types, ProcsOK
<1>2. ASSUME proc'[p].pc \notin {"copy", "delete"} PROVE MoveOK(p)'
  BY <1>2 DEF MoveOK
<1>3. CASE Copy(p)
  <2>1. proc[p].pc = "copy" /\ Cmd(p).op \in {"move", "duplicate"}
    BY <1>1, <1>3 DEF Copy, At, ProcsOK, Going, Cmd
  <2>2. CASE End(p, "error") \/ End(p, "ok")
    BY <1>1, <1>2, <2>2, GoesTo
  <2>3. CASE Cmd(p).op = "duplicate" /\ \E f : PutFile(p, f, disk[Src(p)][f])
    <3>1. End(p, "error") \/ \E f : Become(p, [proc[p] EXCEPT !.seen = @ \cup {f}])
      BY <2>3 DEF PutFile
    <3>2. proc'[p].pc = "idle" \/ proc'[p].cmd = proc[p].cmd
      <4>1. ASSUME NEW f, Become(p, [proc[p] EXCEPT !.seen = @ \cup {f}]) PROVE proc'[p].cmd = proc[p].cmd
        <5>1. proc'[p] = [proc[p] EXCEPT !.seen = @ \cup {f}]
          BY <1>1, <4>1 DEF ProcsOK, Become
        <5> QED BY <1>1, <5>1 DEF Local
      <4>2. End(p, "error") => proc'[p].pc = "idle"
        BY <1>1, GoesTo
      <4> QED BY <3>1, <4>1, <4>2
    <3> QED BY <2>3, <3>2 DEF MoveOK, Cmd
  <2>4. CASE Cmd(p).op = "move" /\ \E f \in Holds(Src(p)) : PutFile(p, f, disk[Src(p)][f])
    BY <2>1, <2>4, CopyFileOK
  <2>5. CASE /\ SameDisk /\ Cmd(p).op = "move" /\ Goto(p, "delete")
             /\ Holds(Src(p)) \subseteq proc[p].seen
    <3>1. proc'[p] = [proc[p] EXCEPT !.pc = "delete", !.seen = {}]
      BY <1>1, <2>5, GoesTo, Zenon DEF Pcs
    <3>2. proc'[p].pc = "delete" /\ Src(p)' = Src(p)
      BY <1>1, <3>1 DEF Local, Src
    <3>3. \A n \in Installed : \E d \in Dirs \ {Src(p)} : Whole(d, n)
      BY <2>1, <2>5, CopyDoneOK
    <3>4. \A n \in Installed : \E d \in Dirs \ {Src(p)} : Whole(d, n)'
      BY <2>5, <3>3 DEF SameDisk, Whole
    <3> QED BY <3>2, <3>4 DEF MoveOK
  <2> QED BY <1>3, <2>1, <2>2, <2>3, <2>4, <2>5 DEF Copy
<1>4. CASE CheckPath(p)
  <2>1. CASE End(p, "error") \/ End(p, "rejected")
    BY <1>1, <1>2, <2>1, GoesTo
  <2>2. CASE \E src : src # Cmd(p).dir /\ Become(p, [proc[p] EXCEPT !.pc = "copy", !.src = src, !.seen = {}])
    <3>1. PICK src : src # Cmd(p).dir /\ proc'[p] = [proc[p] EXCEPT !.pc = "copy", !.src = src, !.seen = {}]
      BY <1>1, <2>2, GoesTo, ZenonT(60)
    <3>2. proc'[p].pc = "copy" /\ proc'[p].src = src /\ proc'[p].seen = {} /\ proc'[p].cmd = proc[p].cmd
      BY <1>1, <3>1 DEF Local
    <3> QED BY <3>1, <3>2 DEF MoveOK, Src, Cmd
  <2> QED BY <1>4, <2>1, <2>2 DEF CheckPath
<1>5. CASE Extract(p)
  <2>1. End(p, "error") \/ End(p, "ok") \/ \E f : Become(p, [proc[p] EXCEPT !.seen = @ \cup {f}])
    BY <1>5 DEF Extract, PutFile
  <2>2. \A f : proc'[p] = [proc[p] EXCEPT !.seen = @ \cup {f}] => proc'[p].pc = "extract"
    BY <1>1, <1>5 DEF Local, Extract, At
  <2> QED BY <1>1, <1>2, <2>1, <2>2, GoesTo, ZenonT(60)
<1>6. CASE UnregisterDistro(p)
  <2>1. Cmd(p).op # "uninstall"
    BY <1>1, <1>6, CmdOK DEF UnregisterDistro, At
  <2> QED BY <1>1, <1>2, <1>6, <2>1, GoesTo DEF UnregisterDistro
<1>7. CASE ReadDir(p)
  <2> DEFINE pc == IF Cmd(p).op = "move" THEN "rename" ELSE "unregister"
  <2>1. End(p, "error") \/ \E src : Become(p, [proc[p] EXCEPT !.src = src, !.pc = pc])
    BY <1>7 DEF ReadDir
  <2>2. pc \notin {"copy", "delete"}
    OBVIOUS
  <2> HIDE DEF pc
  <2>3. ASSUME NEW src, Become(p, [proc[p] EXCEPT !.src = src, !.pc = pc]) PROVE proc'[p].pc = pc
    <3>1. proc'[p] = [proc[p] EXCEPT !.src = src, !.pc = pc]
      BY <1>1, <2>3 DEF ProcsOK, Become
    <3> QED BY <1>1, <3>1 DEF Local
  <2>4. End(p, "error") => proc'[p].pc = "idle"
    BY <1>1, GoesTo
  <2> QED BY <1>2, <2>1, <2>2, <2>3, <2>4
<1>8. CASE Prepare(p)
  <2>1. Goto(p, "extract") \/ Goto(p, "checkPath")
    BY <1>8 DEF Prepare
  <2> QED BY <1>1, <1>2, <2>1, GoesTo, Zenon DEF Pcs
<1>9. CASE Detect(p) \/ Load(p) \/ RegisterDistro(p) \/ Configure(p) \/ CheckRunning(p) \/ SetDistroDir(p)
  <2>1. \/ Goto(p, "register") \/ Goto(p, "configure") \/ Goto(p, "prepare") \/ Goto(p, "readDir")
        \/ End(p, "error") \/ End(p, "ok")
    BY <1>9 DEF Detect, Load, RegisterDistro, Configure, CheckRunning, SetDistroDir
  <2> QED BY <1>1, <1>2, <2>1, GoesTo, Zenon DEF Pcs
<1>10. CASE Delete(p) \/ Rename(p)
  BY <1>10 DEF Delete, Rename, At
<1> QED BY <1>3, <1>4, <1>5, <1>6, <1>7, <1>8, <1>9, <1>10 DEF Step

\* Every step keeps the invariant while no two moves overlap.
LEMMA InvNext == "uninstall" \notin Ops /\ Inv /\ OneMove /\ [Next]_vars => Inv'
<1> SUFFICES ASSUME "uninstall" \notin Ops, Inv, OneMove, [Next]_vars PROVE Inv'
  OBVIOUS
<1>1. Types'
  BY TypesNext DEF Inv
<1>2. ASSUME Grows PROVE WholeCopySurvives'
  BY <1>2, GrowKeeps DEF Inv, WholeCopySurvives
<1>3. ASSUME NEW p \in Procs, Issue(p) PROVE Inv'
  <2>1. Grows
    BY <1>3 DEF Issue, Grows, Holds
  <2>2. MoveOK(p)'
    BY <1>3, IssueType DEF Inv, MoveOK
  <2>3. ASSUME NEW q \in Procs, q # p PROVE MoveOK(q)'
    <3>1. proc'[q] = proc[q]
      BY <1>3, <2>3 DEF Issue, Become, Inv, Types, ProcsOK
    <3> QED BY <2>1, <3>1, GrowMoveOK DEF Inv
  <2> QED BY <1>1, <1>2, <2>1, <2>2, <2>3 DEF Inv
<1>4. ASSUME NEW p \in Procs, Step(p) PROVE Inv'
  <2>1. ASSUME NEW q \in Procs, q # p PROVE proc'[q] = proc[q]
    <3>1. \E l : Become(p, l)
      BY <1>4 DEF Step, Detect, Load, RegisterDistro, Configure, Prepare, CheckPath, Extract, Copy, Delete,
                  CheckRunning, ReadDir, Rename, SetDistroDir, UnregisterDistro, PutFile, Goto, End
    <3> QED BY <2>1, <3>1 DEF Become, Inv, Types, ProcsOK
  <2>2. CASE proc[p].pc \notin {"delete", "rename"}
    <3>1. Grows
      BY <1>4, <2>2, StepGrows DEF Inv
    <3>2. MoveOK(p)'
      BY <1>4, <2>2, OwnStepOK
    <3>3. \A q \in Procs : q # p => MoveOK(q)'
      BY <2>1, <3>1, GrowMoveOK DEF Inv
    <3> QED BY <1>1, <1>2, <3>1, <3>2, <3>3 DEF Inv
  <2>3. CASE proc[p].pc \in {"delete", "rename"}
    <3>1. Delete(p) \/ Rename(p)
      BY <1>4, <2>3 DEF Step, Detect, Load, RegisterDistro, Configure, Prepare, CheckPath, Extract, Copy,
                        CheckRunning, ReadDir, SetDistroDir, UnregisterDistro, At
    <3>2. WholeCopySurvives' /\ MoveOK(p)'
      BY <3>1, DeleteKeeps, RenameKeeps
    <3>3. Moving(p)
      BY <2>3, OnlyMoves DEF Moving, Inv, Types
    <3>4. ASSUME NEW q \in Procs, q # p PROVE MoveOK(q)'
      <4>1. ~Moving(q)
        BY <3>3, <3>4 DEF OneMove
      <4> QED BY <2>1, <3>4, <4>1 DEF Moving, MoveOK, Cmd
    <3> QED BY <1>1, <3>2, <3>4 DEF Inv
  <2> QED BY <2>2, <2>3
<1>5. ASSUME NEW p \in Procs, Mishap(p) PROVE Inv'
  <2>1. Grows
    BY <1>5 DEF Mishap, Grows, Holds
  <2>2. MoveOK(p)'
    BY <1>5, GoesTo DEF Mishap, Inv, Types, MoveOK
  <2>3. ASSUME NEW q \in Procs, q # p PROVE MoveOK(q)'
    <3>1. proc'[q] = proc[q]
      BY <1>5, <2>3 DEF Mishap, End, Become, Inv, Types, ProcsOK
    <3> QED BY <2>1, <3>1, GrowMoveOK DEF Inv
  <2> QED BY <1>1, <1>2, <2>1, <2>2, <2>3 DEF Inv
<1>6. CASE WslStart \/ WslStop \/ UNCHANGED vars
  <2>1. disk' = disk /\ proc' = proc
    BY <1>6 DEF WslStart, WslStop, vars
  <2>2. Grows
    BY <2>1 DEF Grows, Holds
  <2> QED BY <1>1, <1>2, <2>1, <2>2, GrowMoveOK DEF Inv
<1> QED BY <1>3, <1>4, <1>5, <1>6 DEF Next, Quiet

\* Every distribution is whole at the start.
LEMMA InvInit == Init => Inv
<1> SUFFICES ASSUME Init PROVE Inv
  OBVIOUS
<1>1. \A n \in Installed : Whole(table[n], n) /\ table[n] \in Dirs
  <2>1. ASSUME NEW n \in Installed PROVE Whole(table[n], n) /\ table[n] \in Dirs
    <3>1. table[n] \in Dirs /\ \A m \in Installed : table[m] = table[n] => m = n
      BY DEF Init
    <3>2. (CHOOSE m \in Installed : table[m] = table[n]) = n
      BY <3>1
    <3>3. disk[table[n]] = [f \in Parts |-> n]
      BY <3>1, <3>2 DEF Init
    <3>4. DOMAIN NoDir = {} /\ InitFile \in Parts
      BY InstalledAssumption DEF NoDir
    <3> QED BY <3>1, <3>3, <3>4 DEF Whole
  <2> QED BY <2>1
<1>2. \A p \in Procs : proc[p].pc = "idle"
  BY DEF Init, Rest
<1> QED BY <1>1, <1>2, TypesInit DEF Inv, WholeCopySurvives, MoveOK

\* What takes a crossing of two moves: as long as no two overlap, any number of processes
\* that install, register, unregister and duplicate into any directories, move one after
\* the other, fail and get killed leave a whole copy of every distribution on the disk.
THEOREM OneMoveKeepsCopies ==
  "uninstall" \notin Ops /\ Spec /\ []OneMove => []WholeCopySurvives
<1>1. Inv => WholeCopySurvives
  BY DEF Inv
<1>2. CASE "uninstall" \notin Ops
  <2>1. Inv /\ OneMove /\ [Next]_vars => Inv'
    BY <1>2, InvNext
  <2> QED BY <1>1, <2>1, InvInit, PTL DEF Spec
<1>3. CASE ~("uninstall" \notin Ops)
  BY <1>3
<1> QED BY <1>2, <1>3

-----------------------------------------------------------------------------
(* Success *)

(* Nobody else runs this program. *)
Alone == \A p, q \in Procs : p = q

(* The commands that make a new distribution; it is registered; they have succeeded. *)
Makes(p) == Cmd(p).op \in {"install", "register", "duplicate"}
Enrolled(p) == NewName(p) \in DOMAIN table /\ table[NewName(p)] = Cmd(p).dir
Complete(p) ==
    LET c == Cmd(p)
    IN  /\ c.op \in {"uninstall", "unregister"} => c.name \notin DOMAIN table
        /\ c.op \notin {"uninstall", "unregister"} => Enrolled(p)
        /\ Makes(p) => NewName(p) \in configured
        /\ c.op = "install" => Whole(c.dir, Image)
        /\ c.op \in {"move", "duplicate"} => Kept(p, c.dir)

(* What each stage of a command relies on when nobody else has interfered: the files of
   the source are where the command will look for them, the copied ones are in the
   target, and the registry names what was registered. *)
SourceKept(p) ==
    /\ proc[p].pc \in {"load", "checkRunning", "readDir"} /\ Cmd(p).name \in DOMAIN table =>
         Kept(p, table[Cmd(p).name])
    /\ proc[p].pc \in {"register", "configure", "prepare", "checkPath"} /\ Cmd(p).op = "duplicate" =>
         Cmd(p).name \in DOMAIN table /\ Kept(p, table[Cmd(p).name])
    /\ proc[p].pc \in {"rename", "prepare", "checkPath"} /\ Cmd(p).op = "move" => Kept(p, Src(p))
    /\ proc[p].pc = "copy" => Kept(p, Src(p))
TargetKept(p) ==
    /\ proc[p].pc = "copy" \/ (proc[p].pc = "delete" /\ Cmd(p).op = "move") => Src(p) # Cmd(p).dir
    /\ proc[p].pc = "copy" => \A f \in proc[p].seen : proc[p].before[f] # NoValue =>
         disk[Cmd(p).dir] # NoDir /\ disk[Cmd(p).dir][f] = proc[p].before[f]
    /\ proc[p].pc \in {"delete", "relocate"} /\ Cmd(p).op = "move" => Kept(p, Cmd(p).dir)
    /\ proc[p].pc = "extract" =>
         /\ Cmd(p).op = "install" /\ disk[Cmd(p).dir] # NoDir
         /\ \A f \in proc[p].seen : disk[Cmd(p).dir][f] = Image
EntryKept(p) ==
    /\ proc[p].pc \in {"configure", "prepare", "extract", "checkPath", "copy"} /\ Makes(p) => Enrolled(p)
    /\ proc[p].pc \in {"prepare", "extract", "checkPath", "copy"} /\ Makes(p) => NewName(p) \in configured
    /\ proc[p].pc = "delete" /\ Cmd(p).op = "uninstall" => Cmd(p).name \notin DOMAIN table
Duty(p) ==
    /\ SourceKept(p) /\ TargetKept(p) /\ EntryKept(p)
    /\ proc[p].pc = "idle" /\ proc[p].outcome = "ok" => Complete(p)
Duties == Types /\ \A p \in Procs : Duty(p)

\* What a step of a process leaves of its command.
LEMMA Fields ==
  ASSUME ProcsOK, NEW p \in Procs
  PROVE  /\ \A pc \in Pcs : Goto(p, pc) =>
              /\ proc'[p].pc = pc /\ proc'[p].cmd = proc[p].cmd /\ proc'[p].src = proc[p].src
              /\ proc'[p].seen = {} /\ proc'[p].before = proc[p].before
         /\ \A outcome : End(p, outcome) =>
              /\ proc'[p].pc = "idle" /\ proc'[p].outcome = outcome /\ proc'[p].cmd = proc[p].cmd
              /\ proc'[p].before = proc[p].before
         /\ \A f : Become(p, [proc[p] EXCEPT !.seen = @ \cup {f}]) =>
              /\ proc'[p].pc = proc[p].pc /\ proc'[p].cmd = proc[p].cmd /\ proc'[p].src = proc[p].src
              /\ proc'[p].seen = proc[p].seen \cup {f} /\ proc'[p].before = proc[p].before
<1>1. proc[p] \in Local /\ \A l : Become(p, l) => proc'[p] = l
  BY DEF ProcsOK, Become
<1>2. ASSUME NEW pc \in Pcs, Goto(p, pc)
      PROVE  /\ proc'[p].pc = pc /\ proc'[p].cmd = proc[p].cmd /\ proc'[p].src = proc[p].src
             /\ proc'[p].seen = {} /\ proc'[p].before = proc[p].before
  <2>1. proc'[p] = [proc[p] EXCEPT !.pc = pc, !.seen = {}]
    BY <1>1, <1>2 DEF Goto
  <2> QED BY <1>1, <2>1 DEF Local
<1>3. ASSUME NEW outcome, End(p, outcome)
      PROVE  /\ proc'[p].pc = "idle" /\ proc'[p].outcome = outcome /\ proc'[p].cmd = proc[p].cmd
             /\ proc'[p].before = proc[p].before
  BY <1>1, <1>3 DEF End, Rest, Cmd
<1>4. ASSUME NEW f, Become(p, [proc[p] EXCEPT !.seen = @ \cup {f}])
      PROVE  /\ proc'[p].pc = proc[p].pc /\ proc'[p].cmd = proc[p].cmd /\ proc'[p].src = proc[p].src
             /\ proc'[p].seen = proc[p].seen \cup {f} /\ proc'[p].before = proc[p].before
  <2>1. proc'[p] = [proc[p] EXCEPT !.seen = @ \cup {f}]
    BY <1>1, <1>4
  <2> QED BY <1>1, <2>1 DEF Local
<1> QED BY <1>2, <1>3, <1>4

\* A command that has ended without success owes nothing.
LEMMA FailedDuty ==
  ASSUME ProcsOK, NEW p \in Procs, NEW outcome, outcome # "ok", End(p, outcome)
  PROVE  Duty(p)'
<1>1. proc'[p].pc = "idle" /\ proc'[p].outcome # "ok"
  BY Fields
<1> QED BY <1>1 DEF Duty, SourceKept, TargetKept, EntryKept

\* One that has succeeded owes only what Complete says.
LEMMA SucceededDuty ==
  ASSUME ProcsOK, NEW p \in Procs, End(p, "ok"), Complete(p)'
  PROVE  Duty(p)'
<1>1. proc'[p].pc = "idle"
  BY Fields
<1> QED BY <1>1 DEF Duty, SourceKept, TargetKept, EntryKept

\* A command begins with what the named distribution holds.
LEMMA IssueDuty ==
  ASSUME Types, NEW p \in Procs, Issue(p)
  PROVE  Duty(p)'
<1> DEFINE Pc(cmd) == CASE cmd.op = "install"    -> "register"
                        [] cmd.op = "register"   -> "detect"
                        [] cmd.op = "unregister" -> "unregister"
                        [] cmd.op = "duplicate"  -> "load"
                        [] OTHER                 -> "checkRunning"
           Where(cmd) == IF cmd.name \in DOMAIN table THEN table[cmd.name] ELSE NoValue
           Was(cmd) == IF cmd.name \in DOMAIN table /\ disk[table[cmd.name]] # NoDir
                       THEN disk[table[cmd.name]] ELSE Empty
<1>1. PICK cmd \in Commands : Become(p, [Rest(cmd, "none", Where(cmd), Was(cmd)) EXCEPT !.pc = Pc(cmd)])
  BY DEF Issue
<1>2. /\ Pc(cmd) \in {"register", "detect", "unregister", "load", "checkRunning"}
      /\ Pc(cmd) = "register" => cmd.op = "install"
  OBVIOUS
<1> HIDE DEF Pc
<1>3. proc'[p] = [pc |-> Pc(cmd), cmd |-> cmd, src |-> NoValue, seen |-> {}, outcome |-> "none",
                  home |-> Where(cmd), before |-> Was(cmd)]
  BY <1>1 DEF Rest, Become, Types, ProcsOK
<1> HIDE DEF Was
<1>4. proc'[p].pc = Pc(cmd) /\ proc'[p].cmd = cmd /\ proc'[p].before = Was(cmd)
  BY <1>3
<1>5. ASSUME cmd.name \in DOMAIN table, NEW f \in Parts, Was(cmd)[f] # NoValue
      PROVE  disk[table[cmd.name]] # NoDir /\ disk[table[cmd.name]][f] = Was(cmd)[f]
  BY <1>5 DEF Was, Empty
<1>6. cmd.name \in DOMAIN table => Kept(p, table[cmd.name])'
  <2>1. table' = table /\ disk' = disk
    BY DEF Issue
  <2> QED BY <1>4, <1>5, <2>1 DEF Kept
<1>7. table' = table
  BY DEF Issue
<1>8. Cmd(p)' = cmd
  BY <1>4 DEF Cmd
<1> QED BY <1>2, <1>4, <1>6, <1>7, <1>8 DEF Duty, SourceKept, TargetKept, EntryKept

\* Steps on the registry.
LEMMA RegistryDuty ==
  ASSUME Types, NEW p \in Procs, Duty(p),
         RegisterDistro(p) \/ Configure(p) \/ SetDistroDir(p) \/ UnregisterDistro(p)
  PROVE  Duty(p)'
<1>1. ProcsOK /\ disk' = disk
  BY DEF Types, RegisterDistro, Configure, SetDistroDir, UnregisterDistro, SameDisk
<1>2. CASE End(p, "error")
  BY <1>1, <1>2, FailedDuty
<1>3. CASE RegisterDistro(p) /\ Goto(p, "configure")
  <2>1. proc[p].pc = "register" /\ Register(NewName(p), Cmd(p).dir)
    <3>1. ~End(p, "error")
      <4>1. Goto(p, "configure") => proc'[p].pc = "configure"
        BY <1>1, Fields DEF Pcs
      <4> QED BY <1>1, <1>3, <4>1, Fields
    <3> QED BY <1>3, <3>1 DEF RegisterDistro, At
  <2>2. /\ proc'[p].pc = "configure" /\ proc'[p].cmd = proc[p].cmd /\ proc'[p].before = proc[p].before
    BY <1>1, <1>3, Fields DEF Pcs
  <2>3. Cmd(p)' = Cmd(p) /\ NewName(p)' = NewName(p)
    BY <2>2 DEF Cmd, NewName
  <2>4. Enrolled(p)'
    BY <2>1, <2>3 DEF Register, Enrolled
  <2>5. Cmd(p).op = "duplicate" => (Cmd(p).name \in DOMAIN table /\ Kept(p, table[Cmd(p).name]))'
    <3>1. SUFFICES ASSUME Cmd(p).op = "duplicate"
                   PROVE  Cmd(p).name \in DOMAIN table' /\ Kept(p, table[Cmd(p).name])'
      BY <2>3
    <3>2. Cmd(p).name \in DOMAIN table /\ Kept(p, table[Cmd(p).name])
      BY <2>1, <3>1 DEF Duty, SourceKept
    <3>3. table'[Cmd(p).name] = table[Cmd(p).name] /\ Cmd(p).name \in DOMAIN table'
      BY <2>1, <3>2 DEF Register
    <3> QED BY <1>1, <2>2, <2>3, <3>2, <3>3 DEF Kept
  <2> QED BY <2>2, <2>3, <2>4, <2>5 DEF Duty, SourceKept, TargetKept, EntryKept
<1>4. CASE Configure(p) /\ ~End(p, "error")
  <2>1. /\ proc[p].pc = "configure" /\ table' = table /\ configured' = configured \cup {NewName(p)}
        /\ IF Cmd(p).op = "register" THEN End(p, "ok") ELSE Goto(p, "prepare")
    BY <1>4 DEF Configure, At, store
  <2>2. Makes(p) /\ Enrolled(p) /\ Cmd(p).op # "move"
    BY <1>1, <2>1 DEF ProcsOK, Going, Makes, Cmd, Duty, EntryKept
  <2>3. CASE Cmd(p).op = "register"
    <3>1. End(p, "ok")
      BY <2>1, <2>3
    <3>2. proc'[p].cmd = proc[p].cmd
      BY <1>1, <3>1, Fields
    <3>3. Cmd(p)' = Cmd(p) /\ NewName(p)' = NewName(p)
      BY <3>2 DEF Cmd, NewName
    <3>4. Complete(p)'
      BY <2>1, <2>2, <2>3, <3>3 DEF Complete, Enrolled, Makes
    <3> QED BY <1>1, <3>1, <3>4, SucceededDuty
  <2>4. CASE Cmd(p).op # "register"
    <3>1. /\ proc'[p].pc = "prepare" /\ proc'[p].cmd = proc[p].cmd /\ proc'[p].before = proc[p].before
      BY <1>1, <2>1, <2>4, Fields DEF Pcs
    <3>2. Cmd(p)' = Cmd(p) /\ NewName(p)' = NewName(p)
      BY <3>1 DEF Cmd, NewName
    <3>3. Enrolled(p)' /\ NewName(p)' \in configured'
      BY <2>1, <2>2, <3>2 DEF Enrolled
    <3>4. Cmd(p).op = "duplicate" => (Cmd(p).name \in DOMAIN table /\ Kept(p, table[Cmd(p).name]))'
      BY <1>1, <2>1, <3>1, <3>2 DEF Duty, SourceKept, Kept
    <3> QED BY <2>2, <3>1, <3>2, <3>3, <3>4 DEF Duty, SourceKept, TargetKept, EntryKept
  <2> QED BY <2>3, <2>4
<1>5. CASE SetDistroDir(p) /\ ~End(p, "error")
  <2>1. proc[p].pc = "relocate" /\ Relocate(Cmd(p).name, Cmd(p).dir) /\ End(p, "ok")
    BY <1>5 DEF SetDistroDir, At
  <2>2. Cmd(p).op = "move" /\ Kept(p, Cmd(p).dir)
    BY <1>1, <2>1 DEF ProcsOK, Going, Cmd, Duty, TargetKept
  <2>3. proc'[p].cmd = proc[p].cmd /\ proc'[p].before = proc[p].before
    BY <1>1, <2>1, Fields
  <2>4. Cmd(p)' = Cmd(p)
    BY <2>3 DEF Cmd
  <2>5. Enrolled(p)'
    BY <2>1, <2>2, <2>4 DEF Enrolled, NewName, Relocate
  <2>6. Complete(p)'
    BY <1>1, <2>2, <2>3, <2>4, <2>5 DEF Complete, Makes, Kept
  <2> QED BY <1>1, <2>1, <2>6, SucceededDuty
<1>6. CASE UnregisterDistro(p) /\ ~End(p, "error")
  <2>1. /\ proc[p].pc = "unregister" /\ Unregister(Cmd(p).name)
        /\ IF Cmd(p).op = "uninstall" THEN Goto(p, "delete") ELSE End(p, "ok")
    BY <1>6 DEF UnregisterDistro, At
  <2>2. Cmd(p).op \in {"unregister", "uninstall"}
    BY <1>1, <2>1 DEF ProcsOK, Going, Cmd
  <2>3. Cmd(p).name \notin DOMAIN table'
    BY <2>1 DEF Unregister
  <2>4. CASE Cmd(p).op = "uninstall"
    <3>1. proc'[p].pc = "delete" /\ proc'[p].cmd = proc[p].cmd
      BY <1>1, <2>1, <2>4, Fields DEF Pcs
    <3>2. Cmd(p)' = Cmd(p)
      BY <3>1 DEF Cmd
    <3> QED BY <2>3, <2>4, <3>1, <3>2 DEF Duty, SourceKept, TargetKept, EntryKept
  <2>5. CASE Cmd(p).op = "unregister"
    <3>1. End(p, "ok")
      BY <2>1, <2>5
    <3>2. proc'[p].cmd = proc[p].cmd
      BY <1>1, <3>1, Fields
    <3>3. Cmd(p)' = Cmd(p)
      BY <3>2 DEF Cmd
    <3>4. Complete(p)'
      BY <2>3, <2>5, <3>3 DEF Complete, Makes
    <3> QED BY <1>1, <3>1, <3>4, SucceededDuty
  <2> QED BY <2>2, <2>4, <2>5
<1>7. RegisterDistro(p) => End(p, "error") \/ Goto(p, "configure")
  BY DEF RegisterDistro
<1> QED BY <1>2, <1>3, <1>4, <1>5, <1>6, <1>7

\* Steps that only look.
LEMMA LookDuty ==
  ASSUME Types, NEW p \in Procs, Duty(p),
         Detect(p) \/ Load(p) \/ CheckPath(p) \/ CheckRunning(p) \/ ReadDir(p)
  PROVE  Duty(p)'
<1>1. ProcsOK /\ disk' = disk /\ table' = table /\ configured' = configured /\ Going(proc[p])
  BY DEF Types, ProcsOK, Detect, Load, CheckPath, CheckRunning, ReadDir, SameDisk, SameRegistry
<1>2. CASE End(p, "error") \/ End(p, "rejected")
  BY <1>1, <1>2, FailedDuty
<1>3. CASE Detect(p) /\ Goto(p, "register")
  <2>1. proc'[p].pc = "register" /\ proc'[p].cmd = proc[p].cmd /\ Cmd(p).op = "register"
    BY <1>1, <1>3, Fields DEF Pcs, Detect, At, Going, Cmd
  <2>2. Cmd(p)' = Cmd(p)
    BY <2>1 DEF Cmd
  <2> QED BY <2>1, <2>2 DEF Duty, SourceKept, TargetKept, EntryKept
<1>4. CASE Load(p) /\ Goto(p, "register")
  <2>1. proc'[p].pc = "register" /\ proc'[p].cmd = proc[p].cmd /\ proc'[p].before = proc[p].before
    BY <1>1, <1>4, Fields DEF Pcs
  <2>2. Cmd(p)' = Cmd(p)
    BY <2>1 DEF Cmd
  <2>3. Cmd(p).name \in DOMAIN table
    <3>1. End(p, "error") => proc'[p].pc = "idle"
      BY <1>1, Fields
    <3> QED BY <1>4, <2>1, <3>1 DEF Load
  <2>4. Kept(p, table[Cmd(p).name])'
    BY <1>1, <1>4, <2>1, <2>2, <2>3 DEF Load, At, Duty, SourceKept, Kept
  <2> QED BY <1>1, <2>1, <2>2, <2>3, <2>4 DEF Duty, SourceKept, TargetKept, EntryKept
<1>5. CASE CheckRunning(p) /\ Goto(p, "readDir")
  <2>1. proc'[p].pc = "readDir" /\ proc'[p].cmd = proc[p].cmd /\ proc'[p].before = proc[p].before
    BY <1>1, <1>5, Fields DEF Pcs
  <2>2. Cmd(p)' = Cmd(p)
    BY <2>1 DEF Cmd
  <2>3. Cmd(p).name \in DOMAIN table => Kept(p, table[Cmd(p).name])'
    BY <1>1, <1>5, <2>1, <2>2 DEF CheckRunning, At, Duty, SourceKept, Kept
  <2> QED BY <1>1, <2>1, <2>2, <2>3 DEF Duty, SourceKept, TargetKept, EntryKept
<1>6. CASE ReadDir(p) /\ Cmd(p).name \in DOMAIN table
  <2> DEFINE pc == IF Cmd(p).op = "move" THEN "rename" ELSE "unregister"
  <2>1. proc[p].pc = "readDir" /\ proc'[p] = [proc[p] EXCEPT !.src = table[Cmd(p).name], !.pc = pc]
    BY <1>1, <1>6 DEF ReadDir, At, Become, ProcsOK
  <2>2. pc \in {"rename", "unregister"}
    OBVIOUS
  <2> HIDE DEF pc
  <2>3. /\ proc'[p].pc = pc /\ proc'[p].src = table[Cmd(p).name] /\ proc'[p].cmd = proc[p].cmd
        /\ proc'[p].before = proc[p].before
    BY <1>1, <2>1 DEF ProcsOK, Local
  <2>4. Cmd(p)' = Cmd(p) /\ Src(p)' = table[Cmd(p).name]
    BY <2>3 DEF Cmd, Src
  <2>5. Kept(p, Src(p))'
    BY <1>1, <1>6, <2>1, <2>3, <2>4 DEF Duty, SourceKept, Kept
  <2> QED BY <2>2, <2>3, <2>5 DEF Duty, SourceKept, TargetKept, EntryKept
<1>7. CASE CheckPath(p) /\ ~End(p, "error") /\ ~End(p, "rejected")
  <2> DEFINE src == IF Cmd(p).op = "duplicate" THEN table[Cmd(p).name] ELSE Src(p)
  <2>1. /\ proc[p].pc = "checkPath" /\ src # Cmd(p).dir
        /\ proc'[p] = [proc[p] EXCEPT !.pc = "copy", !.src = src, !.seen = {}]
    BY <1>1, <1>7 DEF CheckPath, At, Become, ProcsOK
  <2>2. Kept(p, src)
    BY <1>1, <2>1 DEF Going, Cmd, Duty, SourceKept
  <2> HIDE DEF src
  <2>3. /\ proc'[p].pc = "copy" /\ proc'[p].src = src /\ proc'[p].cmd = proc[p].cmd
        /\ proc'[p].before = proc[p].before /\ proc'[p].seen = {}
    BY <1>1, <2>1 DEF ProcsOK, Local
  <2>4. Cmd(p)' = Cmd(p) /\ Src(p)' = src /\ NewName(p)' = NewName(p)
    BY <2>3 DEF Cmd, Src, NewName
  <2>5. Kept(p, Src(p))'
    BY <1>1, <2>2, <2>3, <2>4 DEF Kept
  <2>6. EntryKept(p)'
    BY <1>1, <2>1, <2>3, <2>4 DEF Duty, EntryKept, Makes, Enrolled
  <2> QED BY <2>1, <2>3, <2>4, <2>5, <2>6 DEF Duty, SourceKept, TargetKept
<1> QED BY <1>2, <1>3, <1>4, <1>5, <1>6, <1>7 DEF Detect, Load, CheckRunning, ReadDir

\* One file is made in the target of an archive or a copy.
LEMMA FileMade ==
  ASSUME Types, NEW p \in Procs, proc[p].pc # "idle", NEW f \in Parts, NEW v,
         PutFile(p, f, v), ~End(p, "error")
  PROVE  /\ proc'[p].pc = proc[p].pc /\ proc'[p].cmd = proc[p].cmd /\ proc'[p].src = proc[p].src
         /\ proc'[p].seen = proc[p].seen \cup {f} /\ proc'[p].before = proc[p].before
         /\ \A d \in Dirs : d # Cmd(p).dir => disk'[d] = disk[d]
         /\ disk[Cmd(p).dir] # NoDir /\ disk'[Cmd(p).dir] # NoDir /\ disk'[Cmd(p).dir][f] = v
         /\ \A g \in Parts : g # f => disk'[Cmd(p).dir][g] = disk[Cmd(p).dir][g]
<1> DEFINE to == Cmd(p).dir
<1>1. to \in Dirs /\ DiskOK /\ ProcsOK
  BY CmdOK DEF Types
<1>2. /\ disk[to] # NoDir /\ disk' = [disk EXCEPT ![to][f] = v]
      /\ Become(p, [proc[p] EXCEPT !.seen = @ \cup {f}])
  BY DEF PutFile
<1>3. disk[to] \in Contents /\ DOMAIN disk[to] = Parts
  BY <1>1, <1>2, DirKinds DEF DiskOK
<1>4. disk'[to] = [disk[to] EXCEPT ![f] = v] /\ \A d \in Dirs : d # to => disk'[d] = disk[d]
  BY <1>1, <1>2 DEF DiskOK
<1>5. disk'[to] # NoDir
  <2>1. DOMAIN disk'[to] = Parts
    BY <1>3, <1>4
  <2>2. DOMAIN NoDir = {} /\ InitFile \in Parts
    BY InstalledAssumption DEF NoDir
  <2> QED BY <2>1, <2>2
<1>6. disk'[to][f] = v /\ \A g \in Parts : g # f => disk'[to][g] = disk[to][g]
  BY <1>3, <1>4
<1>7. /\ proc'[p].pc = proc[p].pc /\ proc'[p].cmd = proc[p].cmd /\ proc'[p].src = proc[p].src
      /\ proc'[p].seen = proc[p].seen \cup {f} /\ proc'[p].before = proc[p].before
  BY <1>1, <1>2, Fields
<1> QED BY <1>2, <1>4, <1>5, <1>6, <1>7

\* The target directory is created and an archive extracted.
LEMMA InstallDuty ==
  ASSUME Types, NEW p \in Procs, Duty(p), Prepare(p) \/ Extract(p)
  PROVE  Duty(p)'
<1>1. ProcsOK /\ DiskOK /\ table' = table /\ configured' = configured /\ Going(proc[p]) /\ StoreOK
  BY DEF Types, ProcsOK, Prepare, Extract, SameRegistry
<1>2. CASE Prepare(p)
  <2> DEFINE pc == IF Cmd(p).op = "install" THEN "extract" ELSE "checkPath"
  <2>1. proc[p].pc = "prepare" /\ Goto(p, pc)
    BY <1>2 DEF Prepare, At
  <2>2. pc \in Pcs /\ pc \in {"extract", "checkPath"} /\ (pc = "extract" => Cmd(p).op = "install")
        /\ (Cmd(p).op = "install" => pc = "extract")
    BY DEF Pcs
  <2> HIDE DEF pc
  <2>3. /\ proc'[p].pc = pc /\ proc'[p].cmd = proc[p].cmd /\ proc'[p].src = proc[p].src
        /\ proc'[p].seen = {} /\ proc'[p].before = proc[p].before
    BY <1>1, <2>1, <2>2, Fields
  <2>4. Cmd(p)' = Cmd(p) /\ Src(p)' = Src(p) /\ NewName(p)' = NewName(p)
    BY <2>3 DEF Cmd, Src, NewName
  <2>5. Cmd(p).dir \in Dirs
    BY <1>1, <2>1, CmdOK
  <2>6. \A d \in Dirs : disk[d] # NoDir => disk'[d] = disk[d]
    BY <1>1, <1>2, <2>5 DEF Prepare, DiskOK
  <2>7. disk'[Cmd(p).dir] # NoDir
    BY <1>1, <1>2, <2>5, DirKinds DEF Prepare, DiskOK
  <2>8. ASSUME Cmd(p).op = "duplicate" PROVE Cmd(p).name \in DOMAIN table /\ Kept(p, table[Cmd(p).name])'
    <3>1. Cmd(p).name \in DOMAIN table /\ Kept(p, table[Cmd(p).name]) /\ table[Cmd(p).name] \in Dirs
      BY <1>1, <2>1, <2>8 DEF Duty, SourceKept, StoreOK
    <3> QED BY <1>1, <2>3, <2>4, <2>6, <3>1 DEF Kept
  <2>9. ASSUME Cmd(p).op = "move" PROVE Kept(p, Src(p))'
    <3>1. Kept(p, Src(p)) /\ Src(p) \in Dirs
      BY <1>1, <2>1, <2>9 DEF Duty, SourceKept, Going, Src, Cmd
    <3> QED BY <2>3, <2>4, <2>6, <3>1 DEF Kept
  <2>10. SourceKept(p)'
    BY <1>1, <2>2, <2>3, <2>4, <2>8, <2>9 DEF SourceKept, Kept
  <2>11. EntryKept(p)'
    BY <1>1, <2>1, <2>2, <2>3, <2>4 DEF Duty, EntryKept, Makes, Enrolled
  <2> QED BY <2>2, <2>3, <2>4, <2>7, <2>10, <2>11 DEF Duty, TargetKept
<1>3. CASE Extract(p)
  <2>1. /\ proc[p].pc = "extract" /\ Cmd(p).op = "install" /\ disk[Cmd(p).dir] # NoDir
        /\ \A f \in proc[p].seen : disk[Cmd(p).dir][f] = Image
    BY <1>3 DEF Extract, At, Duty, TargetKept
  <2>2. Enrolled(p) /\ NewName(p) \in configured
    BY <2>1 DEF Duty, EntryKept, Makes
  <2>3. CASE End(p, "error")
    BY <1>1, <2>3, FailedDuty
  <2>4. CASE SameDisk /\ End(p, "ok") /\ Parts \subseteq proc[p].seen
    <3>1. proc'[p].cmd = proc[p].cmd
      BY <1>1, <2>4, Fields
    <3>2. Cmd(p)' = Cmd(p) /\ NewName(p)' = NewName(p)
      BY <3>1 DEF Cmd, NewName
    <3>3. Whole(Cmd(p).dir, Image)
      BY <2>1, <2>4 DEF Whole
    <3>4. Complete(p)'
      BY <1>1, <2>1, <2>2, <2>4, <3>2, <3>3 DEF Complete, Enrolled, Whole, SameDisk
    <3> QED BY <1>1, <2>4, <3>4, SucceededDuty
  <2>5. CASE ~End(p, "error") /\ \E f \in Parts \ proc[p].seen : PutFile(p, f, Image)
    <3>1. PICK f \in Parts \ proc[p].seen : PutFile(p, f, Image)
      BY <2>5
    <3>2. /\ proc'[p].pc = "extract" /\ proc'[p].cmd = proc[p].cmd /\ proc'[p].seen = proc[p].seen \cup {f}
          /\ disk'[Cmd(p).dir] # NoDir /\ disk'[Cmd(p).dir][f] = Image
          /\ \A g \in Parts : g # f => disk'[Cmd(p).dir][g] = disk[Cmd(p).dir][g]
      BY <2>1, <2>5, <3>1, FileMade
    <3>3. Cmd(p)' = Cmd(p) /\ NewName(p)' = NewName(p)
      BY <3>2 DEF Cmd, NewName
    <3>4. \A g \in proc'[p].seen : disk'[Cmd(p).dir][g] = Image
      <4>1. proc[p].seen \subseteq Parts
        BY <1>1 DEF ProcsOK, Local
      <4> QED BY <2>1, <3>2, <4>1
    <3>5. EntryKept(p)'
      BY <1>1, <2>2, <3>2, <3>3 DEF EntryKept, Enrolled
    <3> QED BY <2>1, <3>2, <3>3, <3>4, <3>5 DEF Duty, SourceKept, TargetKept
  <2> QED BY <1>3, <2>3, <2>4, <2>5 DEF Extract
<1> QED BY <1>2, <1>3

\* The files are copied: what has been copied is what the source held at the beginning.
LEMMA CopyDuty ==
  ASSUME Types, NEW p \in Procs, Duty(p), Copy(p)
  PROVE  Duty(p)'
<1>1. ProcsOK /\ table' = table /\ configured' = configured /\ Going(proc[p]) /\ proc[p].pc = "copy"
  BY DEF Types, ProcsOK, Copy, SameRegistry, At
<1>2. /\ Src(p) \in Dirs /\ Cmd(p).dir \in Dirs /\ Src(p) # Cmd(p).dir /\ Cmd(p).op \in {"move", "duplicate"}
      /\ Kept(p, Src(p)) /\ proc[p].seen \subseteq Parts
      /\ \A f \in proc[p].seen : proc[p].before[f] # NoValue =>
           disk[Cmd(p).dir] # NoDir /\ disk[Cmd(p).dir][f] = proc[p].before[f]
  BY <1>1, CmdOK DEF ProcsOK, Local, Going, Src, Cmd, Duty, SourceKept, TargetKept
<1>3. Makes(p) => Enrolled(p) /\ NewName(p) \in configured
  BY <1>1 DEF Duty, EntryKept
<1>4. CASE End(p, "error")
  BY <1>1, <1>4, FailedDuty
<1>5. CASE ~End(p, "error") /\ \E f \in Holds(Src(p)) : PutFile(p, f, disk[Src(p)][f])
  <2>1. PICK f \in Holds(Src(p)) : PutFile(p, f, disk[Src(p)][f])
    BY <1>5
  <2>2. f \in Parts
    BY DEF Holds
  <2>3. /\ proc'[p].pc = "copy" /\ proc'[p].cmd = proc[p].cmd /\ proc'[p].src = proc[p].src
        /\ proc'[p].seen = proc[p].seen \cup {f} /\ proc'[p].before = proc[p].before
        /\ disk'[Cmd(p).dir] # NoDir /\ disk'[Cmd(p).dir][f] = disk[Src(p)][f]
        /\ \A g \in Parts : g # f => disk'[Cmd(p).dir][g] = disk[Cmd(p).dir][g]
    BY <1>1, <1>5, <2>1, <2>2, FileMade
  <2>4. disk'[Src(p)] = disk[Src(p)]
    BY <1>1, <1>2, <1>5, <2>1, <2>2, FileMade
  <2>5. Cmd(p)' = Cmd(p) /\ Src(p)' = Src(p) /\ NewName(p)' = NewName(p)
    BY <2>3 DEF Cmd, Src, NewName
  <2>6. SourceKept(p)'
    BY <1>2, <2>3, <2>4, <2>5 DEF SourceKept, Kept
  <2>7. ASSUME NEW g \in proc'[p].seen, proc[p].before[g] # NoValue
        PROVE  disk'[Cmd(p).dir][g] = proc[p].before[g]
    <3>1. CASE g = f
      BY <1>2, <2>2, <2>3, <2>7, <3>1 DEF Kept
    <3>2. CASE g # f
      BY <1>2, <2>3, <2>7, <3>2
    <3> QED BY <3>1, <3>2
  <2>8. TargetKept(p)'
    BY <1>2, <2>3, <2>5, <2>7 DEF TargetKept
  <2>9. EntryKept(p)'
    BY <1>1, <1>3, <2>3, <2>5 DEF EntryKept, Makes, Enrolled
  <2> QED BY <2>3, <2>6, <2>8, <2>9 DEF Duty
<1>6. CASE /\ SameDisk /\ Holds(Src(p)) \subseteq proc[p].seen
           /\ IF Cmd(p).op = "duplicate" THEN End(p, "ok") ELSE Goto(p, "delete")
  <2>1. Kept(p, Cmd(p).dir)
    <3>1. ASSUME NEW f \in Parts, proc[p].before[f] # NoValue PROVE f \in proc[p].seen
      BY <1>2, <1>6, <3>1 DEF Kept, Holds
    <3> QED BY <1>2, <3>1 DEF Kept
  <2>2. CASE Cmd(p).op = "duplicate"
    <3>1. End(p, "ok")
      BY <1>6, <2>2
    <3>2. proc'[p].cmd = proc[p].cmd /\ proc'[p].before = proc[p].before
      BY <1>1, <3>1, Fields
    <3>3. Cmd(p)' = Cmd(p) /\ NewName(p)' = NewName(p)
      BY <3>2 DEF Cmd, NewName
    <3>4. Complete(p)'
      BY <1>1, <1>3, <1>6, <2>1, <2>2, <3>2, <3>3 DEF Complete, Makes, Enrolled, Kept, SameDisk
    <3> QED BY <1>1, <3>1, <3>4, SucceededDuty
  <2>3. CASE Cmd(p).op = "move"
    <3>1. /\ proc'[p].pc = "delete" /\ proc'[p].cmd = proc[p].cmd /\ proc'[p].src = proc[p].src
          /\ proc'[p].before = proc[p].before
      BY <1>1, <1>6, <2>3, Fields DEF Pcs
    <3>2. Cmd(p)' = Cmd(p) /\ Src(p)' = Src(p)
      BY <3>1 DEF Cmd, Src
    <3>3. Kept(p, Cmd(p).dir)'
      BY <1>6, <2>1, <3>1, <3>2 DEF Kept, SameDisk
    <3> QED BY <1>2, <2>3, <3>1, <3>2, <3>3 DEF Duty, SourceKept, TargetKept, EntryKept
  <2> QED BY <1>2, <2>2, <2>3
<1> QED BY <1>4, <1>5, <1>6 DEF Copy

\* The source goes: by a deletion behind the copy, or by a renaming that takes it along.
LEMMA GoneDuty ==
  ASSUME Types, NEW p \in Procs, Duty(p), Delete(p) \/ Rename(p)
  PROVE  Duty(p)'
<1>1. /\ ProcsOK /\ DiskOK /\ table' = table /\ configured' = configured /\ Going(proc[p])
      /\ proc[p].pc \in {"delete", "rename"} /\ Src(p) \in Dirs
  BY DEF Types, ProcsOK, Delete, Rename, SameRegistry, At, Going, Src
<1>2. Cmd(p).dir \in Dirs
  BY <1>1, CmdOK
<1>3. CASE End(p, "error")
  BY <1>1, <1>3, FailedDuty
<1>4. CASE Delete(p) /\ ~End(p, "error") /\ Cmd(p).op = "move"
  <2>1. Src(p) # Cmd(p).dir /\ Kept(p, Cmd(p).dir) /\ proc[p].pc = "delete"
    BY <1>4 DEF Delete, At, Duty, TargetKept
  <2>2. disk'[Cmd(p).dir] = disk[Cmd(p).dir]
    BY <1>1, <1>2, <1>4, <2>1 DEF Delete, SameDisk, DiskOK
  <2>3. /\ proc'[p].pc \in {"delete", "relocate"} /\ proc'[p].cmd = proc[p].cmd /\ proc'[p].src = proc[p].src
        /\ proc'[p].before = proc[p].before
    <3>1. Goto(p, "relocate") \/ \E f : Become(p, [proc[p] EXCEPT !.seen = @ \cup {f}])
      BY <1>4 DEF Delete
    <3> QED BY <1>1, <2>1, <3>1, Fields DEF Pcs
  <2>4. Cmd(p)' = Cmd(p) /\ Src(p)' = Src(p)
    BY <2>3 DEF Cmd, Src
  <2>5. Kept(p, Cmd(p).dir)'
    BY <2>1, <2>2, <2>3, <2>4 DEF Kept
  <2> QED BY <1>4, <2>1, <2>3, <2>4, <2>5 DEF Duty, SourceKept, TargetKept, EntryKept
<1>5. CASE Delete(p) /\ ~End(p, "error") /\ Cmd(p).op # "move"
  <2>1. Cmd(p).op = "uninstall" /\ proc[p].pc = "delete" /\ Cmd(p).name \notin DOMAIN table
    BY <1>1, <1>5 DEF Delete, At, Going, Cmd, Duty, EntryKept
  <2>2. CASE End(p, "ok")
    <3>1. proc'[p].cmd = proc[p].cmd
      BY <1>1, <2>2, Fields
    <3>2. Cmd(p)' = Cmd(p)
      BY <3>1 DEF Cmd
    <3>3. Complete(p)'
      BY <1>1, <2>1, <3>2 DEF Complete, Makes
    <3> QED BY <1>1, <2>2, <3>3, SucceededDuty
  <2>3. CASE \E f : Become(p, [proc[p] EXCEPT !.seen = @ \cup {f}])
    <3>1. proc'[p].pc = "delete" /\ proc'[p].cmd = proc[p].cmd
      BY <1>1, <2>1, <2>3, Fields
    <3>2. Cmd(p)' = Cmd(p)
      BY <3>1 DEF Cmd
    <3> QED BY <1>1, <2>1, <3>1, <3>2 DEF Duty, SourceKept, TargetKept, EntryKept
  <2> QED BY <1>5, <2>2, <2>3 DEF Delete
<1>6. CASE Rename(p) /\ ~End(p, "error")
  <2>1. proc[p].pc = "rename" /\ Cmd(p).op = "move" /\ Kept(p, Src(p))
    BY <1>1, <1>6 DEF Rename, At, Going, Cmd, Duty, SourceKept
  <2>2. CASE SameDisk /\ Goto(p, "prepare")
    <3>1. /\ proc'[p].pc = "prepare" /\ proc'[p].cmd = proc[p].cmd /\ proc'[p].src = proc[p].src
          /\ proc'[p].before = proc[p].before
      BY <1>1, <2>2, Fields DEF Pcs
    <3>2. Cmd(p)' = Cmd(p) /\ Src(p)' = Src(p)
      BY <3>1 DEF Cmd, Src
    <3>3. Kept(p, Src(p))'
      BY <2>1, <2>2, <3>1, <3>2 DEF Kept, SameDisk
    <3> QED BY <2>1, <3>1, <3>2, <3>3 DEF Duty, SourceKept, TargetKept, EntryKept, Makes
  <2>3. CASE Goto(p, "relocate") /\ disk' = [d \in Dirs |-> IF d = Cmd(p).dir THEN disk[Src(p)]
                                                             ELSE IF d = Src(p) THEN NoDir ELSE disk[d]]
    <3>1. proc'[p].pc = "relocate" /\ proc'[p].cmd = proc[p].cmd /\ proc'[p].before = proc[p].before
      BY <1>1, <2>3, Fields DEF Pcs
    <3>2. Cmd(p)' = Cmd(p)
      BY <3>1 DEF Cmd
    <3>3. disk'[Cmd(p).dir] = disk[Src(p)]
      BY <1>2, <2>3
    <3>4. Kept(p, Cmd(p).dir)'
      BY <2>1, <3>1, <3>2, <3>3 DEF Kept
    <3> QED BY <3>1, <3>4 DEF Duty, SourceKept, TargetKept, EntryKept
  <2> QED BY <1>6, <2>2, <2>3 DEF Rename
<1> QED BY <1>3, <1>4, <1>5, <1>6

\* WSL, and steps that change nothing.
LEMMA StillDuty ==
  ASSUME NEW p \in Procs, Duty(p), UNCHANGED <<table, configured, disk, proc>>
  PROVE  Duty(p)'
<1>1. SourceKept(p)'
  BY DEF Duty, SourceKept, Kept, Cmd, Src
<1>2. TargetKept(p)'
  BY DEF Duty, TargetKept, Kept, Cmd, Src
<1>3. EntryKept(p)'
  BY DEF Duty, EntryKept, Makes, Enrolled, Cmd, NewName
<1>4. Complete(p) => Complete(p)'
  BY DEF Complete, Kept, Makes, Enrolled, Whole, Cmd, Src, NewName
<1> QED BY <1>1, <1>2, <1>3, <1>4 DEF Duty

\* Every step of the one process, and of WSL, keeps what the commands rely on.
LEMMA DutiesNext == Alone /\ Duties /\ [Next]_vars => Duties'
<1> SUFFICES ASSUME Alone, Duties, [Next]_vars PROVE Duties'
  OBVIOUS
<1>1. Types /\ Types' /\ ProcsOK
  BY TypesNext DEF Duties, Types
<1>2. ASSUME NEW p \in Procs, Duty(p)' PROVE Duties'
  BY <1>1, <1>2 DEF Alone, Duties
<1>3. ASSUME NEW p \in Procs, Issue(p) PROVE Duties'
  BY <1>1, <1>2, <1>3, IssueDuty
<1>4. ASSUME NEW p \in Procs, Step(p) PROVE Duties'
  <2>1. Duty(p)
    BY DEF Duties
  <2>2. Duty(p)'
    BY <1>1, <1>4, <2>1, RegistryDuty, LookDuty, InstallDuty, CopyDuty, GoneDuty DEF Step
  <2> QED BY <1>2, <2>2
<1>5. ASSUME NEW p \in Procs, Mishap(p) PROVE Duties'
  <2>1. End(p, "error") \/ End(p, "killed")
    BY <1>5 DEF Mishap
  <2> QED BY <1>1, <1>2, <2>1, FailedDuty
<1>6. CASE WslStart \/ WslStop \/ UNCHANGED vars
  <2>1. UNCHANGED <<table, configured, disk, proc>>
    BY <1>6 DEF WslStart, WslStop, vars
  <2> QED BY <1>1, <2>1, StillDuty DEF Duties
<1> QED BY <1>3, <1>4, <1>5, <1>6 DEF Next, Quiet

\* Nothing has been promised at the start.
LEMMA DutiesInit == Init => Duties
<1> SUFFICES ASSUME Init PROVE Duties
  OBVIOUS
<1>1. \A p \in Procs : proc[p].pc = "idle" /\ proc[p].outcome = "none"
  BY DEF Init, Rest
<1> QED BY <1>1, TypesInit DEF Duties, Duty, SourceKept, TargetKept, EntryKept

(* Where the command found the distribution is where it was when the command began; a
   distribution that is only forgotten is untouched, one that has been moved is gone. *)
Cleared(p) ==
    LET c == Cmd(p)  home == proc[p].home
    IN  /\ c.op = "uninstall" \/ (c.op = "move" /\ home # c.dir) => disk[home] = NoDir
        /\ c.op \in {"unregister", "duplicate"} => Kept(p, home)
Named(p) ==
    \/ proc[p].pc \in {"load", "checkRunning", "readDir"}
    \/ proc[p].pc \in {"register", "configure", "prepare", "checkPath"} /\ Cmd(p).op = "duplicate"
Sourced(p) ==
    \/ proc[p].pc \in {"rename", "copy", "delete"}
    \/ proc[p].pc \in {"prepare", "checkPath"} /\ Cmd(p).op = "move"
    \/ proc[p].pc = "unregister" /\ Cmd(p).op = "uninstall"
HomeKept(p) ==
    /\ Named(p) /\ Cmd(p).name \in DOMAIN table => table[Cmd(p).name] = proc[p].home
    /\ Sourced(p) => Src(p) = proc[p].home
    /\ proc[p].pc = "relocate" /\ proc[p].home # Cmd(p).dir => disk[proc[p].home] = NoDir
    /\ proc[p].pc = "unregister" /\ Cmd(p).op = "unregister" /\ Cmd(p).name \in DOMAIN table =>
         Kept(p, proc[p].home)
    /\ proc[p].pc = "idle" /\ proc[p].outcome = "ok" => Cleared(p)
Homes == Duties /\ \A p \in Procs : HomeKept(p)

\* What a step of a process leaves of what was remembered for it.
LEMMA HomeFields ==
  ASSUME ProcsOK, NEW p \in Procs
  PROVE  /\ \A pc \in Pcs : Goto(p, pc) =>
              /\ proc'[p].pc = pc /\ Cmd(p)' = Cmd(p) /\ Src(p)' = Src(p)
              /\ proc'[p].home = proc[p].home /\ proc'[p].before = proc[p].before
         /\ \A outcome : End(p, outcome) =>
              /\ proc'[p].pc = "idle" /\ proc'[p].outcome = outcome /\ Cmd(p)' = Cmd(p)
              /\ proc'[p].home = proc[p].home /\ proc'[p].before = proc[p].before
         /\ \A f : Become(p, [proc[p] EXCEPT !.seen = @ \cup {f}]) =>
              /\ proc'[p].pc = proc[p].pc /\ Cmd(p)' = Cmd(p) /\ Src(p)' = Src(p)
              /\ proc'[p].home = proc[p].home /\ proc'[p].before = proc[p].before
<1>1. proc[p] \in Local /\ \A l : Become(p, l) => proc'[p] = l
  BY DEF ProcsOK, Become
<1>2. ASSUME NEW pc \in Pcs, Goto(p, pc) PROVE proc'[p].home = proc[p].home
  <2>1. proc'[p] = [proc[p] EXCEPT !.pc = pc, !.seen = {}]
    BY <1>1, <1>2 DEF Goto
  <2> QED BY <1>1, <2>1 DEF Local
<1>3. ASSUME NEW outcome, End(p, outcome) PROVE proc'[p].home = proc[p].home
  BY <1>1, <1>3 DEF End, Rest
<1>4. ASSUME NEW f, Become(p, [proc[p] EXCEPT !.seen = @ \cup {f}]) PROVE proc'[p].home = proc[p].home
  <2>1. proc'[p] = [proc[p] EXCEPT !.seen = @ \cup {f}]
    BY <1>1, <1>4
  <2> QED BY <1>1, <2>1 DEF Local
<1> QED BY <1>2, <1>3, <1>4, Fields DEF Cmd, Src

\* A command that has ended without success has nothing to show.
LEMMA FailedHome ==
  ASSUME ProcsOK, NEW p \in Procs, NEW outcome, outcome # "ok", End(p, outcome)
  PROVE  HomeKept(p)'
<1>1. proc'[p].pc = "idle" /\ proc'[p].outcome # "ok"
  BY HomeFields
<1> QED BY <1>1 DEF HomeKept, Named, Sourced

\* One that has succeeded shows what Cleared says.
LEMMA SucceededHome ==
  ASSUME ProcsOK, NEW p \in Procs, End(p, "ok"), Cleared(p)'
  PROVE  HomeKept(p)'
<1>1. proc'[p].pc = "idle"
  BY HomeFields
<1> QED BY <1>1 DEF HomeKept, Named, Sourced

\* A command begins with the directory that the table has for the distribution.
LEMMA IssueHome ==
  ASSUME Types, NEW p \in Procs, Issue(p)
  PROVE  HomeKept(p)'
<1> DEFINE Pc(cmd) == CASE cmd.op = "install"    -> "register"
                        [] cmd.op = "register"   -> "detect"
                        [] cmd.op = "unregister" -> "unregister"
                        [] cmd.op = "duplicate"  -> "load"
                        [] OTHER                 -> "checkRunning"
           Where(cmd) == IF cmd.name \in DOMAIN table THEN table[cmd.name] ELSE NoValue
           Was(cmd) == IF cmd.name \in DOMAIN table /\ disk[table[cmd.name]] # NoDir
                       THEN disk[table[cmd.name]] ELSE Empty
<1>1. PICK cmd \in Commands : Become(p, [Rest(cmd, "none", Where(cmd), Was(cmd)) EXCEPT !.pc = Pc(cmd)])
  BY DEF Issue
<1>2. /\ Pc(cmd) \in {"register", "detect", "unregister", "load", "checkRunning"}
      /\ Pc(cmd) = "register" => cmd.op = "install"
      /\ Pc(cmd) = "unregister" => cmd.op = "unregister"
  <2>1. cmd.op \in {"install", "register", "unregister", "uninstall", "move", "duplicate"}
    BY InstalledAssumption DEF Commands
  <2> QED BY <2>1
<1> HIDE DEF Pc
<1>3. proc'[p] = [pc |-> Pc(cmd), cmd |-> cmd, src |-> NoValue, seen |-> {}, outcome |-> "none",
                  home |-> Where(cmd), before |-> Was(cmd)]
  BY <1>1 DEF Rest, Become, Types, ProcsOK
<1> HIDE DEF Was
<1>4. proc'[p].pc = Pc(cmd) /\ Cmd(p)' = cmd /\ proc'[p].home = Where(cmd) /\ proc'[p].before = Was(cmd)
  BY <1>3 DEF Cmd
<1>5. table' = table /\ disk' = disk
  BY DEF Issue
<1>6. ASSUME cmd.name \in DOMAIN table
      PROVE  proc'[p].home = table[cmd.name] /\ Kept(p, proc[p].home)'
  <2>1. proc'[p].home = table[cmd.name]
    BY <1>4, <1>6
  <2>2. ASSUME NEW f \in Parts, Was(cmd)[f] # NoValue
        PROVE  disk[table[cmd.name]] # NoDir /\ disk[table[cmd.name]][f] = Was(cmd)[f]
    BY <1>6, <2>2 DEF Was, Empty
  <2> HIDE DEF Where
  <2> QED BY <1>4, <1>5, <2>1, <2>2 DEF Kept
<1> HIDE DEF Where
<1>7. ~Sourced(p)'
  BY <1>2, <1>4 DEF Sourced
<1>8. proc'[p].pc # "idle" /\ proc'[p].pc # "relocate"
  BY <1>2, <1>4
<1> QED BY <1>4, <1>5, <1>6, <1>7, <1>8 DEF HomeKept

\* Steps on the registry.
LEMMA RegistryHome ==
  ASSUME Types, NEW p \in Procs, Duty(p), HomeKept(p),
         RegisterDistro(p) \/ Configure(p) \/ SetDistroDir(p) \/ UnregisterDistro(p)
  PROVE  HomeKept(p)'
<1>1. ProcsOK /\ disk' = disk /\ Going(proc[p])
  BY DEF Types, ProcsOK, RegisterDistro, Configure, SetDistroDir, UnregisterDistro, SameDisk
<1>2. CASE End(p, "error")
  BY <1>1, <1>2, FailedHome
<1>3. CASE RegisterDistro(p) /\ ~End(p, "error")
  <2>1. proc[p].pc = "register" /\ Register(NewName(p), Cmd(p).dir) /\ Goto(p, "configure")
    BY <1>3 DEF RegisterDistro, At
  <2>2. /\ proc'[p].pc = "configure" /\ Cmd(p)' = Cmd(p) /\ proc'[p].home = proc[p].home
    BY <1>1, <2>1, HomeFields DEF Pcs
  <2>3. ASSUME Cmd(p).op = "duplicate" PROVE table'[Cmd(p).name] = proc[p].home
    <3>1. Cmd(p).name \in DOMAIN table
      BY <2>1, <2>3 DEF Duty, SourceKept
    <3>2. table[Cmd(p).name] = proc[p].home
      BY <2>1, <2>3, <3>1 DEF HomeKept, Named
    <3> QED BY <2>1, <3>1, <3>2 DEF Register
  <2> QED BY <2>2, <2>3 DEF HomeKept, Named, Sourced
<1>4. CASE Configure(p) /\ ~End(p, "error")
  <2>1. /\ proc[p].pc = "configure" /\ table' = table
        /\ IF Cmd(p).op = "register" THEN End(p, "ok") ELSE Goto(p, "prepare")
    BY <1>4 DEF Configure, At, store
  <2>2. CASE Cmd(p).op = "register"
    <3>1. Cmd(p)' = Cmd(p)
      BY <1>1, <2>1, <2>2, HomeFields
    <3>2. Cleared(p)'
      BY <2>2, <3>1 DEF Cleared
    <3> QED BY <1>1, <2>1, <2>2, <3>2, SucceededHome
  <2>3. CASE Cmd(p).op # "register"
    <3>1. proc'[p].pc = "prepare" /\ Cmd(p)' = Cmd(p) /\ proc'[p].home = proc[p].home
      BY <1>1, <2>1, <2>3, HomeFields DEF Pcs
    <3>2. Cmd(p).op # "move"
      BY <1>1, <2>1 DEF Going, Cmd
    <3> QED BY <2>1, <3>1, <3>2 DEF HomeKept, Named, Sourced
  <2> QED BY <2>2, <2>3
<1>5. CASE SetDistroDir(p) /\ ~End(p, "error")
  <2>1. proc[p].pc = "relocate" /\ End(p, "ok") /\ Cmd(p).op = "move"
    BY <1>1, <1>5 DEF SetDistroDir, At, Going, Cmd
  <2>2. Cmd(p)' = Cmd(p) /\ proc'[p].home = proc[p].home
    BY <1>1, <2>1, HomeFields
  <2>3. Cleared(p)'
    BY <1>1, <2>1, <2>2 DEF HomeKept, Cleared
  <2> QED BY <1>1, <2>1, <2>3, SucceededHome
<1>6. CASE UnregisterDistro(p) /\ ~End(p, "error")
  <2>1. /\ proc[p].pc = "unregister" /\ Cmd(p).name \in DOMAIN table
        /\ Cmd(p).op \in {"unregister", "uninstall"}
        /\ IF Cmd(p).op = "uninstall" THEN Goto(p, "delete") ELSE End(p, "ok")
    BY <1>1, <1>6 DEF UnregisterDistro, At, Unregister, Going, Cmd
  <2>2. CASE Cmd(p).op = "uninstall"
    <3>1. /\ proc'[p].pc = "delete" /\ Cmd(p)' = Cmd(p) /\ Src(p)' = Src(p)
          /\ proc'[p].home = proc[p].home
      BY <1>1, <2>1, <2>2, HomeFields DEF Pcs
    <3> QED BY <2>1, <2>2, <3>1 DEF HomeKept, Named, Sourced
  <2>3. CASE Cmd(p).op = "unregister"
    <3>1. End(p, "ok")
      BY <2>1, <2>3
    <3>2. /\ Cmd(p)' = Cmd(p) /\ proc'[p].home = proc[p].home /\ proc'[p].before = proc[p].before
      BY <1>1, <3>1, HomeFields
    <3>3. Kept(p, proc[p].home)
      BY <2>1, <2>3 DEF HomeKept
    <3>4. Cleared(p)'
      BY <1>1, <2>3, <3>2, <3>3 DEF Cleared, Kept
    <3> QED BY <1>1, <3>1, <3>4, SucceededHome
  <2> QED BY <2>1, <2>2, <2>3
<1> QED BY <1>2, <1>3, <1>4, <1>5, <1>6

\* Steps that only look.
LEMMA LookHome ==
  ASSUME Types, NEW p \in Procs, HomeKept(p),
         Detect(p) \/ Load(p) \/ CheckPath(p) \/ CheckRunning(p) \/ ReadDir(p)
  PROVE  HomeKept(p)'
<1>1. ProcsOK /\ disk' = disk /\ table' = table /\ Going(proc[p]) /\ proc[p] \in Local
  BY DEF Types, ProcsOK, Detect, Load, CheckPath, CheckRunning, ReadDir, SameDisk, SameRegistry
<1>2. CASE End(p, "error") \/ End(p, "rejected")
  BY <1>1, <1>2, FailedHome
<1>3. CASE Detect(p) /\ ~End(p, "error")
  <2>1. Goto(p, "register") /\ Cmd(p).op = "register"
    BY <1>1, <1>3 DEF Detect, At, Going, Cmd
  <2>2. proc'[p].pc = "register" /\ Cmd(p)' = Cmd(p)
    BY <1>1, <2>1, HomeFields DEF Pcs
  <2> QED BY <2>1, <2>2 DEF HomeKept, Named, Sourced
<1>4. CASE Load(p) /\ ~End(p, "error")
  <2>1. Goto(p, "register") /\ proc[p].pc = "load"
    BY <1>4 DEF Load, At
  <2>2. proc'[p].pc = "register" /\ Cmd(p)' = Cmd(p) /\ proc'[p].home = proc[p].home
    BY <1>1, <2>1, HomeFields DEF Pcs
  <2> QED BY <1>1, <2>1, <2>2 DEF HomeKept, Named, Sourced
<1>5. CASE CheckRunning(p) /\ ~End(p, "error")
  <2>1. Goto(p, "readDir") /\ proc[p].pc = "checkRunning"
    BY <1>5 DEF CheckRunning, At
  <2>2. proc'[p].pc = "readDir" /\ Cmd(p)' = Cmd(p) /\ proc'[p].home = proc[p].home
    BY <1>1, <2>1, HomeFields DEF Pcs
  <2> QED BY <1>1, <2>1, <2>2 DEF HomeKept, Named, Sourced
<1>6. CASE ReadDir(p) /\ ~End(p, "error")
  <2> DEFINE pc == IF Cmd(p).op = "move" THEN "rename" ELSE "unregister"
  <2>1. /\ proc[p].pc = "readDir" /\ Cmd(p).name \in DOMAIN table
        /\ proc'[p] = [proc[p] EXCEPT !.src = table[Cmd(p).name], !.pc = pc]
    BY <1>1, <1>6 DEF ReadDir, At, Become, ProcsOK
  <2>2. pc \in {"rename", "unregister"} /\ (pc = "unregister" => Cmd(p).op = "uninstall")
    BY <1>1, <2>1 DEF Going, Cmd
  <2> HIDE DEF pc
  <2>3. /\ proc'[p].pc = pc /\ proc'[p].src = table[Cmd(p).name] /\ proc'[p].cmd = proc[p].cmd
        /\ proc'[p].home = proc[p].home
    BY <1>1, <2>1 DEF Local
  <2>4. Cmd(p)' = Cmd(p) /\ Src(p)' = table[Cmd(p).name]
    BY <2>3 DEF Cmd, Src
  <2>5. table[Cmd(p).name] = proc[p].home
    BY <2>1 DEF HomeKept, Named
  <2> QED BY <2>2, <2>3, <2>4, <2>5 DEF HomeKept, Named, Sourced
<1>7. CASE CheckPath(p) /\ ~End(p, "error") /\ ~End(p, "rejected")
  <2> DEFINE src == IF Cmd(p).op = "duplicate" THEN table[Cmd(p).name] ELSE Src(p)
  <2>1. /\ proc[p].pc = "checkPath" /\ (Cmd(p).op = "duplicate" => Cmd(p).name \in DOMAIN table)
        /\ proc'[p] = [proc[p] EXCEPT !.pc = "copy", !.src = src, !.seen = {}]
    BY <1>1, <1>7 DEF CheckPath, At, Become, ProcsOK
  <2>2. src = proc[p].home
    <3>1. Cmd(p).op \in {"move", "duplicate"}
      BY <1>1, <2>1 DEF Going, Cmd
    <3> QED BY <2>1, <3>1 DEF HomeKept, Named, Sourced
  <2> HIDE DEF src
  <2>3. proc'[p].pc = "copy" /\ proc'[p].src = src /\ proc'[p].home = proc[p].home
    BY <1>1, <2>1 DEF Local
  <2> QED BY <2>2, <2>3 DEF HomeKept, Named, Sourced, Src
<1> QED BY <1>2, <1>3, <1>4, <1>5, <1>6, <1>7

\* Steps that put files into the target, or make it.
LEMMA FilesHome ==
  ASSUME Types, NEW p \in Procs, Duty(p), HomeKept(p), Prepare(p) \/ Extract(p) \/ Copy(p)
  PROVE  HomeKept(p)'
<1>1. ProcsOK /\ table' = table /\ Going(proc[p])
  BY DEF Types, ProcsOK, Prepare, Extract, Copy, SameRegistry
<1>2. CASE End(p, "error")
  BY <1>1, <1>2, FailedHome
<1>3. CASE Prepare(p)
  <2> DEFINE pc == IF Cmd(p).op = "install" THEN "extract" ELSE "checkPath"
  <2>1. proc[p].pc = "prepare" /\ Goto(p, pc) /\ pc \in Pcs /\ pc \in {"extract", "checkPath"}
    BY <1>3 DEF Prepare, At, Pcs
  <2> HIDE DEF pc
  <2>2. /\ proc'[p].pc = pc /\ Cmd(p)' = Cmd(p) /\ Src(p)' = Src(p) /\ proc'[p].home = proc[p].home
    BY <1>1, <2>1, HomeFields
  <2>3. Named(p)' => Named(p)
    BY <2>1, <2>2 DEF Named
  <2>4. Sourced(p)' => Sourced(p)
    BY <2>1, <2>2 DEF Sourced
  <2> QED BY <1>1, <2>1, <2>2, <2>3, <2>4 DEF HomeKept
<1>4. ASSUME ~End(p, "error"), Extract(p) \/ Copy(p),
             NEW f, Become(p, [proc[p] EXCEPT !.seen = @ \cup {f}])
      PROVE  HomeKept(p)'
  <2>1. proc[p].pc \in {"extract", "copy"}
    BY <1>4 DEF Extract, Copy, At
  <2>2. /\ proc'[p].pc = proc[p].pc /\ Src(p)' = Src(p) /\ proc'[p].home = proc[p].home
    BY <1>1, <1>4, HomeFields
  <2> QED BY <2>1, <2>2 DEF HomeKept, Named, Sourced
<1>5. CASE Extract(p) /\ End(p, "ok")
  <2>1. Cmd(p)' = Cmd(p) /\ Cmd(p).op = "install"
    BY <1>1, <1>5, HomeFields DEF Extract, At, Duty, TargetKept
  <2>2. Cleared(p)'
    BY <2>1 DEF Cleared
  <2> QED BY <1>1, <1>5, <2>2, SucceededHome
<1>6. CASE /\ proc[p].pc = "copy" /\ SameDisk
           /\ IF Cmd(p).op = "duplicate" THEN End(p, "ok") ELSE Goto(p, "delete")
  <2>1. Src(p) = proc[p].home /\ Kept(p, Src(p))
    BY <1>6 DEF HomeKept, Sourced, Duty, SourceKept
  <2>2. CASE Cmd(p).op = "duplicate"
    <3>1. Cmd(p)' = Cmd(p) /\ proc'[p].home = proc[p].home /\ proc'[p].before = proc[p].before
      BY <1>1, <1>6, <2>2, HomeFields
    <3>2. Kept(p, proc[p].home)'
      BY <1>6, <2>1, <3>1 DEF Kept, SameDisk
    <3>3. Cleared(p)'
      BY <2>2, <3>1, <3>2 DEF Cleared
    <3> QED BY <1>1, <1>6, <2>2, <3>3, SucceededHome
  <2>3. CASE Cmd(p).op # "duplicate"
    <3>1. proc'[p].pc = "delete" /\ Src(p)' = Src(p) /\ proc'[p].home = proc[p].home
      BY <1>1, <1>6, <2>3, HomeFields DEF Pcs
    <3> QED BY <2>1, <3>1 DEF HomeKept, Named, Sourced
  <2> QED BY <2>2, <2>3
<1>7. CASE Extract(p) /\ ~End(p, "error")
  <2>1. End(p, "ok") \/ \E f : Become(p, [proc[p] EXCEPT !.seen = @ \cup {f}])
    BY <1>7 DEF Extract, PutFile
  <2> QED BY <1>4, <1>5, <1>7, <2>1
<1>8. CASE Copy(p) /\ ~End(p, "error")
  <2>1. \/ \E f : Become(p, [proc[p] EXCEPT !.seen = @ \cup {f}])
        \/ SameDisk /\ IF Cmd(p).op = "duplicate" THEN End(p, "ok") ELSE Goto(p, "delete")
    BY <1>8 DEF Copy, PutFile
  <2>2. proc[p].pc = "copy"
    BY <1>8 DEF Copy, At
  <2> QED BY <1>4, <1>6, <1>8, <2>1, <2>2
<1> QED BY <1>2, <1>3, <1>7, <1>8

\* The source goes: what is deleted or renamed is the directory the command began with.
LEMMA GoneHome ==
  ASSUME Types, NEW p \in Procs, HomeKept(p), Delete(p) \/ Rename(p)
  PROVE  HomeKept(p)'
<1>1. /\ ProcsOK /\ DiskOK /\ table' = table /\ Going(proc[p]) /\ Src(p) \in Dirs
      /\ proc[p].pc \in {"delete", "rename"} /\ Src(p) = proc[p].home
  BY DEF Types, ProcsOK, Delete, Rename, SameRegistry, At, Going, Src, HomeKept, Sourced
<1>2. CASE End(p, "error")
  BY <1>1, <1>2, FailedHome
<1>3. CASE \E f : Become(p, [proc[p] EXCEPT !.seen = @ \cup {f}])
  <2>1. proc'[p].pc = proc[p].pc /\ Src(p)' = Src(p) /\ proc'[p].home = proc[p].home
    BY <1>1, <1>3, HomeFields
  <2> QED BY <1>1, <2>1 DEF HomeKept, Named, Sourced
<1>4. CASE /\ proc[p].pc = "delete" /\ disk' = [disk EXCEPT ![Src(p)] = NoDir]
           /\ IF Cmd(p).op = "move" THEN Goto(p, "relocate") ELSE End(p, "ok")
  <2>1. disk'[proc[p].home] = NoDir
    BY <1>1, <1>4 DEF DiskOK
  <2>2. CASE Cmd(p).op = "move"
    <3>1. proc'[p].pc = "relocate" /\ proc'[p].home = proc[p].home
      BY <1>1, <1>4, <2>2, HomeFields DEF Pcs
    <3> QED BY <2>1, <3>1 DEF HomeKept, Named, Sourced
  <2>3. CASE Cmd(p).op # "move"
    <3>1. Cmd(p)' = Cmd(p) /\ proc'[p].home = proc[p].home /\ Cmd(p).op = "uninstall"
      BY <1>1, <1>4, <2>3, HomeFields DEF Going, Cmd
    <3>2. Cleared(p)'
      BY <2>1, <3>1 DEF Cleared
    <3> QED BY <1>1, <1>4, <2>3, <3>2, SucceededHome
  <2> QED BY <2>2, <2>3
<1>5. CASE Goto(p, "relocate") /\ disk' = [d \in Dirs |-> IF d = Cmd(p).dir THEN disk[Src(p)]
                                                           ELSE IF d = Src(p) THEN NoDir ELSE disk[d]]
  <2>1. proc'[p].pc = "relocate" /\ Cmd(p)' = Cmd(p) /\ proc'[p].home = proc[p].home
    BY <1>1, <1>5, HomeFields DEF Pcs
  <2>2. proc[p].home # Cmd(p).dir => disk'[proc[p].home] = NoDir
    BY <1>1, <1>5
  <2> QED BY <2>1, <2>2 DEF HomeKept, Named, Sourced
<1>6. CASE proc[p].pc = "rename" /\ Goto(p, "prepare")
  <2>1. /\ proc'[p].pc = "prepare" /\ Cmd(p)' = Cmd(p) /\ Src(p)' = Src(p)
        /\ proc'[p].home = proc[p].home /\ Cmd(p).op = "move"
    BY <1>1, <1>6, HomeFields DEF Pcs, Going, Cmd
  <2> QED BY <1>1, <2>1 DEF HomeKept, Named, Sourced
<1>7. Delete(p) /\ ~End(p, "error") =>
        \/ \E f : Become(p, [proc[p] EXCEPT !.seen = @ \cup {f}])
        \/ /\ proc[p].pc = "delete" /\ disk' = [disk EXCEPT ![Src(p)] = NoDir]
           /\ IF Cmd(p).op = "move" THEN Goto(p, "relocate") ELSE End(p, "ok")
  BY DEF Delete, At
<1>8. Rename(p) /\ ~End(p, "error") =>
        \/ Goto(p, "relocate") /\ disk' = [d \in Dirs |-> IF d = Cmd(p).dir THEN disk[Src(p)]
                                                          ELSE IF d = Src(p) THEN NoDir ELSE disk[d]]
        \/ proc[p].pc = "rename" /\ Goto(p, "prepare")
  BY DEF Rename, At
<1> QED BY <1>2, <1>3, <1>4, <1>5, <1>6, <1>7, <1>8

\* Every step of the one process, and of WSL, keeps what is said of the source.
LEMMA HomesNext == Alone /\ Homes /\ [Next]_vars => Homes'
<1> SUFFICES ASSUME Alone, Homes, [Next]_vars PROVE Homes'
  OBVIOUS
<1>1. Types /\ ProcsOK /\ Duties /\ Duties'
  BY DutiesNext DEF Homes, Duties, Types
<1>2. ASSUME NEW p \in Procs, HomeKept(p)' PROVE Homes'
  BY <1>1, <1>2 DEF Alone, Homes
<1>3. ASSUME NEW p \in Procs, Issue(p) PROVE Homes'
  BY <1>1, <1>2, <1>3, IssueHome
<1>4. ASSUME NEW p \in Procs, Step(p) PROVE Homes'
  <2>1. Duty(p) /\ HomeKept(p)
    BY DEF Homes, Duties
  <2>2. HomeKept(p)'
    BY <1>1, <1>4, <2>1, RegistryHome, LookHome, FilesHome, GoneHome DEF Step
  <2> QED BY <1>2, <2>2
<1>5. ASSUME NEW p \in Procs, Mishap(p) PROVE Homes'
  <2>1. End(p, "error") \/ End(p, "killed")
    BY <1>5 DEF Mishap
  <2> QED BY <1>1, <1>2, <1>5, <2>1, FailedHome
<1>6. CASE WslStart \/ WslStop \/ UNCHANGED vars
  <2>1. UNCHANGED <<table, disk, proc>>
    BY <1>6 DEF WslStart, WslStop, vars
  <2>2. ASSUME NEW p \in Procs PROVE HomeKept(p)'
    <3>1. HomeKept(p)
      BY DEF Homes
    <3> QED BY <2>1, <3>1 DEF HomeKept, Named, Sourced, Cleared, Kept, Cmd, Src
  <2> QED BY <1>1, <2>2 DEF Homes
<1> QED BY <1>3, <1>4, <1>5, <1>6 DEF Next, Quiet

\* Nothing is said at the start.
LEMMA HomesInit == Init => Homes
<1> SUFFICES ASSUME Init PROVE Homes
  OBVIOUS
<1>1. \A p \in Procs : proc[p].pc = "idle" /\ proc[p].outcome = "none"
  BY DEF Init, Rest
<1> QED BY <1>1, DutiesInit DEF Homes, HomeKept, Named, Sourced

\* As long as nobody else runs this program, and whatever WSL starts and stops in the
\* meantime, whatever earlier commands have left behind when a call failed or the process
\* was killed: a command that reports success has done all of its work on both sides; the
\* directory of an uninstalled or moved distribution is gone, that of an unregistered or
\* duplicated one is untouched.
THEOREM SuccessIsTrue == Alone /\ Spec => []SuccessIsComplete
<1>1. Homes => SuccessIsComplete
  <2> SUFFICES ASSUME Homes, NEW p \in Procs, proc[p].pc = "idle", proc[p].outcome = "ok"
               PROVE  LET c == Cmd(p)  home == proc[p].home
                      IN  /\ c.op \in {"uninstall", "unregister"} => c.name \notin DOMAIN table
                          /\ c.op \notin {"uninstall", "unregister"} =>
                               NewName(p) \in DOMAIN table /\ table[NewName(p)] = c.dir
                          /\ c.op \in {"install", "register", "duplicate"} => NewName(p) \in configured
                          /\ c.op = "install" => Whole(c.dir, Image)
                          /\ c.op \in {"move", "duplicate"} => Kept(p, c.dir)
                          /\ c.op = "uninstall" \/ (c.op = "move" /\ home # c.dir) => disk[home] = NoDir
                          /\ c.op \in {"unregister", "duplicate"} => Kept(p, home)
    BY DEF SuccessIsComplete
  <2>1. Complete(p) /\ Cleared(p)
    BY DEF Homes, Duties, Duty, HomeKept
  <2> QED BY <2>1 DEF Complete, Cleared, Makes, Enrolled
<1>2. CASE Alone
  <2>1. Homes /\ [Next]_vars => Homes'
    BY <1>2, HomesNext
  <2> QED BY <1>1, <2>1, HomesInit, PTL DEF Spec
<1>3. CASE ~Alone
  BY <1>3
<1> QED BY <1>2, <1>3
=============================================================================
