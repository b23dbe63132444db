------------------------------ MODULE Commands ------------------------------
(***************************************************************************)
(* The commands of main.cpp that change both the registry and the disk.    *)
(* Registry operations are those of DistroStore (reg.cpp keeps that        *)
(* promise for one process); a directory is what it holds of the files of  *)
(* a distribution.  Processes of LxRunOffline.exe and WSL itself           *)
(* interleave between the calls.                                           *)
(***************************************************************************)
EXTENDS DistroStore, Naturals, FiniteSets

CONSTANTS
    Procs,          \* running LxRunOffline processes
    Ops,            \* the commands issued in this instance
    Installed,      \* the names registered at the start
    RootDirs,       \* directories that are the root of a drive
    Parts, InitFile,\* files of a distribution; rootfs\init, the one WSL keeps open
    OneDrive,       \* whether the directories are on one drive
    Image,          \* the contents of the archive "install" extracts
    MaxCommands, MaxMishaps     \* bounds, as in Registry

ASSUME InstalledAssumption ==
    /\ OneDrive \in BOOLEAN /\ Installed \subseteq Names /\ RootDirs \subseteq Dirs /\ InitFile \in Parts
    /\ NoValue \notin Names /\ MaxCommands \in Nat /\ MaxMishaps \in Nat
    /\ Ops \subseteq {"install", "register", "unregister", "uninstall", "move", "duplicate"}

VARIABLES
    configured,     \* names whose key holds the values of configure_distro
    disk,           \* what each directory holds
    running,        \* directories of distributions with running processes
    proc, issued, mishaps

vars == <<table, chosen, configured, disk, running, proc, issued, mishaps>>

Contents == [Parts -> Names \cup {Image, NoValue}]      \* whose copy of each file
Empty == [f \in Parts |-> NoValue]
NoDir == [f \in {} |-> NoValue]                      \* there is no such directory
Holds(d) == IF disk[d] = NoDir THEN {} ELSE {f \in Parts : disk[d][f] # NoValue}

Commands == [op : Ops, name : Names, dir : Dirs, new : Names]
NoCommand == [op |-> "none", name |-> NoValue, dir |-> NoValue, new |-> NoValue]

Rest(cmd, outcome, home, before) ==
    [pc |-> "idle", cmd |-> cmd, src |-> NoValue, seen |-> {},
     outcome |-> outcome, home |-> home, before |-> before]

(* Every installed distribution has a directory of its own, with all its files. *)
Init ==
    /\ table \in [Installed -> Dirs]
    /\ \A m, n \in Installed : table[m] = table[n] => m = n
    /\ chosen \in Installed \cup {NoValue}
    /\ configured = Installed
    /\ disk = [d \in Dirs |-> IF \E n \in Installed : table[n] = d
                              THEN [f \in Parts |-> CHOOSE n \in Installed : table[n] = d]
                              ELSE NoDir]
    /\ running = {}
    /\ proc = [p \in Procs |-> Rest(NoCommand, "none", NoValue, Empty)]
    /\ issued = 0 /\ mishaps = 0

-----------------------------------------------------------------------------
Cmd(p) == proc[p].cmd
Src(p) == proc[p].src
NewName(p) == IF Cmd(p).op = "duplicate" THEN Cmd(p).new ELSE Cmd(p).name

Become(p, local) == proc' = [proc EXCEPT ![p] = local]
Goto(p, pc) == Become(p, [proc[p] EXCEPT !.pc = pc, !.seen = {}])
End(p, outcome) == Become(p, Rest(Cmd(p), outcome, proc[p].home, proc[p].before))
At(p, pc) == proc[p].pc = pc /\ UNCHANGED <<running, issued, mishaps>>
SameDisk == disk' = disk
SameRegistry == UNCHANGED <<table, chosen, configured>>

(* For the properties, "home" and "before" remember where the named distribution was
   when the command began and what it held; no step reads them. *)
Issue(p) ==
    /\ proc[p].pc = "idle"
    /\ issued < MaxCommands /\ issued' = issued + 1
    /\ \E cmd \in Commands :
         /\ cmd.op # "duplicate" => cmd.new = cmd.name
         /\ Become(p, [Rest(cmd, "none", IF cmd.name \in DOMAIN table THEN table[cmd.name] ELSE NoValue,
                                         IF cmd.name \in DOMAIN table /\ disk[table[cmd.name]] # NoDir
                                         THEN disk[table[cmd.name]] ELSE Empty)
                EXCEPT !.pc = CASE cmd.op = "install"    -> "register"
                                [] cmd.op = "register"   -> "detect"
                                [] cmd.op = "unregister" -> "unregister"
                                [] cmd.op = "duplicate"  -> "load"
                                [] OTHER                 -> "checkRunning"])
    /\ UNCHANGED <<table, chosen, configured, disk, running, mishaps>>

(* "register": detect_wsl2 looks for the disk image of WSL 2, detect_version at attributes
   of rootfs and home themselves.  Neither looks at the files below, so that any
   directory that exists, also a part of one, may be taken or refused. *)
Detect(p) ==
    /\ At(p, "detect") /\ SameRegistry /\ SameDisk
    /\ \/ disk[Cmd(p).dir] # NoDir /\ Goto(p, "register")
       \/ End(p, "error")

(* "duplicate": the configuration and the version of the source are read. *)
Load(p) ==
    /\ At(p, "load") /\ SameRegistry /\ SameDisk
    /\ IF Cmd(p).name \in DOMAIN table THEN Goto(p, "register") ELSE End(p, "error")

RegisterDistro(p) ==
    /\ At(p, "register") /\ SameDisk
    /\ \/ /\ Register(NewName(p), Cmd(p).dir)
          /\ configured' = configured \ {NewName(p)}
          /\ Goto(p, "configure")
       \/ /\ NewName(p) \in DOMAIN table
          /\ SameRegistry
          /\ End(p, "error")

Configure(p) ==
    /\ At(p, "configure") /\ SameDisk
    /\ UNCHANGED store
    /\ IF NewName(p) \in DOMAIN table
       THEN /\ configured' = configured \cup {NewName(p)}
            /\ IF Cmd(p).op = "register" THEN End(p, "ok") ELSE Goto(p, "prepare")
       ELSE configured' = configured /\ End(p, "error")

(* select_wsl_writer creates the target directory. *)
Prepare(p) ==
    /\ At(p, "prepare") /\ SameRegistry
    /\ disk' = [disk EXCEPT ![Cmd(p).dir] = IF @ = NoDir THEN Empty ELSE @]
    /\ Goto(p, IF Cmd(p).op = "install" THEN "extract" ELSE "checkPath")

(* run_checked; "duplicate" asks for the directory of the source only here. *)
CheckPath(p) ==
    /\ At(p, "checkPath") /\ SameRegistry /\ SameDisk
    /\ IF Cmd(p).op = "duplicate" /\ Cmd(p).name \notin DOMAIN table THEN End(p, "error")
       ELSE LET src == IF Cmd(p).op = "duplicate" THEN table[Cmd(p).name] ELSE Src(p)
            IN  IF src = Cmd(p).dir \/ Cmd(p).dir \in RootDirs THEN End(p, "rejected")
                ELSE Become(p, [proc[p] EXCEPT !.pc = "copy", !.src = src, !.seen = {}])

(* Mutant: a file that exists is skipped with a warning. *)
PutFileLenient(p, f, content) ==
    /\ disk[Cmd(p).dir] # NoDir
    /\ disk' = IF f \in Holds(Cmd(p).dir) THEN disk ELSE [disk EXCEPT ![Cmd(p).dir][f] = content]
    /\ Become(p, [proc[p] EXCEPT !.seen = @ \cup {f}])

(* One file: CREATE_NEW fails on a file that exists. *)
PutFile(p, f, content) ==
    IF f \in Holds(Cmd(p).dir) \/ disk[Cmd(p).dir] = NoDir
    THEN SameDisk /\ End(p, "error")
    ELSE /\ disk' = [disk EXCEPT ![Cmd(p).dir][f] = content]
         /\ Become(p, [proc[p] EXCEPT !.seen = @ \cup {f}])

Extract(p) ==
    /\ At(p, "extract") /\ SameRegistry
    /\ \/ \E f \in Parts \ proc[p].seen : PutFile(p, f, Image)
       \/ Parts \subseteq proc[p].seen /\ SameDisk /\ End(p, "ok")

(* The enumeration visits the files that are there, in any order. *)
Copy(p) ==
    /\ At(p, "copy") /\ SameRegistry
    /\ \/ \E f \in Holds(Src(p)) \ proc[p].seen : PutFile(p, f, disk[Src(p)][f])
       \/ /\ disk[Src(p)] = NoDir
          /\ SameDisk /\ End(p, "error")
       \/ /\ disk[Src(p)] # NoDir /\ Holds(Src(p)) \subseteq proc[p].seen
          /\ SameDisk
          /\ IF Cmd(p).op = "duplicate" THEN End(p, "ok") ELSE Goto(p, "delete")

(* Mutant: what cannot be deleted is skipped with a warning. *)
DeleteLenient(p) ==
    /\ At(p, "delete") /\ SameRegistry
    /\ \/ \E f \in Holds(Src(p)) \ proc[p].seen :
            /\ disk' = IF f = InitFile /\ Src(p) \in running THEN disk
                       ELSE [disk EXCEPT ![Src(p)][f] = NoValue]
            /\ Become(p, [proc[p] EXCEPT !.seen = @ \cup {f}])
       \/ /\ Holds(Src(p)) \subseteq proc[p].seen
          /\ disk' = [disk EXCEPT ![Src(p)] = IF @ = Empty THEN NoDir ELSE @]
          /\ IF Cmd(p).op = "move" THEN Goto(p, "relocate") ELSE End(p, "ok")

(* delete_directory: a file somebody keeps open, or a directory that is gone or
   not empty in the end, is an error that leaves the rest in place. *)
Delete(p) ==
    /\ At(p, "delete") /\ SameRegistry
    /\ \/ \E f \in Holds(Src(p)) \ proc[p].seen :
            IF f = InitFile /\ Src(p) \in running THEN SameDisk /\ End(p, "error")
            ELSE /\ disk' = [disk EXCEPT ![Src(p)][f] = NoValue]
                 /\ Become(p, [proc[p] EXCEPT !.seen = @ \cup {f}])
       \/ /\ disk[Src(p)] # Empty /\ Holds(Src(p)) \subseteq proc[p].seen
          /\ SameDisk /\ End(p, "error")
       \/ /\ disk[Src(p)] = Empty
          /\ disk' = [disk EXCEPT ![Src(p)] = NoDir]
          /\ IF Cmd(p).op = "move" THEN Goto(p, "relocate") ELSE End(p, "ok")

-----------------------------------------------------------------------------
(* "uninstall" and "move" first ask whether the distribution is in use. *)

CheckRunning(p) ==
    /\ At(p, "checkRunning") /\ SameRegistry /\ SameDisk
    /\ IF Cmd(p).name \in DOMAIN table /\ table[Cmd(p).name] \notin running
       THEN Goto(p, "readDir") ELSE End(p, "error")

ReadDir(p) ==
    /\ At(p, "readDir") /\ SameRegistry /\ SameDisk
    /\ IF Cmd(p).name \in DOMAIN table
       THEN Become(p, [proc[p] EXCEPT !.src = table[Cmd(p).name],
                           !.pc = IF Cmd(p).op = "move" THEN "rename" ELSE "unregister"])
       ELSE End(p, "error")

(* MoveFile needs one drive, a free target and nothing open below the source (an
   indexer can have something open); else the version is read, the files are copied. *)
Rename(p) ==
    /\ At(p, "rename") /\ SameRegistry
    /\ \/ /\ OneDrive
          /\ disk[Src(p)] # NoDir /\ Src(p) \notin running
          /\ disk[Cmd(p).dir] = NoDir \/ Src(p) = Cmd(p).dir
          /\ disk' = [d \in Dirs |-> IF d = Cmd(p).dir THEN disk[Src(p)]
                                     ELSE IF d = Src(p) THEN NoDir ELSE disk[d]]
          /\ Goto(p, "relocate")
       \/ /\ SameDisk
          /\ IF Cmd(p).name \in DOMAIN table THEN Goto(p, "prepare") ELSE End(p, "error")

SetDistroDir(p) ==
    /\ At(p, "relocate") /\ SameDisk
    /\ configured' = configured
    /\ \/ Relocate(Cmd(p).name, Cmd(p).dir) /\ End(p, "ok")
       \/ Cmd(p).name \notin DOMAIN table /\ UNCHANGED store /\ End(p, "error")

UnregisterDistro(p) ==
    /\ At(p, "unregister") /\ SameDisk
    /\ \/ /\ Unregister(Cmd(p).name)
          /\ configured' = configured \ {Cmd(p).name}
          /\ IF Cmd(p).op = "uninstall" THEN Goto(p, "delete") ELSE End(p, "ok")
       \/ /\ chosen = NoValue \/ Cmd(p).name \notin DOMAIN table
          /\ SameRegistry
          /\ End(p, "error")

-----------------------------------------------------------------------------
(* Any call may fail without effect, and any process may be killed. *)
Mishap(p) ==
    /\ proc[p].pc # "idle"
    /\ mishaps < MaxMishaps /\ mishaps' = mishaps + 1
    /\ End(p, "error") \/ End(p, "killed")
    /\ UNCHANGED <<table, chosen, configured, disk, running, issued>>

(* WSL, outside of this program: it starts a registered distribution, which then
   keeps rootfs\init open, and stops it. *)
WslStart == \E n \in DOMAIN table :
    /\ InitFile \in Holds(table[n])
    /\ running' = running \cup {table[n]}
    /\ UNCHANGED <<table, chosen, configured, disk, proc, issued, mishaps>>
WslStop == \E d \in running :
    /\ running' = running \ {d}
    /\ UNCHANGED <<table, chosen, configured, disk, proc, issued, mishaps>>

Step(p) ==
    \/ Detect(p) \/ Load(p) \/ RegisterDistro(p) \/ Configure(p) \/ Prepare(p) \/ CheckPath(p)
    \/ Extract(p) \/ Copy(p) \/ Delete(p) \/ CheckRunning(p) \/ ReadDir(p) \/ Rename(p)
    \/ SetDistroDir(p) \/ UnregisterDistro(p)

(* The bounded number of commands has run: the only way to stop. *)
Quiet == issued = MaxCommands /\ (\A p \in Procs : proc[p].pc = "idle") /\ UNCHANGED vars

Next ==
    \/ \E p \in Procs : Issue(p) \/ Step(p) \/ Mishap(p)
    \/ WslStart \/ WslStop \/ Quiet

Spec == Init /\ [][Next]_vars

-----------------------------------------------------------------------------
(* Properties *)

\* Every variable holds a value of its kind, and only registered names are configured.
TypeOK ==
    /\ DOMAIN table \subseteq Names /\ \A n \in DOMAIN table : table[n] \in Dirs
    /\ chosen \in DOMAIN table \cup {NoValue}
    /\ configured \subseteq DOMAIN table
    /\ \A d \in Dirs : disk[d] = NoDir \/ disk[d] \in Contents
    /\ running \subseteq Dirs
    /\ \A p \in Procs : /\ proc[p].src \in Dirs \cup {NoValue} /\ proc[p].seen \subseteq Parts
                        /\ proc[p].cmd \in Commands \cup {NoCommand}

Whole(d, owner) == disk[d] # NoDir /\ \A f \in Parts : disk[d][f] = owner

\* Short of "uninstall", no interleaving of commands, failure or kill destroys the
\* last whole copy of an installed distribution: "move" deletes the source only
\* behind a finished copy, even when other commands use the same directories.
WholeCopySurvives == \A n \in Installed : \E d \in Dirs : Whole(d, n)

(* A directory has what the named distribution held when the command began. *)
Kept(p, d) == \A f \in Parts :
    proc[p].before[f] # NoValue => disk[d] # NoDir /\ disk[d][f] = proc[p].before[f]

\* A command that reports success has done all of its work on both sides: the registry
\* names the directory and its configuration, and the directory holds every file of the
\* source (of the archive).  Behind "uninstall" and "move" the directory of the source
\* is gone with all that was in it, also when WSL has started the distribution meanwhile;
\* behind "duplicate" and "unregister" it holds what it held.
SuccessIsComplete ==
    \A p \in Procs : proc[p].pc = "idle" /\ proc[p].outcome = "ok" =>
        LET c == Cmd(p)  home == proc[p].home
        IN  /\ c.op \in {"uninstall", "unregister"} => c.name \notin DOMAIN table
            /\ c.op \notin {"uninstall", "unregister"} =>
                 NewName(p) \in DOMAIN table /\ table[NewName(p)] = c.dir
            /\ c.op \in {"install", "register", "duplicate"} => NewName(p) \in configured
            /\ c.op = "install" => Whole(c.dir, Image)
            /\ c.op \in {"move", "duplicate"} => Kept(p, c.dir)
            /\ c.op = "uninstall" \/ (c.op = "move" /\ home # c.dir) => disk[home] = NoDir
            /\ c.op \in {"unregister", "duplicate"} => Kept(p, home)

\* A duplicate that check_path refuses, because "copying or moving into a subdirectory of
\* the source directory is not allowed" (err_copy_subdir of error.cpp) or "installing to
\* the root directory ... is known to cause issues" (err_root_dir), is not registered there.
RejectedLeavesNothing ==
    \A p \in Procs : proc[p].outcome = "rejected" /\ Cmd(p).op = "duplicate" =>
        Cmd(p).new \notin DOMAIN table
=============================================================================
