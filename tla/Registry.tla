------------------------------ MODULE Registry ------------------------------
(***************************************************************************)
(* The distribution store of LxRunOffline (lib/reg.cpp): one subkey per    *)
(* distribution under ...\Lxss, named by a GUID, and the value             *)
(* DefaultDistribution of the parent key.  Nothing locks that key: every   *)
(* process of LxRunOffline.exe interleaves its registry calls with those   *)
(* of the others, so one registry call is one action here.                 *)
(***************************************************************************)
EXTENDS Naturals, Sequences, FiniteSets

CONSTANTS
    Procs,          \* running LxRunOffline processes
    Subkeys,        \* names of subkeys of Lxss, as numbers in the key order
    Foreign,        \* the subkeys whose name is not a GUID
    Names, Dirs,    \* distribution names; absolute directories
    NoValue,        \* a registry value that does not exist
    MaxCommands,    \* bound: commands issued in a behaviour
    MaxMishaps      \* bound: failing calls and killed processes

ASSUME SubkeysAssumption  == Subkeys \subseteq Nat /\ IsFiniteSet(Subkeys) /\ Foreign \subseteq Subkeys
ASSUME NoValueAssumption  == NoValue \notin Subkeys \cup Names \cup Dirs
ASSUME BoundsAssumption   == MaxCommands \in Nat /\ MaxMishaps \in Nat

VARIABLES
    keys,           \* the GUID subkeys: each with its values
    default,        \* the value DefaultDistribution
    proc,           \* the command of each process and how far it is
    issued,         \* commands issued so far
    mishaps         \* failed calls and killed processes so far

vars == <<keys, default, proc, issued, mishaps>>

Guids == Subkeys \ Foreign

\* CoCreateGuid never returns a GUID twice, so a deleted key stays "dead" until
\* somebody who still holds its path writes a value under it.
Blank(status) == [status |-> status, name |-> NoValue, dir |-> NoValue, state |-> FALSE, version |-> FALSE]

Live == {k \in Guids : keys[k].status = "live"}

Commands == [op : {"register", "setDir"}, name : Names, dir : Dirs]
       \cup [op : {"unregister", "setDefault"}, name : Names, dir : {NoValue}]
NoCommand == [op |-> "none", name |-> NoValue, dir |-> NoValue]

(* A process between two commands: the last one and how it ended. *)
Rest(cmd, outcome) ==
    [pc |-> "idle", goal |-> "none", cmd |-> cmd, outcome |-> outcome, cursor |-> 0,
     ids |-> <<>>, id |-> NoValue, taken |-> FALSE, wasDefault |-> FALSE]

Complete(k) == k.name # NoValue /\ k.dir # NoValue /\ k.state /\ k.version

(* Any store that commands left behind, with room for new GUIDs. *)
Init ==
    /\ keys \in [Guids -> {Blank("unborn")} \cup
            [status : {"live"}, name : Names, dir : Dirs, state : {TRUE}, version : {TRUE}]]
    /\ \A j, k \in Live : keys[j].name = keys[k].name => j = k
    /\ Cardinality(Live) + MaxCommands <= Cardinality(Guids)
    /\ default \in Live \cup {NoValue}
    /\ proc = [p \in Procs |-> Rest(NoCommand, "none")]
    /\ issued = 0
    /\ mishaps = 0

-----------------------------------------------------------------------------
(* How a command goes on.  "goal" names the call the process is inside of. *)

Become(p, local) == proc' = [proc EXCEPT ![p] = local]

Scan(p, goal) ==
    [proc[p] EXCEPT !.pc = "enum", !.goal = goal, !.cursor = 0, !.ids = <<>>, !.id = NoValue]

(* The errors of these calls are caught and logged as a warning. *)
Swallowed == {"probe", "adopt", "heir"}

Raised(p) == Rest(proc[p].cmd, IF proc[p].goal \in Swallowed THEN "warned" ELSE "error")
Finished(p) == Rest(proc[p].cmd, "ok")

Issue(p) ==
    /\ proc[p].pc = "idle"
    /\ issued < MaxCommands
    /\ issued' = issued + 1
    /\ \E cmd \in Commands : Become(p,
        [Rest(cmd, "none") EXCEPT
            !.pc   = IF cmd.op = "unregister" THEN "default" ELSE "enum",
            !.goal = CASE cmd.op = "register"   -> "check"
                       [] cmd.op = "unregister" -> "wasDefault"
                       [] OTHER                 -> "find"])
    /\ UNCHANGED <<keys, default, mishaps>>

-----------------------------------------------------------------------------
(* list_distro_id: RegEnumKeyEx with an index into the keys of this moment. *)

Entries(i) == LET stored == Live \cup Foreign
              IN  {k \in stored : Cardinality({j \in stored : j < k}) = i}

(* Mutant: ERROR_MORE_DATA for a long foreign name does not move the index. *)
EnumKeyStuck(p) ==
    /\ proc[p].pc = "enum"
    /\ \E k \in Entries(proc[p].cursor) : Become(p,
        IF k \in Foreign THEN proc[p]
        ELSE [proc[p] EXCEPT !.cursor = @ + 1, !.ids = Append(@, k)])
    /\ UNCHANGED <<keys, default, issued, mishaps>>

EnumKey(p) ==
    /\ proc[p].pc = "enum"
    /\ \E k \in Entries(proc[p].cursor) : Become(p,
        [proc[p] EXCEPT !.cursor = @ + 1, !.ids = IF k \in Foreign THEN @ ELSE Append(@, k)])
    /\ UNCHANGED <<keys, default, issued, mishaps>>

(* Mutant: the heir is l.front() without a look at l.empty(). *)
EnumDoneFront(p) ==
    /\ proc[p].pc = "enum"
    /\ Entries(proc[p].cursor) = {}
    /\ Become(p, [proc[p] EXCEPT
         !.cursor = 0,
         !.pc  = IF proc[p].goal = "heir" THEN "setDefault" ELSE "names",
         !.ids = IF proc[p].goal = "heir" THEN <<>> ELSE @,
         !.id  = IF proc[p].goal = "heir" /\ proc[p].ids # <<>> THEN Head(proc[p].ids) ELSE NoValue])
    /\ UNCHANGED <<keys, default, issued, mishaps>>

EnumDone(p) ==
    /\ proc[p].pc = "enum"
    /\ Entries(proc[p].cursor) = {}
    /\ Become(p, [proc[p] EXCEPT
         !.cursor = 0,
         !.pc  = IF proc[p].goal # "heir" THEN "names"
                 ELSE IF proc[p].ids = <<>> THEN "clearDefault" ELSE "setDefault",
         !.ids = IF proc[p].goal = "heir" THEN <<>> ELSE @,
         !.id  = IF proc[p].goal = "heir" /\ proc[p].ids # <<>> THEN Head(proc[p].ids) ELSE NoValue])
    /\ UNCHANGED <<keys, default, issued, mishaps>>

(* list_distros (goal "check") reads every name, get_distro_id stops at a match. *)
(* Mutant: the identifier after the matching one. *)
FoundNext(p, k) == [proc[p] EXCEPT !.id = IF Len(proc[p].ids) > 1 THEN proc[p].ids[2] ELSE k, !.ids = <<>>,
    !.pc = CASE proc[p].cmd.op = "unregister" -> "delete"
             [] proc[p].cmd.op = "setDir"     -> "writeDir"
             [] OTHER                         -> "setDefault"]

Found(p, k) == [proc[p] EXCEPT !.id = k, !.ids = <<>>,
    !.pc = CASE proc[p].cmd.op = "unregister" -> "delete"
             [] proc[p].cmd.op = "setDir"     -> "writeDir"
             [] OTHER                         -> "setDefault"]

(* Mutants: a key without a name is passed over; only the first name is compared. *)
ReadNameLenient(p) ==
    /\ proc[p].pc = "names"
    /\ proc[p].ids # <<>>
    /\ LET k == Head(proc[p].ids)
           match == keys[k].name = proc[p].cmd.name
       IN  Become(p, IF match /\ proc[p].goal # "check" THEN Found(p, k)
                     ELSE [proc[p] EXCEPT !.ids = Tail(@), !.taken = @ \/ match])
    /\ UNCHANGED <<keys, default, issued, mishaps>>
ReadNameFirst(p) ==
    /\ proc[p].pc = "names"
    /\ proc[p].ids # <<>>
    /\ LET k == Head(proc[p].ids)
           match == keys[k].name = proc[p].cmd.name
       IN  Become(p, IF proc[p].goal = "check" THEN [proc[p] EXCEPT !.ids = Tail(@), !.taken = @ \/ match]
                     ELSE IF match THEN Found(p, k) ELSE Raised(p))
    /\ UNCHANGED <<keys, default, issued, mishaps>>

ReadName(p) ==
    /\ proc[p].pc = "names"
    /\ proc[p].ids # <<>>
    /\ LET k == Head(proc[p].ids)
           match == keys[k].name = proc[p].cmd.name
       IN  Become(p,
             IF keys[k].name = NoValue THEN Raised(p)
             ELSE IF match /\ proc[p].goal # "check" THEN Found(p, k)
             ELSE [proc[p] EXCEPT !.ids = Tail(@), !.taken = @ \/ match])
    /\ UNCHANGED <<keys, default, issued, mishaps>>

(* Mutant: the list is fetched, the count of the name is not looked at. *)
NamesDoneUnchecked(p) ==
    /\ proc[p].pc = "names"
    /\ proc[p].ids = <<>>
    /\ Become(p, IF proc[p].goal = "check" THEN [proc[p] EXCEPT !.pc = "create"] ELSE Raised(p))
    /\ UNCHANGED <<keys, default, issued, mishaps>>

NamesDone(p) ==
    /\ proc[p].pc = "names"
    /\ proc[p].ids = <<>>
    /\ Become(p, IF proc[p].goal = "check" /\ ~proc[p].taken
                 THEN [proc[p] EXCEPT !.pc = "create"] ELSE Raised(p))
    /\ UNCHANGED <<keys, default, issued, mishaps>>

-----------------------------------------------------------------------------
(* get_default_distro: a missing value, and a missing name, both mean "none". *)

NoDefault(p) == IF proc[p].goal = "probe" THEN Scan(p, "adopt") ELSE Raised(p)

ReadDefault(p) ==
    /\ proc[p].pc = "default"
    /\ Become(p, IF default = NoValue THEN NoDefault(p)
                 ELSE [proc[p] EXCEPT !.pc = "defaultName", !.id = default])
    /\ UNCHANGED <<keys, default, issued, mishaps>>

(* Mutant: a registered distribution always becomes the default. *)
ReadDefaultNameAdopt(p) ==
    /\ proc[p].pc = "defaultName"
    /\ LET name == keys[proc[p].id].name
       IN  Become(p,
             IF name = NoValue \/ proc[p].goal = "probe" THEN NoDefault(p)
             ELSE [Scan(p, "find") EXCEPT !.wasDefault = (name = proc[p].cmd.name)])
    /\ UNCHANGED <<keys, default, issued, mishaps>>

ReadDefaultName(p) ==
    /\ proc[p].pc = "defaultName"
    /\ LET name == keys[proc[p].id].name
       IN  Become(p,
             IF name = NoValue THEN NoDefault(p)
             ELSE IF proc[p].goal = "probe" THEN Finished(p)
             ELSE [Scan(p, "find") EXCEPT !.wasDefault = (name = proc[p].cmd.name)])
    /\ UNCHANGED <<keys, default, issued, mishaps>>

SetDefault(p) ==
    /\ proc[p].pc = "setDefault"
    /\ default' = proc[p].id
    /\ Become(p, Finished(p))
    /\ UNCHANGED <<keys, issued, mishaps>>

(* RegDeleteKeyValue fails when another process already removed the value. *)
ClearDefault(p) ==
    /\ proc[p].pc = "clearDefault"
    /\ default' = NoValue
    /\ Become(p, IF default = NoValue THEN Raised(p) ELSE Finished(p))
    /\ UNCHANGED <<keys, issued, mishaps>>

-----------------------------------------------------------------------------
(* register_distro: a new key, then its values one by one. *)

CreateKey(p) ==
    /\ proc[p].pc = "create"
    /\ \E k \in Guids :
         /\ keys[k].status = "unborn"
         /\ keys' = [keys EXCEPT ![k] = Blank("live")]
         /\ Become(p, [proc[p] EXCEPT !.pc = "setName", !.goal = "fill", !.id = k])
    /\ UNCHANGED <<default, issued, mishaps>>

(* RegSetKeyValue on a deleted key either re-creates the key or fails. *)
Write(p, value, next) ==
    /\ \/ /\ keys' = [keys EXCEPT ![proc[p].id] = value]
          /\ Become(p, next)
       \/ /\ keys[proc[p].id].status = "dead"
          /\ keys' = keys
          /\ Become(p, Raised(p))
    /\ UNCHANGED <<default, issued, mishaps>>

Here(p) == [keys[proc[p].id] EXCEPT !.status = "live"]
Goto(p, pc) == [proc[p] EXCEPT !.pc = pc]

SetName(p) ==
    /\ proc[p].pc = "setName"
    /\ Write(p, [Here(p) EXCEPT !.name = proc[p].cmd.name], Goto(p, "setDir"))
SetDir(p) ==
    /\ proc[p].pc = "setDir"
    /\ Write(p, [Here(p) EXCEPT !.dir = proc[p].cmd.dir], Goto(p, "setState"))
SetState(p) ==
    /\ proc[p].pc = "setState"
    /\ Write(p, [Here(p) EXCEPT !.state = TRUE], Goto(p, "setVersion"))
SetVersion(p) ==
    /\ proc[p].pc = "setVersion"
    /\ Write(p, [Here(p) EXCEPT !.version = TRUE],
                [Goto(p, "default") EXCEPT !.goal = "probe", !.id = NoValue])

(* set_distro_dir, once get_distro_key has returned. *)
WriteDir(p) ==
    /\ proc[p].pc = "writeDir"
    /\ Write(p, [Here(p) EXCEPT !.dir = proc[p].cmd.dir], Finished(p))

(* unregister_distro: RegDeleteTree, then a new default if it was the default. *)
(* Mutant: the default is left at the deleted key. *)
DeleteTreeOnly(p) ==
    /\ proc[p].pc = "delete"
    /\ keys' = [keys EXCEPT ![proc[p].id] = Blank("dead")]
    /\ Become(p, IF keys[proc[p].id].status # "live" THEN Raised(p) ELSE Finished(p))
    /\ UNCHANGED <<default, issued, mishaps>>

DeleteTree(p) ==
    /\ proc[p].pc = "delete"
    /\ keys' = [keys EXCEPT ![proc[p].id] = Blank("dead")]
    /\ Become(p, IF keys[proc[p].id].status # "live" THEN Raised(p)
                 ELSE IF proc[p].wasDefault THEN Scan(p, "heir") ELSE Finished(p))
    /\ UNCHANGED <<default, issued, mishaps>>

-----------------------------------------------------------------------------
(* Any registry call, and new_guid and get_full_path, may fail without effect. *)
Fault(p) ==
    /\ proc[p].pc # "idle"
    /\ mishaps < MaxMishaps
    /\ mishaps' = mishaps + 1
    /\ Become(p, Raised(p))
    /\ UNCHANGED <<keys, default, issued>>

(* The process is killed, or the machine loses power, between two calls. *)
Crash(p) ==
    /\ proc[p].pc # "idle"
    /\ mishaps < MaxMishaps
    /\ mishaps' = mishaps + 1
    /\ Become(p, Rest(proc[p].cmd, "killed"))
    /\ UNCHANGED <<keys, default, issued>>

Step(p) ==
    \/ EnumKey(p) \/ EnumDone(p) \/ ReadName(p) \/ NamesDone(p)
    \/ ReadDefault(p) \/ ReadDefaultName(p) \/ SetDefault(p) \/ ClearDefault(p)
    \/ CreateKey(p) \/ SetName(p) \/ SetDir(p) \/ SetState(p) \/ SetVersion(p)
    \/ WriteDir(p) \/ DeleteTree(p)

AllIdle == \A p \in Procs : proc[p].pc = "idle"

(* The bounded number of commands has run. *)
Quiet == AllIdle /\ issued = MaxCommands /\ UNCHANGED vars

Next == (\E p \in Procs : Issue(p) \/ Step(p) \/ Fault(p) \/ Crash(p)) \/ Quiet

Spec == Init /\ [][Next]_vars

(* The operating system schedules every running process. *)
FairSpec == Spec /\ \A p \in Procs : WF_vars(Step(p))
-----------------------------------------------------------------------------
(* Properties *)

\* Every variable holds a value of its kind; a process that holds the path of a
\* key holds the path of one that was created (reg.cpp keeps paths as strings).
Pcs == {"idle", "enum", "names", "create", "setName", "setDir", "setState", "setVersion",
        "default", "defaultName", "delete", "writeDir", "setDefault", "clearDefault"}
Goals == {"none", "check", "fill", "probe", "adopt", "wasDefault", "find", "heir"}
Outcomes == {"none", "ok", "warned", "error", "killed"}
HoldsKey == {"setName", "setDir", "setState", "setVersion", "delete", "writeDir", "setDefault", "defaultName"}
Key == [status : {"unborn", "live", "dead"}, name : Names \cup {NoValue}, dir : Dirs \cup {NoValue},
        state : BOOLEAN, version : BOOLEAN]
Local == [pc : Pcs, goal : Goals, cmd : Commands \cup {NoCommand}, outcome : Outcomes, cursor : Nat,
          ids : Seq(Guids), id : Guids \cup {NoValue}, taken : BOOLEAN, wasDefault : BOOLEAN]
TypeOK ==
    /\ keys \in [Guids -> Key]
    /\ default \in Guids \cup {NoValue}
    /\ proc \in [Procs -> Local]
    /\ issued \in Nat /\ mishaps \in Nat
    /\ \A p \in Procs : /\ proc[p].pc \in HoldsKey => proc[p].id \in Guids
                        /\ proc[p].pc # "idle" => proc[p].cmd \in Commands

\* "register" refuses a name that is in use: no two keys have the same name.
NamesUnique ==
    \A j, k \in Live : j # k /\ keys[j].name # NoValue => keys[j].name # keys[k].name

\* A command that ends without an error has had its effect, all of it, and one
\* that ends without a warning either leaves a default that exists: failures
\* that unregister_distro and register_distro swallow are never silent.
Effect(cmd) ==
    CASE cmd.op = "register"   -> \E k \in Live : /\ Complete(keys[k])
                                                 /\ keys[k].name = cmd.name /\ keys[k].dir = cmd.dir
      [] cmd.op = "unregister" -> \A k \in Live : keys[k].name # cmd.name
      [] cmd.op = "setDefault" -> default \in Live /\ keys[default].name = cmd.name
      [] cmd.op = "setDir"     -> \E k \in Live : keys[k].name = cmd.name /\ keys[k].dir = cmd.dir
      [] OTHER                 -> TRUE
EndedWell(l) ==
    /\ l.outcome \in {"ok", "warned"} => Effect(l.cmd)
    /\ l.outcome = "ok" /\ l.cmd.op \in {"register", "unregister"} =>
          IF Live = {} THEN default = NoValue ELSE default \in Live
NoSilentFailure == \A p \in Procs : proc[p].pc = "idle" => EndedWell(proc[p])

\* A key that a killed or failed "register" left without a name makes every later
\* register_distro fail in list_distros: a key is only created beside named keys.
RegisterNeedsNames ==
    [][\A k \in Guids : keys[k].status = "unborn" /\ keys'[k].status = "live" =>
         \A j \in Live : keys[j].name # NoValue]_vars

\* Whatever the processes interleave, and whatever key a stale path leads to, a
\* command changes a named distribution only if it was given that name.
OnlyByName ==
    [][\A k \in Guids : keys[k].name # NoValue /\ keys'[k] # keys[k] =>
         \E p \in Procs : proc'[p] # proc[p] /\ proc[p].cmd.name = keys[k].name]_vars

\* The paths that processes keep as strings stay right although nothing locks their
\* keys: a path to write under or to delete leads to the distribution the command was
\* given, or to one without a name by now; and nobody else has the path of a key that
\* register_distro has created and not yet named.
Writers == {"setDir", "setState", "setVersion", "delete", "writeDir"}
PathNamed(p) == proc[p].pc \in Writers =>
    /\ keys[proc[p].id].status # "unborn"
    /\ keys[proc[p].id].name \in {proc[p].cmd.name, NoValue}
PathPrivate(p) == proc[p].pc = "setName" =>
    /\ keys[proc[p].id].status # "unborn" /\ keys[proc[p].id].name = NoValue
    /\ \A q \in Procs \ {p} : proc[q].pc \in Writers \cup {"setName"} => proc[q].id # proc[p].id
HeldPaths ==
    /\ \A k \in Guids : keys[k].status = "unborn" => keys[k].name = NoValue
    /\ \A p \in Procs : PathNamed(p) /\ PathPrivate(p)

\* No command runs forever: the scan by index moves on, foreign keys included,
\* although other processes add and delete keys under it.
CommandsTerminate == \A p \in Procs : proc[p].pc # "idle" ~> proc[p].pc = "idle"
=============================================================================
