------------------------------- MODULE Config -------------------------------
(***************************************************************************)
(* The configuration of distributions: class reg_config of lib/reg.cpp and *)
(* the commands of main.cpp that read and write it.  The four values of a  *)
(* key are read and written by one registry call each; processes of        *)
(* LxRunOffline.exe interleave between the calls.                          *)
(***************************************************************************)
EXTENDS Naturals, Sequences, FiniteSets, SequencesExt

CONSTANTS
    Procs,          \* running LxRunOffline processes
    Names, Installed,   \* names of distributions; those registered at the start
    Files,          \* what the configuration file may hold at the start
    Entries,        \* lines of an environment, each a record with a variable name
    Blank,          \* the empty line
    EnvLists,       \* lists of lines that set-env and files give
    Plain,          \* user ids, and kernel command lines
    DefaultEnv, DefaultPlain,   \* what reg_config starts with
    Commands,       \* the commands issued in this instance
    NoValue,        \* a value, a file or a key that does not exist
    MaxCommands, MaxMishaps     \* bounds, as in Registry

Vars == {e.var : e \in Entries}
Items == <<"env", "uid", "kernel", "flags">>        \* in the order of the calls
ItemSet == {"env", "uid", "kernel", "flags"}

(* Of the flags, the three bits that a user may set, the WSL 2 mark and the rest. *)
FlagBits == {"user", "wsl2", "other"}
FlagsMask == {"user"}

Value(i) == IF i = "env" THEN Seq(Entries \cup {Blank}) ELSE IF i = "flags" THEN SUBSET FlagBits ELSE Plain

CommandTypes == [op : {"set-env"}, name : Names, new : Names, arg : EnvLists, file : {FALSE}]
           \cup [op : {"set-uid", "set-kernelcmd"}, name : Names, new : Names, arg : Plain, file : {FALSE}]
           \cup [op : {"add-env", "add-env -f"}, name : Names, new : Names, arg : Entries, file : {FALSE}]
           \cup [op : {"remove-env"}, name : Names, new : Names, arg : Vars, file : {FALSE}]
           \cup [op : {"set-flags"}, name : Names, new : Names, arg : SUBSET FlagBits, file : {FALSE}]
           \cup [op : {"export-config", "import-config", "register", "duplicate"},
                 name : Names, new : Names, arg : {NoValue}, file : BOOLEAN]

ASSUME ConfigAssumption ==
    /\ Blank \notin Entries /\ Installed \subseteq Names
    /\ NoValue \notin Seq(Entries \cup {Blank}) \cup Plain /\ \A flags \in SUBSET FlagBits : flags # NoValue
    /\ \A f \in Files : f # NoValue => f = [i \in ItemSet |-> f[i]] /\ \A i \in ItemSet : f[i] = NoValue \/ f[i] \in Value(i)
    /\ EnvLists \subseteq Seq(Entries \cup {Blank})
    /\ DefaultEnv \in Seq(Entries) /\ DefaultPlain \in Plain
    /\ Commands \subseteq CommandTypes
    /\ \A c \in Commands : (c.op \in {"import-config"} => c.file) /\ (c.op # "duplicate" => c.new = c.name)
    /\ NoValue \notin [ItemSet -> Seq(Entries \cup {Blank}) \cup Plain \cup (SUBSET FlagBits) \cup {NoValue}]
    /\ MaxCommands \in Nat /\ MaxMishaps \in Nat

VARIABLES
    keys,           \* the values of each registered distribution
    vhd,            \* names whose directory holds the disk image of WSL 2
    file,           \* the one XML file that commands read and write
    proc,           \* the command of each process and how far it is
    promised,       \* history: what each value may be once nobody writes it
    doubtful,       \* history: names whose flags were not taken from their directory
    issued, mishaps

vars == <<keys, vhd, file, proc, promised, doubtful, issued, mishaps>>

Registered == {n \in Names : keys[n] # NoValue}

(* The constructor of reg_config. *)
Default(wsl2) == [i \in ItemSet |-> IF i = "env" THEN DefaultEnv
                                    ELSE IF i = "flags" THEN FlagsMask \cup (IF wsl2 THEN {"wsl2"} ELSE {})
                                    ELSE DefaultPlain]
NoConfig == [i \in ItemSet |-> NoValue]

(* get_value of a list stops at the first empty line. *)
FirstBlank(list) == SelectInSeq(list, LAMBDA e : e = Blank)
Listed(list) == IF FirstBlank(list) = 0 THEN list ELSE SubSeq(list, 1, FirstBlank(list) - 1)
Got(i, value) == IF i = "env" THEN Listed(value) ELSE value

(* try_get_value: a value that does not exist leaves what reg_config has.
   Mutant: a number that does not exist is left uninitialized. *)
TryGetRaw(i, value, old) == IF i = "env" /\ value = NoValue THEN old ELSE Got(i, value)

TryGet(i, value, old) == IF value = NoValue THEN old ELSE Got(i, value)
Effective(n, i) == TryGet(i, keys[n][i], Default(FALSE)[i])
LoadFile(conf, xml) == [i \in ItemSet |-> IF xml[i] = NoValue THEN conf[i] ELSE xml[i]]

-----------------------------------------------------------------------------
(* What a command goes through, and the values it reads and writes.       *)

Setters == {"set-env", "set-uid", "set-kernelcmd"}
Editors == {"add-env", "add-env -f", "remove-env", "set-flags"}
Whole == {"export-config", "import-config", "register", "duplicate"}

First(c) == IF c.op = "import-config" \/ (c.op = "register" /\ c.file) THEN "loadFile"
            ELSE IF c.op = "register" THEN "create" ELSE "locate"
After(c, stage) ==
    CASE stage = "locate" /\ c.op \in Setters \cup {"import-config"}    -> "write"
      [] stage = "locate" /\ c.op \notin Setters \cup {"import-config"} -> "read"
      [] stage = "read" /\ c.op \in Editors                 -> "edit"
      [] stage = "read" /\ c.op = "export-config"           -> "saveFile"
      [] stage = "read" /\ c.op = "duplicate" /\ c.file     -> "loadFile"
      [] stage = "read" /\ c.op = "duplicate" /\ ~c.file    -> "create"
      [] stage = "loadFile" /\ c.op = "import-config"       -> "locate"
      [] stage = "loadFile" /\ c.op # "import-config"       -> "create"
      [] stage \in {"edit", "create"}                       -> "write"
      [] stage \in {"saveFile", "write"}                    -> "idle"

Item(c) == IF c.op = "set-uid" THEN "uid" ELSE IF c.op = "set-kernelcmd" THEN "kernel"
           ELSE IF c.op = "set-flags" THEN "flags" ELSE "env"
Desired(c) == IF c.op \in Whole THEN ItemSet ELSE {Item(c)}
Reads(c)  == IF c.op \in Setters \cup {"import-config", "register"} THEN {} ELSE Desired(c)
Writes(c) == IF c.op = "export-config" THEN {} ELSE Desired(c)
Ordered(items) == IF items = ItemSet THEN Items ELSE IF items = {} THEN <<>> ELSE <<CHOOSE i \in items : TRUE>>

Begun(c) == IF c.op \in Setters THEN [Default(FALSE) EXCEPT ![Item(c)] = c.arg]
            ELSE Default(c.op = "register" /\ c.name \in vhd)

Rest(cmd, outcome) ==
    [stage |-> "idle", cmd |-> cmd, outcome |-> outcome, conf |-> NoConfig, todo |-> <<>>, room |-> NoValue,
     xml |-> NoConfig, doubt |-> FALSE, solo |-> {}, before |-> NoConfig]
NoCommand == [op |-> "none", name |-> NoValue, new |-> NoValue, arg |-> NoValue, file |-> FALSE]

Active(p) == proc[p].stage # "idle"
At(p, stage) == proc[p].stage = stage
Become(p, local) == proc' = [proc EXCEPT ![p] = local]

(* On to a stage, which may have values to go through. *)
Enter(local, stage) ==
    [local EXCEPT !.stage = stage, !.room = NoValue,
                  !.todo = Ordered(IF stage = "read" THEN Reads(local.cmd)
                                   ELSE IF stage = "write" THEN Writes(local.cmd) ELSE {})]
Onward(local) == Enter(local, After(local.cmd, local.stage))

(* What the texts of main.cpp say that a command makes of a value. *)
Has(list, var) == \E k \in DOMAIN list : list[k].var = var
Refuses(c, value) ==
    CASE c.op = "add-env"    -> Has(value, c.arg.var)
      [] c.op = "remove-env" -> ~Has(value, c.arg)
      [] c.op = "set-flags"  -> ~(c.arg \subseteq FlagsMask)
      [] OTHER               -> FALSE
Result(c, i, value, xml) ==
    CASE c.op \in Setters -> Got(i, c.arg)
      [] c.op \in {"add-env", "add-env -f"} -> Append(RemoveFirstMatch(value, LAMBDA e : e.var = c.arg.var), c.arg)
      [] c.op = "remove-env" -> RemoveFirstMatch(value, LAMBDA e : e.var = c.arg)
      [] c.op = "set-flags"  -> (value \cap {"wsl2"}) \cup c.arg
      [] c.op \in {"import-config", "register"} -> Got(i, LoadFile(Begun(c), xml)[i])
      [] c.op = "duplicate"  -> IF xml[i] = NoValue THEN value ELSE Got(i, xml[i])

(* What a command promises to make of a value, from any that the distribution has had
   since it began. *)
Outcomes(l, i) == {Result(l.cmd, i, v, l.xml) : v \in {u \in l.before[i] : ~Refuses(l.cmd, u)}}

(* The history of a value: a command that nobody disturbed has made of it exactly
   what it promises, any other may have done so, or nothing. *)
Settled(p, outcome) ==
    LET c == proc[p].cmd
        new(i) == CASE outcome = "ok" -> Outcomes(proc[p], i)
                    [] outcome = "refused" -> {u \in promised[c.new][i] : Refuses(c, u)}
                    [] OTHER -> promised[c.new][i]
    IN  [promised EXCEPT ![c.new] = [i \in ItemSet |-> IF i \in proc[p].solo \cap Writes(c) THEN new(i) ELSE @[i]]]

End(p, outcome) == Become(p, Rest(proc[p].cmd, outcome))
Proceed(p, local) ==
    IF After(local.cmd, local.stage) = "idle" THEN End(p, "ok") /\ promised' = Settled(p, "ok")
                                              ELSE Become(p, Onward(local)) /\ promised' = promised
Stop(p, outcome) == End(p, outcome) /\ promised' = Settled(p, outcome)

-----------------------------------------------------------------------------
(* Any registry that commands left behind, and any file. *)
Init ==
    /\ vhd \in SUBSET Names
    /\ keys = [n \in Names |-> IF n \in Installed THEN Default(n \in vhd) ELSE NoValue]
    /\ file \in Files
    /\ proc = [p \in Procs |-> Rest(NoCommand, "none")]
    /\ promised = [n \in Names |-> [i \in ItemSet |-> {IF n \in Registered THEN Effective(n, i) ELSE Default(FALSE)[i]}]]
    /\ doubtful = {}
    /\ issued = 0 /\ mishaps = 0

Issue(p) ==
    /\ ~Active(p)
    /\ issued < MaxCommands /\ issued' = issued + 1
    /\ \E c \in Commands : Become(p,
         Enter([Rest(c, "none") EXCEPT !.conf = Begun(c), !.solo = Desired(c), !.before = promised[c.name]],
               First(c)))
    /\ UNCHANGED <<keys, vhd, file, promised, doubtful, mishaps>>

(* get_distro_key. *)
Locate(p) ==
    /\ At(p, "locate")
    /\ IF proc[p].cmd.name \in Registered THEN Proceed(p, proc[p]) ELSE Stop(p, "error")
    /\ UNCHANGED <<keys, vhd, file, doubtful, issued, mishaps>>

(* probe_and_call asks for the length of a text or a list first, and then for what is
   there by now.  If that is longer, the answer is ERROR_MORE_DATA, an error that
   try_get_value passes on.  Lengths are left out: anything but what was probed may be
   longer, or not.  Mutant: a longer list is cut. *)
Texts == {"env", "kernel"}
Here(p) == keys[proc[p].cmd.name][Head(proc[p].todo)]
Probe(p) ==
    /\ At(p, "read") /\ proc[p].room = NoValue
    /\ Head(proc[p].todo) \in Texts /\ Here(p) # NoValue
    /\ Become(p, [proc[p] EXCEPT !.room = Here(p)])
    /\ UNCHANGED <<keys, vhd, file, promised, doubtful, issued, mishaps>>

AnswersCut(i, probed, value) ==
    {IF i = "env" /\ value # probed /\ Len(value) > Len(probed) THEN SubSeq(value, 1, Len(probed)) ELSE value}

Answers(i, probed, value) == {value} \cup (IF i \in Texts /\ value # probed THEN {NoValue} ELSE {})

Read(p) ==
    /\ At(p, "read")
    /\ Head(proc[p].todo) \in Texts /\ Here(p) # NoValue => proc[p].room # NoValue
    /\ \E value \in Answers(Head(proc[p].todo), proc[p].room, Here(p)) :
         LET i == Head(proc[p].todo)
             read == [proc[p] EXCEPT !.todo = Tail(@), !.room = NoValue, !.conf[i] = TryGet(i, value, @),
                        !.doubt = @ \/ (i = "flags" /\ (value = NoValue \/ proc[p].cmd.name \in doubtful))]
         IN  IF value # Here(p) /\ value = NoValue THEN Stop(p, "error")
             ELSE IF read.todo = <<>> THEN Proceed(p, read)
             ELSE Become(p, read) /\ promised' = promised
    /\ UNCHANGED <<keys, vhd, file, doubtful, issued, mishaps>>

(* Between load_distro and configure_distro: find_if, erase and push_back; set_flags. *)
SetFlagsBare(flags, arg) == arg
SetFlags(flags, arg) == (flags \cap {"wsl2"}) \cup (arg \cap FlagsMask)
Found(list, var) == SelectInSeq(list, LAMBDA e : e.var = var)
Erased(list, var) == IF Found(list, var) = 0 THEN list ELSE RemoveAt(list, Found(list, var))
Edit(p) ==
    /\ At(p, "edit")
    /\ LET c == proc[p].cmd
           env == proc[p].conf["env"]
           Put(i, value) == Proceed(p, [proc[p] EXCEPT !.conf[i] = value])
       IN  CASE c.op = "add-env" /\ Found(env, c.arg.var) # 0 -> Stop(p, "refused")
             [] c.op \in {"add-env", "add-env -f"} /\ (c.op = "add-env" => Found(env, c.arg.var) = 0)
                  -> Put("env", Append(Erased(env, c.arg.var), c.arg))
             [] c.op = "remove-env" -> IF Found(env, c.arg) = 0 THEN Stop(p, "refused") ELSE Put("env", Erased(env, c.arg))
             [] c.op = "set-flags"  -> IF c.arg \subseteq FlagsMask THEN Put("flags", SetFlags(proc[p].conf["flags"], c.arg))
                                       ELSE Stop(p, "refused")
    /\ UNCHANGED <<keys, vhd, file, doubtful, issued, mishaps>>

(* reg_config::load_file; the file is read at once. *)
OpenFile(p) ==
    /\ At(p, "loadFile")
    /\ IF file = NoValue THEN Stop(p, "error")
       ELSE Proceed(p, [proc[p] EXCEPT !.xml = file, !.conf = LoadFile(@, file),
              !.doubt = @ \/ proc[p].cmd.op = "import-config" \/ file["flags"] # NoValue])
    /\ UNCHANGED <<keys, vhd, file, doubtful, issued, mishaps>>

(* reg_config::save_file, all four values. *)
SaveMasked(conf) == [conf EXCEPT !["flags"] = @ \cap FlagsMask]
Saved(conf) == conf
SaveFile(p) ==
    /\ At(p, "saveFile")
    /\ file' = Saved(proc[p].conf)
    /\ Proceed(p, proc[p])
    /\ UNCHANGED <<keys, vhd, doubtful, issued, mishaps>>

(* register_distro, and the directory that "duplicate" is going to fill. *)
Create(p) ==
    /\ At(p, "create")
    /\ LET c == proc[p].cmd
       IN  IF c.new \in Registered THEN Stop(p, "error") /\ UNCHANGED <<keys, vhd, doubtful>>
           ELSE /\ keys' = [keys EXCEPT ![c.new] = NoConfig]
                /\ vhd' = IF c.name \in vhd THEN vhd \cup {c.new} ELSE vhd \ {c.new}
                /\ doubtful' = doubtful \ {c.new}
                /\ Become(p, Onward(proc[p]))
                /\ promised' = [promised EXCEPT ![c.new] = [i \in ItemSet |-> {Default(FALSE)[i]}]]
    /\ UNCHANGED <<file, issued, mishaps>>

(* configure_distro: one value.  Others that have to do with it are disturbed: they may
   have read it before this, or not. *)
Disturbed(q, n, i) == Active(q) /\ n \in {proc[q].cmd.name, proc[q].cmd.new} /\ i \in Desired(proc[q].cmd)
Write(p) ==
    /\ At(p, "write")
    /\ LET n == proc[p].cmd.new
           i == Head(proc[p].todo)
           left == Tail(proc[p].todo)
       IN  /\ keys' = [keys EXCEPT ![n][i] = proc[p].conf[i]]
           /\ doubtful' = IF i # "flags" THEN doubtful
                          ELSE IF proc[p].doubt THEN doubtful \cup {n} ELSE doubtful \ {n}
           /\ proc' = [q \in Procs |->
                 IF q = p THEN IF left = <<>> THEN Rest(proc[p].cmd, "ok") ELSE [proc[p] EXCEPT !.todo = left]
                 ELSE IF Disturbed(q, n, i)
                      THEN [proc[q] EXCEPT !.solo = @ \ {i},
                              !.before[i] = IF proc[q].cmd.name = n THEN @ \cup {Got(i, proc[p].conf[i])} ELSE @]
                      ELSE proc[q]]
           /\ promised' = LET written == [promised EXCEPT ![n][i] = @ \cup IF i \in Writes(proc[p].cmd) THEN Outcomes(proc[p], i) ELSE {}]
                          IN  IF left # <<>> THEN written
                              ELSE [written EXCEPT ![n] = [j \in ItemSet |->
                                     IF j \in proc[p].solo THEN Settled(p, "ok")[n][j] ELSE @[j]]]
    /\ UNCHANGED <<vhd, file, issued, mishaps>>

-----------------------------------------------------------------------------
(* Any call may fail without effect, and any process may be killed. *)
Mishap(p) ==
    /\ Active(p)
    /\ mishaps < MaxMishaps /\ mishaps' = mishaps + 1
    /\ \E outcome \in {"error", "killed"} : Stop(p, outcome)
    /\ UNCHANGED <<keys, vhd, file, doubtful, issued>>

Step(p) == \/ Locate(p) \/ Probe(p) \/ Read(p) \/ Edit(p) \/ OpenFile(p)
           \/ SaveFile(p) \/ Create(p) \/ Write(p)

(* The bounded number of commands has run: the only way to stop. *)
Quiet == issued = MaxCommands /\ (\A p \in Procs : ~Active(p)) /\ UNCHANGED vars

Next == (\E p \in Procs : Issue(p) \/ Step(p) \/ Mishap(p)) \/ Quiet

Spec == Init /\ [][Next]_vars
-----------------------------------------------------------------------------
(* Properties *)

Complete(conf) == conf = [i \in ItemSet |-> conf[i]] /\ \A i \in ItemSet : conf[i] # NoValue /\ conf[i] \in Value(i)
Partial(conf) == conf = [i \in ItemSet |-> conf[i]] /\ \A i \in ItemSet : conf[i] = NoValue \/ conf[i] \in Value(i)
Fields == {"stage", "cmd", "outcome", "conf", "todo", "room", "xml", "doubt", "solo", "before"}
Local(l) ==
    /\ l = [f \in Fields |-> l[f]]
    /\ l.stage \in {"idle", "locate", "read", "edit", "loadFile", "saveFile", "create", "write"}
    /\ l.stage # "idle" => l.cmd \in Commands /\ Complete(l.conf)
    /\ Partial(l.xml) /\ l.solo \subseteq ItemSet /\ l.doubt \in BOOLEAN

\* Every variable holds a value of its kind: in particular nothing that was not
\* read from somewhere is ever written (reg_config starts complete).
TypeOK ==
    /\ keys = [n \in Names |-> keys[n]] /\ \A n \in Registered : Partial(keys[n])
    /\ vhd \subseteq Names /\ doubtful \subseteq Names
    /\ file # NoValue => Partial(file)
    /\ proc = [p \in Procs |-> proc[p]] /\ \A p \in Procs : Local(proc[p])
    /\ issued \in Nat /\ mishaps \in Nat

\* No change gets lost and none is invented: every value is what the commands that
\* ended have made of it, each whole or, if it was refused, not at all.  Only commands
\* that write the same value of the same distribution at the same time (add-env,
\* remove-env: main.cpp reads the list and writes it back) can undo each other, but what
\* each writes is still its promise on one value that was there while it ran, never on a
\* part of one or a mixture of several (get_dynamic).  A command that failed or was
\* killed may have written its value or not.
Accounted == \A n \in Registered, i \in ItemSet : Effective(n, i) \in promised[n][i]

\* The mark of WSL 2 among the flags, which set_flags takes care to keep, tells what
\* the directory holds, in any interleaving and after any failure, unless the flags
\* came from a file or were missing when they were read: import-config and "-c" take
\* them as they are, and a distribution is without flags until "register" writes them.
MarkKept == \A n \in Registered \ doubtful :
    keys[n]["flags"] # NoValue => (n \in vhd <=> "wsl2" \in keys[n]["flags"])

\* What export-config writes is what the distribution has, so that importing the file
\* back changes nothing, the WSL 2 mark included; it reads the values one by one, and one
\* that others wrote meanwhile is whole and one that was there while it ran.
ExportIsCurrent ==
    [][\A p \in Procs : At(p, "saveFile") /\ proc'[p].outcome = "ok" =>
         \A i \in ItemSet : Got(i, LoadFile(Default(FALSE), file')[i]) \in
             IF i \in proc[p].solo THEN promised[proc[p].cmd.name][i] ELSE proc[p].before[i]]_vars
=============================================================================
