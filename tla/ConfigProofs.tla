---------------------------- MODULE ConfigProofs ----------------------------
(***************************************************************************)
(* Proofs about Config, for any number of processes and any commands,      *)
(* files, failing calls and killed processes.                              *)
(***************************************************************************)
EXTENDS Config, WellFoundedInduction, TLAPS

(* The values that a command still has to go through; the flags are the last. *)
TodoLists == {Items, <<"uid", "kernel", "flags">>, <<"kernel", "flags">>, <<"flags">>}
Todos(c) == IF c.op \in Whole THEN TodoLists ELSE {<<Item(c)>>}

(* Which commands come to which stage, and that the keys they work on exist. *)
Going(l) ==
    /\ l.stage = "locate"   => l.cmd.op # "register"
    /\ l.stage = "read"     => /\ l.cmd.op \in Editors \cup {"export-config", "duplicate"}
                               /\ l.todo \in Todos(l.cmd) /\ l.cmd.name \in Registered
    /\ l.stage = "edit"     => l.cmd.op \in Editors /\ l.cmd.name \in Registered
    /\ l.stage = "loadFile" => /\ l.cmd.op \in {"import-config", "register", "duplicate"}
                               /\ l.cmd.op = "duplicate" => l.cmd.name \in Registered
    /\ l.stage = "saveFile" => l.cmd.op = "export-config"
    /\ l.stage = "create"   => /\ l.cmd.op \in {"register", "duplicate"}
                               /\ l.cmd.op = "duplicate" => l.cmd.name \in Registered
    /\ l.stage = "write"    => /\ l.cmd.op # "export-config" /\ l.todo \in Todos(l.cmd)
                               /\ {l.cmd.name, l.cmd.new} \subseteq Registered

(* Whose flags, read or made up, tell what the directory of the distribution holds. *)
HasMark(l) ==
    \/ l.cmd.op = "set-flags" /\ l.stage \in {"edit", "write"}
    \/ l.cmd.op = "duplicate" /\ l.stage \in {"loadFile", "create", "write"}
    \/ l.cmd.op = "register" /\ l.stage \in {"loadFile", "create"} /\ l.cmd.name \notin Registered
    \/ l.cmd.op = "register" /\ l.stage = "write"
Marking(l) ==
    /\ HasMark(l) => l.doubt \/ (l.cmd.name \in vhd <=> "wsl2" \in l.conf["flags"])
    /\ l.cmd.op = "import-config" /\ l.stage \in {"locate", "write"} => l.doubt
    /\ l.cmd.op = "duplicate" /\ l.stage = "write" => (l.cmd.new \in vhd <=> l.cmd.name \in vhd)

(* The inductive invariant. *)
Inv == /\ TypeOK /\ MarkKept
       /\ \A p \in Procs : Going(proc[p]) /\ Marking(proc[p])

-----------------------------------------------------------------------------
(* Commands and lists *)

Ops == Setters \cup Editors \cup Whole

\* What a command of this instance is, whatever its kind.
LEMMA CommandOK ==
  ASSUME NEW c \in Commands
  PROVE  /\ c.op \in Ops /\ c.name \in Names /\ c.new \in Names
         /\ c.op # "duplicate" => c.new = c.name
         /\ c.op = "import-config" => c.file
         /\ c.op \in Setters => c.arg \in Value(Item(c))
         /\ c.op \in {"add-env", "add-env -f"} => c.arg \in Entries
         /\ c.op = "set-flags" => c.arg \subseteq FlagBits
<1>1. c \in CommandTypes
  BY ConfigAssumption
<1>2. \A list \in EnvLists : list \in Seq(Entries \cup {Blank})
  BY ConfigAssumption
<1>3. (c.op = "import-config" => c.file) /\ (c.op # "duplicate" => c.new = c.name)
  BY ConfigAssumption
<1> QED BY <1>1, <1>2, <1>3 DEF CommandTypes, Ops, Setters, Editors, Whole, Value, Item

\* The four values.
LEMMA ItemIn == \A c : Item(c) \in ItemSet
BY DEF Item, ItemSet

\* Going through the values: the next one is one, and what is left is left to do; of a
\* command on all four, the flags are the last.
LEMMA TodoStep ==
  ASSUME NEW c, NEW todo \in Todos(c)
  PROVE  /\ todo # <<>> /\ Head(todo) \in ItemSet
         /\ Tail(todo) # <<>> => Tail(todo) \in Todos(c) /\ Head(todo) # "flags"
         /\ c.op \notin Whole => Head(todo) = Item(c) /\ Tail(todo) = <<>>
         /\ c.op \in Whole => (Tail(todo) = <<>> <=> Head(todo) = "flags")
<1>1. CASE c.op \in Whole
  <2> DEFINE Good(t) == /\ t # <<>> /\ Head(t) \in ItemSet
                        /\ Tail(t) # <<>> => Tail(t) \in TodoLists /\ Head(t) # "flags"
                        /\ Tail(t) = <<>> <=> Head(t) = "flags"
  <2>1. Good(<<"flags">>)
    BY DEF ItemSet
  <2>2. Good(<<"kernel", "flags">>)
    <3>1. Tail(<<"kernel", "flags">>) = <<"flags">> /\ Head(<<"kernel", "flags">>) = "kernel"
      OBVIOUS
    <3> QED BY <3>1 DEF ItemSet, TodoLists
  <2>3. Good(<<"uid", "kernel", "flags">>)
    <3>1. /\ Tail(<<"uid", "kernel", "flags">>) = <<"kernel", "flags">>
          /\ Head(<<"uid", "kernel", "flags">>) = "uid"
      OBVIOUS
    <3> QED BY <3>1 DEF ItemSet, TodoLists
  <2>4. Good(Items)
    <3>1. Tail(Items) = <<"uid", "kernel", "flags">> /\ Head(Items) = "env" /\ Items # <<>>
      BY DEF Items
    <3> QED BY <3>1 DEF ItemSet, TodoLists
  <2>5. todo \in TodoLists /\ TodoLists = Todos(c)
    BY <1>1 DEF Todos
  <2> HIDE DEF Good
  <2>6. Good(todo)
    BY <2>1, <2>2, <2>3, <2>4, <2>5 DEF TodoLists
  <2> QED BY <1>1, <2>5, <2>6 DEF Good
<1>2. CASE c.op \notin Whole
  <2>1. todo = <<Item(c)>>
    BY <1>2 DEF Todos
  <2>2. todo # <<>> /\ Head(todo) = Item(c) /\ Tail(todo) = <<>>
    BY <2>1
  <2> QED BY <1>2, <2>2, ItemIn
<1> QED BY <1>1, <1>2

\* A stage begins with all of its values.
LEMMA OrderedTodo ==
  ASSUME NEW c
  PROVE  Ordered(Desired(c)) \in Todos(c)
<1>1. CASE c.op \in Whole
  BY <1>1 DEF Ordered, Desired, Todos, TodoLists
<1>2. CASE c.op \notin Whole
  <2>1. {Item(c)} # ItemSet /\ {Item(c)} # {} /\ (CHOOSE i \in {Item(c)} : TRUE) = Item(c)
    BY DEF ItemSet
  <2> QED BY <1>2, <2>1 DEF Ordered, Desired, Todos
<1> QED BY <1>1, <1>2

-----------------------------------------------------------------------------
(* Values *)

Lines == Seq(Entries \cup {Blank})

\* No value is the mark for "does not exist".
LEMMA ValueExists == ASSUME NEW i \in ItemSet, NEW v \in Value(i) PROVE v # NoValue
BY ConfigAssumption DEF Value

\* What reg_config starts with is complete.
LEMMA DefaultOK == ASSUME NEW wsl2 \in BOOLEAN PROVE Complete(Default(wsl2))
<1>1. DefaultEnv \in Lines /\ DefaultPlain \in Plain
  BY ConfigAssumption DEF Lines
<1>2. FlagsMask \cup (IF wsl2 THEN {"wsl2"} ELSE {}) \subseteq FlagBits
  BY DEF FlagsMask, FlagBits
<1>3. \A i \in ItemSet : Default(wsl2)[i] \in Value(i)
  BY <1>1, <1>2 DEF Default, Value, Lines
<1>4. Default(wsl2) = [i \in ItemSet |-> Default(wsl2)[i]]
  BY DEF Default
<1> QED BY <1>3, <1>4, ValueExists DEF Complete

\* A configuration with one value replaced by another of its kind is one.
LEMMA PutOK ==
  ASSUME NEW conf, Complete(conf), NEW i \in ItemSet, NEW v \in Value(i)
  PROVE  /\ Complete([conf EXCEPT ![i] = v])
         /\ i # "flags" => [conf EXCEPT ![i] = v]["flags"] = conf["flags"]
         /\ [conf EXCEPT ![i] = v][i] = v
<1> DEFINE new == [conf EXCEPT ![i] = v]
<1>1. new = [j \in ItemSet |-> IF j = i THEN v ELSE conf[j]]
  BY DEF Complete
<1>2. \A j \in ItemSet : new[j] \in Value(j)
  BY <1>1 DEF Complete
<1>3. new = [j \in ItemSet |-> new[j]]
  BY <1>1
<1>4. "flags" \in ItemSet
  BY DEF ItemSet
<1> HIDE DEF new
<1>5. Complete(new)
  BY <1>2, <1>3, ValueExists DEF Complete
<1> QED BY <1>1, <1>4, <1>5 DEF new

\* Min of the community modules, of numbers.
LEMMA MinIn ==
  ASSUME NEW S \in SUBSET Nat, S # {}
  PROVE  Min(S) \in S /\ \A y \in S : Min(S) <= y
<1> DEFINE R == OpToRel(<, Nat)
<1>1. PICK x \in S : \A y \in S : ~ (<<y, x>> \in R)
  BY NatLessThanWellFounded, WFMin
<1>2. \A y \in S : x <= y
  <2> SUFFICES ASSUME NEW y \in S PROVE x <= y
    OBVIOUS
  <2>1. ~(y < x)
    BY <1>1 DEF OpToRel
  <2> QED BY <2>1
<1> QED BY <1>1, <1>2 DEF Min

\* Where a list has the first of something, if it has any.
LEMMA SelectedIn ==
  ASSUME NEW list \in Lines, NEW I \in SUBSET (1 .. Len(list))
  PROVE  (IF I # {} THEN Min(I) ELSE 0) \in 0 .. Len(list)
<1>1. Len(list) \in Nat
  BY DEF Lines
<1>2. CASE I # {}
  <2>1. I \in SUBSET Nat
    BY <1>1
  <2>2. Min(I) \in 1 .. Len(list)
    BY <1>2, <2>1, MinIn
  <2> QED BY <1>1, <1>2, <2>2
<1> QED BY <1>1, <1>2

\* The part of a list in front of an empty line, and the list without one entry, are lists.
LEMMA PartOfList ==
  ASSUME NEW list \in Lines, NEW var
  PROVE  Listed(list) \in Lines /\ Erased(list, var) \in Lines
<1>1. FirstBlank(list) \in 0 .. Len(list)
  BY SelectedIn DEF FirstBlank, SelectInSeq
<1>2. Found(list, var) \in 0 .. Len(list)
  BY SelectedIn DEF Found, SelectInSeq
<1>3. \A a, b \in Nat : b <= Len(list) => SubSeq(list, a + 1, b) \in Lines
  BY DEF Lines
<1>4. Listed(list) \in Lines
  <2>1. CASE FirstBlank(list) = 0
    BY <2>1 DEF Listed
  <2>2. CASE FirstBlank(list) # 0
    <3>1. FirstBlank(list) - 1 \in Nat /\ FirstBlank(list) - 1 <= Len(list)
      BY <1>1, <2>2 DEF Lines
    <3>2. SubSeq(list, 0 + 1, FirstBlank(list) - 1) \in Lines
      BY <1>3, <3>1
    <3> QED BY <2>2, <3>2 DEF Listed
  <2> QED BY <2>1, <2>2
<1>5. Erased(list, var) \in Lines
  <2>1. CASE Found(list, var) = 0
    BY <2>1 DEF Erased
  <2>2. CASE Found(list, var) # 0
    <3>1. Found(list, var) \in Nat /\ Found(list, var) - 1 \in Nat /\ Found(list, var) - 1 <= Len(list)
      BY <1>2, <2>2 DEF Lines
    <3>2. SubSeq(list, 0 + 1, Found(list, var) - 1) \in Lines /\ SubSeq(list, Found(list, var) + 1, Len(list)) \in Lines
      BY <1>3, <3>1 DEF Lines
    <3>3. \A s, t \in Lines : s \o t \in Lines
      BY DEF Lines
    <3> QED BY <2>2, <3>2, <3>3 DEF Erased, RemoveAt
  <2> QED BY <2>1, <2>2
<1> QED BY <1>4, <1>5

\* A value that was read is a value, and a list that an entry was put into is a list.
LEMMA GotOK ==
  ASSUME NEW i \in ItemSet, NEW v \in Value(i)
  PROVE  Got(i, v) \in Value(i) /\ (i = "flags" => Got(i, v) = v)
BY PartOfList DEF Got, Value, Lines

LEMMA EditedOK ==
  ASSUME NEW list \in Lines, NEW e \in Entries, NEW var
  PROVE  /\ Erased(list, var) \in Value("env")
         /\ Append(Erased(list, var), e) \in Value("env")
<1>1. Erased(list, var) \in Lines
  BY PartOfList
<1> QED BY <1>1 DEF Value, Lines

\* What a command begins with is complete.
LEMMA BegunOK == ASSUME NEW c \in Commands PROVE Complete(Begun(c))
<1>1. CASE c.op \in Setters
  BY <1>1, CommandOK, ItemIn, DefaultOK, PutOK DEF Begun
<1>2. CASE c.op \notin Setters
  BY <1>2, DefaultOK DEF Begun
<1> QED BY <1>1, <1>2

\* A file on top of a configuration; flags that it does not have stay.
LEMMA LoadOK ==
  ASSUME NEW conf, Complete(conf), NEW xml, Partial(xml)
  PROVE  /\ Complete(LoadFile(conf, xml))
         /\ xml["flags"] = NoValue => LoadFile(conf, xml)["flags"] = conf["flags"]
<1>1. "flags" \in ItemSet
  BY DEF ItemSet
<1>2. \A i \in ItemSet : LoadFile(conf, xml)[i] \in Value(i) /\ LoadFile(conf, xml)[i] # NoValue
  BY DEF LoadFile, Complete, Partial
<1> QED BY <1>1, <1>2 DEF LoadFile, Complete

-----------------------------------------------------------------------------
(* Stages *)

\* Where a command goes from where it is.
LEMMA AfterIs ==
  ASSUME NEW c, c.op \in Ops
  PROVE  /\ c.op \in Setters \cup {"import-config"} => After(c, "locate") = "write"
         /\ c.op \notin Setters \cup {"import-config"} => After(c, "locate") = "read"
         /\ c.op \in Editors => After(c, "read") = "edit"
         /\ c.op = "export-config" => After(c, "read") = "saveFile"
         /\ c.op = "duplicate" => After(c, "read") \in {"loadFile", "create"}
         /\ c.op = "import-config" => After(c, "loadFile") = "locate"
         /\ c.op # "import-config" => After(c, "loadFile") = "create"
         /\ After(c, "edit") = "write" /\ After(c, "create") = "write" /\ After(c, "saveFile") = "idle"
BY DEF After, Ops, Setters, Editors, Whole

\* A command that is over, however it ended, fits the invariant.
LEMMA RestOK ==
  ASSUME NEW cmd, NEW outcome
  PROVE  Local(Rest(cmd, outcome)) /\ Going(Rest(cmd, outcome)) /\ Marking(Rest(cmd, outcome))
<1> DEFINE l == Rest(cmd, outcome)
<1>1. l = [f \in Fields |-> l[f]]
  BY DEF Rest, Fields
<1>4. /\ l.stage = "idle" /\ l.xml = NoConfig /\ l.solo = {} /\ l.doubt = FALSE
  BY DEF Rest
<1>2. Partial(NoConfig)
  BY DEF Partial, NoConfig
<1> HIDE DEF l
<1>3. Local(l) /\ Going(l) /\ Marking(l)
  BY <1>1, <1>2, <1>4 DEF Local, Going, Marking, HasMark
<1> QED BY <1>3 DEF l

\* Entering a stage changes nothing of what the command knows.
LEMMA EnterOK ==
  ASSUME NEW l, Local(l), l.cmd \in Commands, Complete(l.conf),
         NEW stage \in {"locate", "read", "edit", "loadFile", "saveFile", "create", "write"}
  PROVE  /\ Local(Enter(l, stage)) /\ Enter(l, stage).stage = stage
         /\ Enter(l, stage).cmd = l.cmd /\ Enter(l, stage).conf = l.conf /\ Enter(l, stage).doubt = l.doubt
         /\ stage = "read" /\ Reads(l.cmd) = Desired(l.cmd) => Enter(l, stage).todo \in Todos(l.cmd)
         /\ stage = "write" /\ Writes(l.cmd) = Desired(l.cmd) => Enter(l, stage).todo \in Todos(l.cmd)
<1> DEFINE todo == Ordered(IF stage = "read" THEN Reads(l.cmd) ELSE IF stage = "write" THEN Writes(l.cmd) ELSE {})
           m == Enter(l, stage)
<1>1. m = [l EXCEPT !.stage = stage, !.room = NoValue, !.todo = todo]
  BY DEF Enter
<1>2. /\ stage = "read" /\ Reads(l.cmd) = Desired(l.cmd) => todo \in Todos(l.cmd)
      /\ stage = "write" /\ Writes(l.cmd) = Desired(l.cmd) => todo \in Todos(l.cmd)
  BY OrderedTodo
<1>3. l = [f \in Fields |-> l[f]]
  BY DEF Local
<1> HIDE DEF todo, m
<1>4. /\ m = [f \in Fields |-> m[f]] /\ m.stage = stage /\ m.todo = todo
      /\ m.cmd = l.cmd /\ m.conf = l.conf /\ m.doubt = l.doubt /\ m.xml = l.xml /\ m.solo = l.solo
  BY <1>1, <1>3 DEF Fields
<1>5. Local(m)
  BY <1>4 DEF Local
<1> QED BY <1>2, <1>4, <1>5 DEF m

\* A step of one process that leaves the registry alone.
LEMMA BecomeOK ==
  ASSUME Inv, NEW p \in Procs, NEW l, Become(p, l), Local(l), Going(l), Marking(l),
         UNCHANGED <<keys, vhd, doubtful>>, file' # NoValue => Partial(file'), issued' \in Nat, mishaps' \in Nat
  PROVE  Inv'
<1>1. proc' = [q \in Procs |-> IF q = p THEN l ELSE proc[q]]
  BY DEF Inv, TypeOK, Become
<1>2. Registered' = Registered
  BY DEF Registered
<1>3. \A q \in Procs : Local(proc'[q]) /\ Going(proc[q])' /\ Marking(proc[q])'
  <2> SUFFICES ASSUME NEW q \in Procs PROVE Local(proc'[q]) /\ Going(proc[q])' /\ Marking(proc[q])'
    OBVIOUS
  <2> DEFINE m == IF q = p THEN l ELSE proc[q]
  <2>1. proc'[q] = m
    BY <1>1
  <2>2. Local(m) /\ Going(m) /\ Marking(m)
    BY DEF Inv, TypeOK
  <2> HIDE DEF m
  <2> QED BY <1>2, <2>1, <2>2 DEF Going, Marking, HasMark
<1>4. MarkKept'
  BY <1>2 DEF Inv, MarkKept
<1>5. TypeOK'
  <2>1. proc' = [q \in Procs |-> proc'[q]]
    BY <1>1
  <2> QED BY <1>2, <1>3, <2>1 DEF Inv, TypeOK, Local
<1> QED BY <1>3, <1>4, <1>5 DEF Inv


(* What a command must have got at a stage to go on from there. *)
Done(l) ==
    /\ l.stage = "locate"   => l.cmd.op # "register" /\ l.cmd.name \in Registered
    /\ l.stage = "read"     => /\ l.cmd.op \in Editors \cup {"export-config", "duplicate"}
                               /\ l.cmd.name \in Registered
    /\ l.stage = "edit"     => l.cmd.op \in Editors /\ l.cmd.name \in Registered
    /\ l.stage = "loadFile" => /\ l.cmd.op \in {"import-config", "register", "duplicate"}
                               /\ l.cmd.op = "duplicate" => l.cmd.name \in Registered
    /\ l.stage = "saveFile" => l.cmd.op = "export-config"
    /\ l.cmd.op = "import-config" /\ l.stage \in {"loadFile", "locate"} => l.doubt
    /\ \/ l.cmd.op \in {"set-flags", "duplicate"} /\ l.stage \in {"read", "edit", "loadFile"}
       \/ l.cmd.op = "register" /\ l.stage = "loadFile" /\ l.cmd.name \notin Registered
       => l.doubt \/ (l.cmd.name \in vhd <=> "wsl2" \in l.conf["flags"])

\* With that the next stage is entered as the invariant wants it.
LEMMA OnwardOK ==
  ASSUME NEW l, Local(l), l.cmd \in Commands, Complete(l.conf), Done(l),
         l.stage \in {"locate", "read", "edit", "loadFile"}
  PROVE  Local(Onward(l)) /\ Going(Onward(l)) /\ Marking(Onward(l))
<1> DEFINE c == l.cmd
           next == After(c, l.stage)
           m == Enter(l, next)
<1>1. /\ c.op \in Ops /\ (c.op # "duplicate" => c.new = c.name)
      /\ Setters \cap (Editors \cup Whole) = {} /\ Editors \cap Whole = {}
  BY CommandOK DEF Setters, Editors, Whole
<1>2. /\ l.stage = "locate" => next \in {"write", "read"}
      /\ l.stage = "read" => next \in {"edit", "saveFile", "loadFile", "create"}
      /\ l.stage = "edit" => next = "write"
      /\ l.stage = "loadFile" => next \in {"locate", "create"}
  BY <1>1, AfterIs DEF Ops, Done
<1>3. next \in {"locate", "read", "edit", "loadFile", "saveFile", "create", "write"}
  BY <1>2
<1>4. Onward(l) = m
  BY DEF Onward
<1>5. Reads(c) = Desired(c) \/ c.op \in Setters \cup {"import-config", "register"}
  BY DEF Reads
<1>6. Writes(c) = Desired(c) \/ c.op = "export-config"
  BY DEF Writes
<1>7. /\ Local(m) /\ m.stage = next /\ m.cmd = c /\ m.conf = l.conf /\ m.doubt = l.doubt
      /\ next = "read" /\ Reads(c) = Desired(c) => m.todo \in Todos(c)
      /\ next = "write" /\ Writes(c) = Desired(c) => m.todo \in Todos(c)
  BY <1>3, EnterOK
<1> HIDE DEF m, next
<1>8. CASE l.stage = "locate"
  <2>1. CASE next = "write"
    <3>1. c.op \in Setters \cup {"import-config"}
      BY <1>1, <1>8, <2>1, AfterIs DEF next
    <3>2. c.op \notin Whole \/ c.op = "import-config"
      BY <1>1, <3>1
    <3>3. c.op \notin {"export-config", "set-flags", "duplicate", "register"}
      BY <3>1 DEF Setters
    <3> QED BY <1>1, <1>4, <1>6, <1>7, <1>8, <2>1, <3>3 DEF Done, Going, Marking, HasMark
  <2>2. CASE next = "read"
    <3>1. c.op \notin Setters \cup {"import-config"}
      BY <1>1, <1>8, <2>2, AfterIs DEF next
    <3>2. c.op \in Editors \cup {"export-config", "duplicate"}
      BY <1>1, <1>8, <3>1 DEF Done, Ops, Whole
    <3>3. c.op # "register"
      BY <1>8 DEF Done
    <3> QED BY <1>4, <1>5, <1>7, <1>8, <2>2, <3>1, <3>2, <3>3 DEF Done, Going, Marking, HasMark
  <2> QED BY <1>2, <1>8, <2>1, <2>2
<1>9. CASE l.stage = "read"
  <2>1. CASE c.op \in Editors
    <3>1. next = "edit" /\ c.op \notin {"duplicate", "import-config"}
      BY <1>1, <1>9, <2>1, AfterIs, ZenonT(60) DEF next, Editors
    <3> QED BY <1>4, <1>7, <1>9, <2>1, <3>1 DEF Done, Going, Marking, HasMark
  <2>2. CASE c.op = "export-config"
    <3>1. next = "saveFile"
      BY <1>1, <1>9, <2>2, AfterIs DEF next
    <3> QED BY <1>4, <1>7, <2>2, <3>1 DEF Going, Marking, HasMark
  <2>3. CASE c.op = "duplicate"
    <3>1. next \in {"loadFile", "create"}
      BY <1>1, <1>9, <2>3, AfterIs DEF next
    <3> QED BY <1>4, <1>7, <1>9, <2>3, <3>1 DEF Done, Going, Marking, HasMark
  <2> QED BY <1>9, <2>1, <2>2, <2>3 DEF Done
<1>10. CASE l.stage = "edit"
  <2>1. c.op \in Editors /\ c.op \notin {"export-config", "duplicate", "import-config", "register"}
    BY <1>10 DEF Done, Editors
  <2> QED BY <1>1, <1>2, <1>4, <1>6, <1>7, <1>10, <2>1 DEF Done, Going, Marking, HasMark
<1>11. CASE l.stage = "loadFile"
  <2>1. CASE c.op = "import-config"
    <3>1. next = "locate"
      BY <1>1, <1>11, <2>1, AfterIs DEF next
    <3> QED BY <1>4, <1>7, <1>11, <2>1, <3>1 DEF Done, Going, Marking, HasMark
  <2>2. CASE c.op \in {"register", "duplicate"}
    <3>1. next = "create"
      BY <1>1, <1>11, <2>2, AfterIs DEF next
    <3> QED BY <1>4, <1>7, <1>11, <2>2, <3>1 DEF Done, Going, Marking, HasMark
  <2> QED BY <1>11, <2>1, <2>2 DEF Done
<1> QED BY <1>8, <1>9, <1>10, <1>11


-----------------------------------------------------------------------------
(* Steps that leave the registry alone *)

\* What the invariant says of an active process.
LEMMA ActiveOK ==
  ASSUME Inv, NEW p \in Procs, Active(p)
  PROVE  /\ Local(proc[p]) /\ Going(proc[p]) /\ Marking(proc[p])
         /\ proc[p].cmd \in Commands /\ Complete(proc[p].conf)
BY DEF Inv, TypeOK, Local, Active

\* A command that ends.
LEMMA EndOK ==
  ASSUME Inv, NEW p \in Procs, NEW outcome, End(p, outcome),
         UNCHANGED <<keys, vhd, doubtful>>, file' # NoValue => Partial(file'), issued' \in Nat, mishaps' \in Nat
  PROVE  Inv'
BY RestOK, BecomeOK DEF End

\* A stage that is over.
LEMMA ProceedOK ==
  ASSUME Inv, NEW p \in Procs, NEW l, Local(l), l.cmd \in Commands, Complete(l.conf), Done(l),
         l.stage \in {"locate", "read", "edit", "loadFile", "saveFile"}, Proceed(p, l),
         UNCHANGED <<keys, vhd, doubtful>>, file' # NoValue => Partial(file'), issued' \in Nat, mishaps' \in Nat
  PROVE  Inv'
<1>1. CASE After(l.cmd, l.stage) = "idle"
  BY <1>1, EndOK DEF Proceed
<1>2. CASE After(l.cmd, l.stage) # "idle"
  <2>1. l.stage # "saveFile"
    BY <1>2, AfterIs, CommandOK, ZenonT(60)
  <2>2. Become(p, Onward(l))
    BY <1>2 DEF Proceed
  <2> QED BY <2>1, <2>2, OnwardOK, BecomeOK
<1> QED BY <1>1, <1>2

\* Issue: what a command begins with.
LEMMA IssueOK == ASSUME Inv, NEW p \in Procs, Issue(p) PROVE Inv'
<1>1. PICK c \in Commands :
        Become(p, Enter([Rest(c, "none") EXCEPT !.conf = Begun(c), !.solo = Desired(c), !.before = promised[c.name]],
                        First(c)))
  BY DEF Issue
<1> DEFINE base == [Rest(c, "none") EXCEPT !.conf = Begun(c), !.solo = Desired(c), !.before = promised[c.name]]
           m == Enter(base, First(c))
<1>2. /\ c.op \in Ops /\ c.name \in Names
      /\ Desired(c) \subseteq ItemSet /\ Complete(Begun(c)) /\ Partial(NoConfig)
  BY CommandOK, BegunOK, ItemIn DEF Desired, Partial, NoConfig
<1>3. Rest(c, "none") = [f \in Fields |-> Rest(c, "none")[f]]
  BY RestOK DEF Local
<1>4. /\ base = [f \in Fields |-> base[f]] /\ base.stage = "idle" /\ base.cmd = c /\ base.conf = Begun(c)
      /\ base.xml = NoConfig /\ base.doubt = FALSE /\ base.solo = Desired(c)
  <2>1. LET l == Rest(c, "none") IN l.stage = "idle" /\ l.cmd = c /\ l.xml = NoConfig /\ l.doubt = FALSE
    BY DEF Rest
  <2> QED BY <1>3, <2>1 DEF Fields
<1> HIDE DEF base
<1>10. Local(base)
  BY <1>2, <1>4 DEF Local
<1>5. First(c) \in {"loadFile", "create", "locate"}
  BY DEF First
<1>6. Local(m) /\ m.stage = First(c) /\ m.cmd = c /\ m.conf = Begun(c)
  BY <1>2, <1>4, <1>5, <1>10, EnterOK
<1> HIDE DEF m
<1>7. Going(m)
  BY <1>5, <1>6 DEF First, Going
<1>8. Marking(m)
  <2>1. CASE c.op = "register"
    <3>1. c.name \in vhd <=> "wsl2" \in Begun(c)["flags"]
      <4>1. Begun(c) = Default(c.name \in vhd) /\ "flags" \in ItemSet
        BY <2>1 DEF Begun, Setters, ItemSet
      <4>2. Begun(c)["flags"] = FlagsMask \cup (IF c.name \in vhd THEN {"wsl2"} ELSE {})
        BY <4>1 DEF Default
      <4> QED BY <4>2 DEF FlagsMask
    <3> QED BY <1>5, <1>6, <2>1, <3>1 DEF Marking, HasMark
  <2>2. CASE c.op # "register"
    BY <1>5, <1>6, <2>2 DEF First, Marking, HasMark
  <2> QED BY <2>1, <2>2
<1>9. UNCHANGED <<keys, vhd, doubtful>> /\ (file' # NoValue => Partial(file')) /\ issued' \in Nat /\ mishaps' \in Nat
  BY DEF Issue, Inv, TypeOK, Partial
<1> QED BY <1>1, <1>6, <1>7, <1>8, <1>9, BecomeOK DEF m, base

\* The command has found its distribution, or not.
LEMMA LocateOK == ASSUME Inv, NEW p \in Procs, Locate(p) PROVE Inv'
<1>1. Active(p) /\ proc[p].stage = "locate"
  BY DEF Locate, At, Active
<1>2. UNCHANGED <<keys, vhd, doubtful>> /\ (file' # NoValue => Partial(file')) /\ issued' \in Nat /\ mishaps' \in Nat
  BY DEF Locate, Inv, TypeOK, Partial
<1>3. CASE proc[p].cmd.name \in Registered
  <2>1. Done(proc[p])
    BY <1>1, <1>3, ActiveOK DEF Done, Going, Marking
  <2>2. Proceed(p, proc[p])
    BY <1>3 DEF Locate
  <2> QED BY <1>1, <1>2, <2>1, <2>2, ActiveOK, ProceedOK
<1>4. CASE proc[p].cmd.name \notin Registered
  BY <1>2, <1>4, EndOK DEF Locate, Stop
<1> QED BY <1>3, <1>4

\* Asking for the length of a text or a list.
LEMMA ProbeOK == ASSUME Inv, NEW p \in Procs, Probe(p) PROVE Inv'
<1> DEFINE l == proc[p]
           m == [l EXCEPT !.room = Here(p)]
<1>1. Become(p, m) /\ Active(p)
  BY DEF Probe, At, Active
<1>2. UNCHANGED <<keys, vhd, doubtful>> /\ (file' # NoValue => Partial(file')) /\ issued' \in Nat /\ mishaps' \in Nat
  BY DEF Probe, Inv, TypeOK, Partial
<1>3. Local(l) /\ Going(l) /\ Marking(l)
  BY <1>1, ActiveOK
<1>4. /\ m = [f \in Fields |-> m[f]] /\ m.stage = l.stage /\ m.todo = l.todo
      /\ m.cmd = l.cmd /\ m.conf = l.conf /\ m.doubt = l.doubt /\ m.xml = l.xml /\ m.solo = l.solo
  <2>1. l = [f \in Fields |-> l[f]]
    BY <1>3 DEF Local
  <2> QED BY <2>1 DEF Fields
<1> HIDE DEF m
<1>5. Local(m)
  BY <1>3, <1>4 DEF Local
<1>6. Going(m) /\ Marking(m)
  BY <1>3, <1>4 DEF Going, Marking, HasMark
<1> QED BY <1>1, <1>2, <1>5, <1>6, BecomeOK

\* A value of a registered distribution, if it has it.
LEMMA HereOK ==
  ASSUME Inv, NEW p \in Procs, proc[p].cmd.name \in Registered, Head(proc[p].todo) \in ItemSet
  PROVE  Here(p) = NoValue \/ Here(p) \in Value(Head(proc[p].todo))
BY DEF Inv, TypeOK, Partial, Here

(* What a process has read, unless the value has become longer since it asked. *)
ReadAs(p) ==
    LET i == Head(proc[p].todo)
    IN  [proc[p] EXCEPT !.todo = Tail(@), !.room = NoValue, !.conf[i] = TryGet(i, Here(p), @),
                        !.doubt = @ \/ (i = "flags" /\ (Here(p) = NoValue \/ proc[p].cmd.name \in doubtful))]

\* A value is read as it is in this moment, or the command fails.
LEMMA ReadIs ==
  ASSUME NEW p, Read(p)
  PROVE  \/ Stop(p, "error")
         \/ ReadAs(p).todo = <<>> /\ Proceed(p, ReadAs(p))
         \/ ReadAs(p).todo # <<>> /\ Become(p, ReadAs(p)) /\ promised' = promised
<1> DEFINE i == Head(proc[p].todo)
           read(value) == [proc[p] EXCEPT !.todo = Tail(@), !.room = NoValue, !.conf[i] = TryGet(i, value, @),
                             !.doubt = @ \/ (i = "flags" /\ (value = NoValue \/ proc[p].cmd.name \in doubtful))]
<1>1. PICK value \in Answers(i, proc[p].room, Here(p)) :
        IF value # Here(p) /\ value = NoValue THEN Stop(p, "error")
        ELSE IF read(value).todo = <<>> THEN Proceed(p, read(value))
        ELSE Become(p, read(value)) /\ promised' = promised
  BY DEF Read
<1>2. value = Here(p) \/ value = NoValue
  BY DEF Answers
<1>3. ReadAs(p) = read(Here(p))
  BY DEF ReadAs
<1> HIDE DEF read
<1>4. CASE value = Here(p)
  BY <1>1, <1>3, <1>4
<1>5. CASE value # Here(p)
  BY <1>1, <1>2, <1>5
<1> QED BY <1>4, <1>5

\* Reading a value: the flags of a distribution that is not in doubt are its mark.
LEMMA ReadOK == ASSUME Inv, NEW p \in Procs, Read(p) PROVE Inv'
<1> DEFINE l == proc[p]
           i == Head(l.todo)
           conf == [l.conf EXCEPT ![i] = TryGet(i, Here(p), l.conf[i])]
           doubt == l.doubt \/ (i = "flags" /\ (Here(p) = NoValue \/ l.cmd.name \in doubtful))
           m == [l EXCEPT !.todo = Tail(l.todo), !.room = NoValue, !.conf[i] = TryGet(i, Here(p), l.conf[i]),
                          !.doubt = doubt]
<1>1. Active(p) /\ l.stage = "read"
  BY DEF Read, At, Active
<1>2. UNCHANGED <<keys, vhd, doubtful>> /\ (file' # NoValue => Partial(file')) /\ issued' \in Nat /\ mishaps' \in Nat
  BY DEF Read, Inv, TypeOK, Partial
<1>3. \/ Stop(p, "error")
      \/ m.todo = <<>> /\ Proceed(p, m)
      \/ m.todo # <<>> /\ Become(p, m)
  <2>1. m = ReadAs(p)
    BY DEF ReadAs
  <2> HIDE DEF m
  <2> QED BY <2>1, ReadIs
<1>4. Local(l) /\ Going(l) /\ Marking(l) /\ l.cmd \in Commands /\ Complete(l.conf)
  BY <1>1, ActiveOK
<1>5. /\ l.cmd.op \in Editors \cup {"export-config", "duplicate"}
      /\ l.todo \in Todos(l.cmd) /\ l.cmd.name \in Registered
  BY <1>1, <1>4 DEF Going
<1>6. /\ i \in ItemSet
      /\ Tail(l.todo) # <<>> => Tail(l.todo) \in Todos(l.cmd)
      /\ Tail(l.todo) = <<>> /\ l.cmd.op \in {"set-flags", "duplicate"} => i = "flags"
  <2>1. l.cmd.op = "set-flags" => Item(l.cmd) = "flags" /\ l.cmd.op \notin Whole
    BY DEF Item, Whole
  <2>2. l.cmd.op = "duplicate" => l.cmd.op \in Whole
    BY DEF Whole
  <2> QED BY <1>5, <2>1, <2>2, TodoStep
<1>7. TryGet(i, Here(p), l.conf[i]) \in Value(i) /\ (Here(p) # NoValue /\ i = "flags" => TryGet(i, Here(p), l.conf[i]) = Here(p))
  <2>1. CASE Here(p) = NoValue
    BY <1>4, <1>6, <2>1 DEF TryGet, Complete
  <2>2. CASE Here(p) # NoValue
    <3>1. Here(p) \in Value(i)
      BY <1>5, <1>6, <2>2, HereOK
    <3> QED BY <1>6, <2>2, <3>1, GotOK DEF TryGet
  <2> QED BY <2>1, <2>2
<1>8. Complete(conf) /\ conf[i] = TryGet(i, Here(p), l.conf[i])
  BY <1>4, <1>6, <1>7, PutOK
<1>9. doubt \in BOOLEAN
  BY <1>4 DEF Local
<1>10. /\ m = [f \in Fields |-> m[f]] /\ m.stage = "read" /\ m.todo = Tail(l.todo)
       /\ m.cmd = l.cmd /\ m.conf = conf /\ m.doubt = doubt /\ m.xml = l.xml /\ m.solo = l.solo
  <2>1. l = [f \in Fields |-> l[f]]
    BY <1>4 DEF Local
  <2> HIDE DEF doubt, i
  <2>2. m = [l EXCEPT !.todo = Tail(l.todo), !.room = NoValue, !.conf = conf, !.doubt = doubt]
    BY <2>1 DEF Fields
  <2> HIDE DEF m, conf
  <2> QED BY <1>1, <2>1, <2>2 DEF Fields
<1> HIDE DEF m
<1>11. Local(m)
  BY <1>4, <1>8, <1>9, <1>10, Zenon DEF Local
<1>12. CASE Stop(p, "error")
  BY <1>2, <1>12, EndOK DEF Stop
<1>13. CASE m.todo = <<>> /\ Proceed(p, m)
  <2>1. l.cmd.op \in {"set-flags", "duplicate"} => doubt \/ (l.cmd.name \in vhd <=> "wsl2" \in conf["flags"])
    <3>1. SUFFICES ASSUME l.cmd.op \in {"set-flags", "duplicate"}, ~doubt
                   PROVE  l.cmd.name \in vhd <=> "wsl2" \in conf["flags"]
      OBVIOUS
    <3>2. i = "flags" /\ Here(p) # NoValue /\ l.cmd.name \notin doubtful
      BY <1>6, <1>10, <1>13, <3>1
    <3>3. conf["flags"] = keys[l.cmd.name]["flags"] /\ keys[l.cmd.name]["flags"] # NoValue
      BY <1>7, <1>8, <3>2 DEF Here
    <3> QED BY <1>5, <3>2, <3>3 DEF Inv, MarkKept
  <2>2. l.cmd.op # "import-config" /\ l.cmd.op # "register"
    BY <1>5 DEF Editors
  <2> HIDE DEF doubt, conf, i
  <2>3. Done(m)
    BY <1>5, <1>10, <2>1, <2>2 DEF Done
  <2> QED BY <1>2, <1>4, <1>8, <1>10, <1>11, <1>13, <2>3, ProceedOK
<1>14. CASE m.todo # <<>> /\ Become(p, m)
  <2>1. Going(m)
    BY <1>5, <1>6, <1>10, <1>14 DEF Going
  <2>2. Marking(m)
    BY <1>10 DEF Marking, HasMark
  <2> QED BY <1>2, <1>11, <1>14, <2>1, <2>2, BecomeOK
<1> QED BY <1>3, <1>12, <1>13, <1>14

\* A value changed between reading and writing.
LEMMA ChangedOK ==
  ASSUME Inv, NEW p \in Procs, proc[p].stage = "edit", NEW i \in ItemSet, NEW v \in Value(i),
         Proceed(p, [proc[p] EXCEPT !.conf[i] = v]),
         proc[p].cmd.op = "set-flags" => i = "flags" /\ ("wsl2" \in v <=> "wsl2" \in proc[p].conf["flags"]),
         UNCHANGED <<keys, vhd, doubtful>>, file' # NoValue => Partial(file'), issued' \in Nat, mishaps' \in Nat
  PROVE  Inv'
<1> DEFINE l == proc[p]
           conf == [l.conf EXCEPT ![i] = v]
           m == [l EXCEPT !.conf[i] = v]
<1>1. Local(l) /\ Going(l) /\ Marking(l) /\ l.cmd \in Commands /\ Complete(l.conf)
  BY ActiveOK DEF Active
<1>2. Complete(conf) /\ conf[i] = v
  BY <1>1, PutOK
<1>3. /\ m = [f \in Fields |-> m[f]] /\ m.stage = "edit"
      /\ m.cmd = l.cmd /\ m.conf = conf /\ m.doubt = l.doubt /\ m.xml = l.xml /\ m.solo = l.solo
  <2>1. l = [f \in Fields |-> l[f]]
    BY <1>1 DEF Local
  <2>2. m = [l EXCEPT !.conf = conf]
    BY <2>1 DEF Fields
  <2> HIDE DEF m, conf
  <2> QED BY <2>1, <2>2 DEF Fields
<1> HIDE DEF m, conf
<1>4. Local(m)
  BY <1>1, <1>2, <1>3 DEF Local
<1>5. l.cmd.op \in Editors /\ l.cmd.name \in Registered
  BY <1>1 DEF Going
<1>6. Done(m)
  <2>1. l.cmd.op = "set-flags" => l.doubt \/ (l.cmd.name \in vhd <=> "wsl2" \in conf["flags"])
    BY <1>1, <1>2 DEF Marking, HasMark
  <2> QED BY <1>3, <1>5, <2>1 DEF Done, Editors
<1> QED BY <1>1, <1>2, <1>3, <1>4, <1>6, ProceedOK DEF m

\* add-env, remove-env and set-flags; set_flags keeps the mark.
LEMMA EditOK == ASSUME Inv, NEW p \in Procs, Edit(p) PROVE Inv'
<1> DEFINE l == proc[p]
           c == l.cmd
           env == l.conf["env"]
<1>1. Active(p) /\ l.stage = "edit"
  BY DEF Edit, At, Active
<1>2. UNCHANGED <<keys, vhd, doubtful>> /\ (file' # NoValue => Partial(file')) /\ issued' \in Nat /\ mishaps' \in Nat
  BY DEF Edit, Inv, TypeOK, Partial
<1>3. Local(l) /\ Going(l) /\ c \in Commands /\ Complete(l.conf) /\ c.op \in Editors
  BY <1>1, ActiveOK DEF Going
<1>4. env \in Lines /\ "env" \in ItemSet /\ "flags" \in ItemSet /\ l.conf["flags"] \in SUBSET FlagBits
  BY <1>3 DEF Complete, Value, ItemSet, Lines
<1>5. \/ Stop(p, "refused")
      \/ c.op \in {"add-env", "add-env -f"} /\ Proceed(p, [l EXCEPT !.conf["env"] = Append(Erased(env, c.arg.var), c.arg)])
      \/ c.op = "remove-env" /\ Proceed(p, [l EXCEPT !.conf["env"] = Erased(env, c.arg)])
      \/ c.op = "set-flags" /\ Proceed(p, [l EXCEPT !.conf["flags"] = SetFlags(l.conf["flags"], c.arg)])
  BY <1>3, ZenonT(60) DEF Edit, Editors
<1>6. CASE Stop(p, "refused")
  BY <1>2, <1>6, EndOK DEF Stop
<1>7. CASE c.op \in {"add-env", "add-env -f"} /\ Proceed(p, [l EXCEPT !.conf["env"] = Append(Erased(env, c.arg.var), c.arg)])
  <2>1. Append(Erased(env, c.arg.var), c.arg) \in Value("env")
    BY <1>3, <1>4, <1>7, CommandOK, EditedOK
  <2> QED BY <1>1, <1>2, <1>4, <1>7, <2>1, ChangedOK
<1>8. CASE c.op = "remove-env" /\ Proceed(p, [l EXCEPT !.conf["env"] = Erased(env, c.arg)])
  <2>1. Erased(env, c.arg) \in Value("env")
    BY <1>4, PartOfList DEF Value, Lines
  <2> QED BY <1>1, <1>2, <1>4, <1>8, <2>1, ChangedOK
<1>9. CASE c.op = "set-flags" /\ Proceed(p, [l EXCEPT !.conf["flags"] = SetFlags(l.conf["flags"], c.arg)])
  <2>1. /\ SetFlags(l.conf["flags"], c.arg) \in Value("flags")
        /\ "wsl2" \in SetFlags(l.conf["flags"], c.arg) <=> "wsl2" \in l.conf["flags"]
    BY <1>4 DEF SetFlags, FlagsMask, FlagBits, Value
  <2> QED BY <1>1, <1>2, <1>4, <1>9, <2>1, ChangedOK
<1> QED BY <1>5, <1>6, <1>7, <1>8, <1>9

\* load_file: flags in the file are in doubt, without them those that were read stay.
LEMMA OpenFileOK == ASSUME Inv, NEW p \in Procs, OpenFile(p) PROVE Inv'
<1> DEFINE l == proc[p]
           conf == LoadFile(l.conf, file)
           doubt == l.doubt \/ l.cmd.op = "import-config" \/ file["flags"] # NoValue
           m == [l EXCEPT !.xml = file, !.conf = conf, !.doubt = doubt]
<1>1. Active(p) /\ l.stage = "loadFile"
  BY DEF OpenFile, At, Active
<1>2. UNCHANGED <<keys, vhd, doubtful>> /\ (file' # NoValue => Partial(file')) /\ issued' \in Nat /\ mishaps' \in Nat
  BY DEF OpenFile, Inv, TypeOK, Partial
<1>3. Local(l) /\ Going(l) /\ Marking(l) /\ l.cmd \in Commands /\ Complete(l.conf)
  BY <1>1, ActiveOK
<1>4. Stop(p, "error") \/ (file # NoValue /\ Proceed(p, m))
  BY DEF OpenFile
<1>5. CASE Stop(p, "error")
  BY <1>2, <1>5, EndOK DEF Stop
<1>6. CASE file # NoValue /\ Proceed(p, m)
  <2>1. Partial(file)
    BY <1>6 DEF Inv, TypeOK
  <2>2. Complete(conf) /\ (file["flags"] = NoValue => conf["flags"] = l.conf["flags"])
    BY <1>3, <2>1, LoadOK
  <2>3. doubt \in BOOLEAN
    BY <1>3 DEF Local
  <2> HIDE DEF conf
  <2>4. /\ m = [f \in Fields |-> m[f]] /\ m.stage = "loadFile"
        /\ m.cmd = l.cmd /\ m.conf = conf /\ m.doubt = doubt /\ m.xml = file /\ m.solo = l.solo
    <3>1. l = [f \in Fields |-> l[f]]
      BY <1>3 DEF Local
    <3> HIDE DEF doubt
    <3> QED BY <1>1, <3>1 DEF Fields
  <2> HIDE DEF m
  <2>5. Local(m)
    BY <1>3, <2>1, <2>2, <2>3, <2>4 DEF Local
  <2>6. Done(m)
    <3>1. /\ l.cmd.op \in {"import-config", "register", "duplicate"}
          /\ l.cmd.op = "duplicate" => l.cmd.name \in Registered
      BY <1>1, <1>3 DEF Going
    <3>2. l.cmd.op = "duplicate" \/ (l.cmd.op = "register" /\ l.cmd.name \notin Registered)
          => doubt \/ (l.cmd.name \in vhd <=> "wsl2" \in conf["flags"])
      BY <1>1, <1>3, <2>2 DEF Marking, HasMark
    <3>3. l.cmd.op = "import-config" => doubt
      OBVIOUS
    <3> HIDE DEF doubt, l
    <3>4. CASE l.cmd.op = "import-config"
      BY <2>4, <3>3, <3>4 DEF Done
    <3>5. CASE l.cmd.op = "register"
      BY <2>4, <3>2, <3>5 DEF Done
    <3>6. CASE l.cmd.op = "duplicate"
      BY <2>4, <3>1, <3>2, <3>6 DEF Done
    <3> QED BY <3>1, <3>4, <3>5, <3>6
  <2> QED BY <1>2, <1>3, <1>6, <2>2, <2>4, <2>5, <2>6, ProceedOK
<1> QED BY <1>4, <1>5, <1>6

\* save_file.
LEMMA SaveFileOK == ASSUME Inv, NEW p \in Procs, SaveFile(p) PROVE Inv'
<1>1. Active(p) /\ proc[p].stage = "saveFile"
  BY DEF SaveFile, At, Active
<1>2. Proceed(p, proc[p]) /\ file' = proc[p].conf /\ UNCHANGED <<keys, vhd, doubtful>> /\ issued' \in Nat /\ mishaps' \in Nat
  BY DEF SaveFile, Saved, Inv, TypeOK
<1>3. Local(proc[p]) /\ Going(proc[p]) /\ proc[p].cmd \in Commands /\ Complete(proc[p].conf)
  BY <1>1, ActiveOK
<1>4. Partial(file')
  BY <1>2, <1>3 DEF Complete, Partial
<1>5. Done(proc[p])
  BY <1>1, <1>3 DEF Done, Going
<1> QED BY <1>1, <1>2, <1>3, <1>4, <1>5, ProceedOK

\* A call that fails, a process that is killed.
LEMMA MishapOK == ASSUME Inv, NEW p \in Procs, Mishap(p) PROVE Inv'
<1>1. \E outcome : End(p, outcome)
  BY DEF Mishap, Stop
<1>2. UNCHANGED <<keys, vhd, doubtful>> /\ (file' # NoValue => Partial(file')) /\ issued' \in Nat /\ mishaps' \in Nat
  BY DEF Mishap, Inv, TypeOK, Partial
<1> QED BY <1>1, <1>2, EndOK

-----------------------------------------------------------------------------
(* Steps that change the registry *)

\* register_distro makes a name that nobody else has found yet.
LEMMA CreateOK == ASSUME Inv, NEW p \in Procs, Create(p) PROVE Inv'
<1> DEFINE l == proc[p]
           c == l.cmd
<1>1. Active(p) /\ l.stage = "create"
  BY DEF Create, At, Active
<1>2. UNCHANGED file /\ issued' \in Nat /\ mishaps' \in Nat
  BY DEF Create, Inv, TypeOK
<1>3. Local(l) /\ Going(l) /\ Marking(l) /\ c \in Commands /\ Complete(l.conf)
  BY <1>1, ActiveOK
<1>4. c.op \in Ops /\ c.name \in Names /\ c.new \in Names /\ (c.op # "duplicate" => c.new = c.name)
  BY <1>3, CommandOK
<1>5. CASE c.new \in Registered
  <2>1. Stop(p, "error") /\ UNCHANGED <<keys, vhd, doubtful>>
    BY <1>5 DEF Create
  <2>2. file' # NoValue => Partial(file')
    BY <1>2 DEF Inv, TypeOK
  <2> QED BY <1>2, <2>1, <2>2, EndOK DEF Stop
<1>6. CASE c.new \notin Registered
  <2>1. /\ keys' = [keys EXCEPT ![c.new] = NoConfig]
        /\ vhd' = IF c.name \in vhd THEN vhd \cup {c.new} ELSE vhd \ {c.new}
        /\ doubtful' = doubtful \ {c.new}
        /\ Become(p, Onward(l))
    BY <1>6 DEF Create
  <2>2. keys' = [n \in Names |-> IF n = c.new THEN NoConfig ELSE keys[n]]
    BY <2>1 DEF Inv, TypeOK
  <2>3. NoConfig # NoValue /\ Partial(NoConfig) /\ NoConfig["flags"] = NoValue
    <3>1. NoConfig \in [ItemSet -> Seq(Entries \cup {Blank}) \cup Plain \cup (SUBSET FlagBits) \cup {NoValue}]
      BY DEF NoConfig
    <3> QED BY <3>1, ConfigAssumption DEF NoConfig, Partial, ItemSet
  <2>4. Registered' = Registered \cup {c.new}
    BY <1>4, <2>2, <2>3 DEF Registered
  <2>5. /\ \A n \in Names : n # c.new => (n \in vhd' <=> n \in vhd)
        /\ c.new \in vhd' <=> c.name \in vhd
        /\ vhd' \subseteq Names
    BY <1>4, <2>1 DEF Inv, TypeOK
  <2>6. MarkKept'
    <3> SUFFICES ASSUME NEW n \in Registered', n \notin doubtful', keys'[n]["flags"] # NoValue
                 PROVE  n \in vhd' <=> "wsl2" \in keys'[n]["flags"]
      BY DEF MarkKept
    <3>1. n # c.new /\ n \in Names /\ n \in Registered
      BY <2>2, <2>3, <2>4 DEF Registered
    <3>2. n \notin doubtful /\ keys'[n] = keys[n]
      BY <2>1, <2>2, <3>1
    <3> QED BY <2>5, <3>1, <3>2 DEF Inv, MarkKept
  <2>7. PICK m : m = Onward(l)
    OBVIOUS
  <2>8. /\ Local(m) /\ m.stage = "write" /\ m.cmd = c /\ m.conf = l.conf /\ m.doubt = l.doubt
        /\ m.todo \in Todos(c)
    <3>1. After(c, l.stage) = "write"
      BY <1>1, <1>4, AfterIs
    <3>2. Writes(c) = Desired(c)
      BY <1>1, <1>3 DEF Going, Writes
    <3> QED BY <1>3, <2>7, <3>1, <3>2, EnterOK DEF Onward
  <2>9. /\ c.op \in {"register", "duplicate"}
        /\ c.op = "duplicate" => c.name \in Registered /\ c.name # c.new
        /\ {c.name, c.new} \subseteq Registered'
    BY <1>1, <1>3, <1>4, <1>6, <2>4 DEF Going
  <2>10. Going(m)'
    BY <2>8, <2>9 DEF Going
  <2>11. Marking(m)'
    <3>1. c.name \in vhd' <=> c.name \in vhd
      BY <1>4, <2>5, <2>9
    <3>2. l.doubt \/ (c.name \in vhd <=> "wsl2" \in l.conf["flags"])
      BY <1>1, <1>3, <1>4, <1>6, <2>9 DEF Marking, HasMark
    <3>3. c.new \in vhd' <=> c.name \in vhd'
      BY <2>5, <3>1
    <3> QED BY <2>8, <2>9, <3>1, <3>2, <3>3 DEF Marking
  <2>12. proc' = [q \in Procs |-> IF q = p THEN m ELSE proc[q]]
    BY <2>1, <2>7 DEF Inv, TypeOK, Become
  <2>13. \A q \in Procs : Local(proc'[q]) /\ Going(proc[q])' /\ Marking(proc[q])'
    <3> SUFFICES ASSUME NEW q \in Procs, q # p
                 PROVE  Local(proc'[q]) /\ Going(proc[q])' /\ Marking(proc[q])'
      BY <2>8, <2>10, <2>11, <2>12
    <3>1. PICK r : r = proc[q] /\ r = proc'[q]
      BY <2>12
    <3>2. Local(r) /\ Going(r) /\ Marking(r)
      BY <3>1 DEF Inv, TypeOK
    <3>3. Going(r)'
      BY <2>4, <3>2 DEF Going
    <3>4. ASSUME ~HasMark(r)' PROVE Marking(r)'
      <4>1. ~(r.cmd.op = "duplicate" /\ r.stage = "write")
        BY <3>4 DEF HasMark
      <4> QED BY <3>2, <3>4, <4>1 DEF Marking
    <3>5. ASSUME HasMark(r)' PROVE Marking(r)'
      <4>5. r.stage # "idle"
        BY <3>5 DEF HasMark
      <4>1. HasMark(r)
        BY <2>4, <3>5 DEF HasMark
      <4>2. r.cmd \in Commands
        BY <3>2, <4>5 DEF Local
      <4>3. r.cmd.name # c.new /\ r.cmd.name \in Names
        BY <1>6, <2>4, <3>2, <3>5, <4>2, CommandOK DEF HasMark, Going, Editors
      <4>4. r.cmd.op = "duplicate" /\ r.stage = "write" => r.cmd.new \in Names /\ r.cmd.new # c.new
        BY <1>6, <3>2, <4>2, CommandOK DEF Going
      <4>6. r.cmd.name \in vhd' <=> r.cmd.name \in vhd
        BY <2>5, <4>3
      <4>7. r.cmd.op = "duplicate" /\ r.stage = "write" => (r.cmd.new \in vhd' <=> r.cmd.new \in vhd)
        BY <2>5, <4>4
      <4> QED BY <3>2, <4>1, <4>6, <4>7 DEF Marking
    <3> QED BY <3>1, <3>2, <3>3, <3>4, <3>5
  <2>14. TypeOK'
    <3>1. keys' = [n \in Names |-> keys'[n]] /\ \A n \in Registered' : Partial(keys'[n])
      BY <2>2, <2>3, <2>4 DEF Inv, TypeOK, Registered
    <3>2. proc' = [q \in Procs |-> proc'[q]]
      BY <2>12
    <3>3. doubtful' \subseteq Names /\ (file' # NoValue => Partial(file'))
      BY <1>2, <2>1 DEF Inv, TypeOK
    <3> QED BY <1>2, <2>5, <2>13, <3>1, <3>2, <3>3 DEF TypeOK
  <2> QED BY <2>6, <2>13, <2>14 DEF Inv
<1> QED BY <1>5, <1>6

(* A process that reads or writes a value which another one changes to v. *)
DisturbedBy(r, n, i, v) ==
    [r EXCEPT !.solo = r.solo \ {i}, !.before[i] = IF r.cmd.name = n THEN r.before[i] \cup {v} ELSE r.before[i]]

\* Nothing else of it changes.
LEMMA DisturbedIs ==
  ASSUME NEW r, r = [f \in Fields |-> r[f]], NEW n, NEW i, NEW v, NEW s, s = DisturbedBy(r, n, i, v)
  PROVE  /\ s = [f \in Fields |-> s[f]] /\ s.stage = r.stage /\ s.todo = r.todo /\ s.outcome = r.outcome
         /\ s.cmd = r.cmd /\ s.conf = r.conf /\ s.doubt = r.doubt /\ s.xml = r.xml /\ s.solo = r.solo \ {i}
         /\ DOMAIN s.before = DOMAIN r.before
         /\ \A j \in DOMAIN r.before : r.before[j] \subseteq s.before[j] /\ (j = i /\ r.cmd.name = n => v \in s.before[j])
<1>1. PICK before : before = [r.before EXCEPT ![i] = IF r.cmd.name = n THEN r.before[i] \cup {v} ELSE r.before[i]]
  OBVIOUS
<1>2. s = [r EXCEPT !.solo = r.solo \ {i}, !.before = before]
  BY <1>1 DEF DisturbedBy, Fields
<1>3. s.before = before
  BY <1>2 DEF Fields
<1>4. DOMAIN before = DOMAIN r.before
  BY <1>1
<1>5. \A j \in DOMAIN r.before : r.before[j] \subseteq before[j] /\ (j = i /\ r.cmd.name = n => v \in before[j])
  BY <1>1
<1> QED BY <1>2, <1>3, <1>4, <1>5 DEF Fields

\* What becomes of the processes when one writes a value.
LEMMA WrittenBy ==
  ASSUME NEW p \in Procs, Write(p), NEW q \in Procs
  PROVE  LET l == proc[p]
             r == proc[q]
             n == l.cmd.new
             i == Head(l.todo)
         IN  proc'[q] = IF q = p THEN IF Tail(l.todo) = <<>> THEN Rest(l.cmd, "ok") ELSE [l EXCEPT !.todo = Tail(l.todo)]
                        ELSE IF r.stage # "idle" /\ n \in {r.cmd.name, r.cmd.new} /\ i \in Desired(r.cmd)
                             THEN DisturbedBy(r, n, i, Got(i, l.conf[i])) ELSE r
BY DEF Write, Disturbed, Active, DisturbedBy

\* configure_distro: flags that are written without doubt are the mark of the directory.
LEMMA WriteOK == ASSUME Inv, NEW p \in Procs, Write(p) PROVE Inv'
<1> DEFINE l == proc[p]
           c == l.cmd
           n == c.new
           i == Head(l.todo)
           left == Tail(l.todo)
<1>1. Active(p) /\ l.stage = "write"
  BY DEF Write, At, Active
<1>2. UNCHANGED <<vhd, file>> /\ issued' \in Nat /\ mishaps' \in Nat
  BY DEF Write, Inv, TypeOK
<1>3. Local(l) /\ Going(l) /\ Marking(l) /\ c \in Commands /\ Complete(l.conf)
  BY <1>1, ActiveOK
<1>4. /\ c.op \in Ops \ {"export-config"} /\ l.todo \in Todos(c) /\ n \in Registered /\ n \in Names
      /\ c.op # "duplicate" => n = c.name
  BY <1>1, <1>3, CommandOK DEF Going
<1>5. /\ i \in ItemSet
      /\ left # <<>> => left \in Todos(c)
      /\ c.op \notin Whole => i = Item(c)
  BY <1>4, TodoStep
<1>6. l.conf[i] \in Value(i) /\ l.conf[i] # NoValue
  BY <1>3, <1>5 DEF Complete
<1>7. keys' = [m \in Names |-> IF m = n THEN [keys[n] EXCEPT ![i] = l.conf[i]] ELSE keys[m]]
  BY DEF Write, Inv, TypeOK
<1>8. Partial(keys[n])
  BY <1>4 DEF Inv, TypeOK
<1>9. keys'[n] = [j \in ItemSet |-> IF j = i THEN l.conf[i] ELSE keys[n][j]]
  BY <1>4, <1>7, <1>8 DEF Partial
<1>10. Partial(keys'[n])
  BY <1>6, <1>8, <1>9 DEF Partial
<1>11. keys'[n] # NoValue
  <2>1. \A j \in ItemSet : Value(j) \subseteq Seq(Entries \cup {Blank}) \cup Plain \cup (SUBSET FlagBits)
    BY DEF Value
  <2>2. keys'[n] \in [ItemSet -> Seq(Entries \cup {Blank}) \cup Plain \cup (SUBSET FlagBits) \cup {NoValue}]
    BY <1>9, <1>10, <2>1 DEF Partial
  <2> QED BY <2>2, ConfigAssumption
<1>12. Registered' = Registered
  BY <1>4, <1>7, <1>11 DEF Registered
<1>13. i = "flags" => l.doubt \/ (n \in vhd <=> "wsl2" \in l.conf["flags"])
  <2>1. CASE c.op \in Setters
    BY <1>5, <2>1 DEF Item, Setters, Whole
  <2>2. CASE c.op \in Editors
    <3>1. i = "flags" => c.op = "set-flags"
      BY <1>5, <2>2 DEF Item, Editors, Whole
    <3> QED BY <1>1, <1>3, <1>4, <3>1 DEF Marking, HasMark
  <2>3. CASE c.op \in Whole
    <3>1. c.op \in {"import-config", "register", "duplicate"}
      BY <1>4, <2>3 DEF Whole
    <3> QED BY <1>1, <1>3, <1>4, <3>1 DEF Marking, HasMark
  <2> QED BY <1>4, <2>1, <2>2, <2>3 DEF Ops
<1>14. /\ doubtful' \subseteq Names
       /\ \A m \in Names : m # n => (m \in doubtful' <=> m \in doubtful)
       /\ i # "flags" => doubtful' = doubtful
       /\ i = "flags" /\ l.doubt => n \in doubtful'
  BY <1>4 DEF Write, Inv, TypeOK
<1>15. MarkKept'
  <2> SUFFICES ASSUME NEW m \in Registered, m \notin doubtful', keys'[m]["flags"] # NoValue
               PROVE  m \in vhd <=> "wsl2" \in keys'[m]["flags"]
    BY <1>2, <1>12 DEF MarkKept
  <2>1. m \in Names /\ "flags" \in ItemSet
    BY DEF Registered, ItemSet
  <2>2. CASE m # n
    BY <1>7, <1>14, <2>1, <2>2 DEF Inv, MarkKept
  <2>3. CASE m = n /\ i # "flags"
    <3>1. keys'[n]["flags"] = keys[n]["flags"]
      BY <1>9, <2>1, <2>3
    <3> QED BY <1>14, <2>3, <3>1 DEF Inv, MarkKept
  <2>4. CASE m = n /\ i = "flags"
    <3>1. keys'[n]["flags"] = l.conf["flags"]
      BY <1>9, <2>1, <2>4
    <3> QED BY <1>13, <1>14, <2>4, <3>1
  <2> QED BY <2>2, <2>3, <2>4
<1>16. ASSUME NEW q \in Procs PROVE Local(proc'[q]) /\ Going(proc[q])' /\ Marking(proc[q])'
  <2>1. PICK r : r = proc[q]
    OBVIOUS
  <2>2. Local(r) /\ Going(r) /\ Marking(r) /\ r = [f \in Fields |-> r[f]]
    BY <2>1 DEF Inv, TypeOK, Local
  <2>3. PICK s : s = proc'[q]
    OBVIOUS
  <2>4. \/ \E outcome : s = Rest(c, outcome)
        \/ s = r
        \/ \E j, v : s = DisturbedBy(r, n, j, v)
        \/ q = p /\ left # <<>> /\ s = [r EXCEPT !.todo = left]
    <3>1. s = IF q = p THEN IF left = <<>> THEN Rest(c, "ok") ELSE [l EXCEPT !.todo = left]
              ELSE IF r.stage # "idle" /\ n \in {r.cmd.name, r.cmd.new} /\ i \in Desired(r.cmd)
                   THEN DisturbedBy(r, n, i, Got(i, l.conf[i])) ELSE r
      BY <2>1, <2>3, WrittenBy
    <3>2. q = p => l = r
      BY <2>1
    <3> HIDE DEF l, c, n, i, left
    <3> QED BY <3>1, <3>2
  <2>5. ASSUME NEW outcome, s = Rest(c, outcome) PROVE Local(s) /\ Going(s)' /\ Marking(s)'
    <3>1. Local(s) /\ s.stage = "idle"
      BY <2>5, RestOK DEF Rest
    <3> QED BY <3>1 DEF Going, Marking, HasMark
  <2>6. ASSUME s = r PROVE Local(s) /\ Going(s)' /\ Marking(s)'
    BY <1>2, <1>12, <2>2, <2>6 DEF Going, Marking, HasMark
  <2>7. ASSUME NEW j, NEW v, s = DisturbedBy(r, n, j, v) PROVE Local(s) /\ Going(s)' /\ Marking(s)'
    <3>1. /\ s = [f \in Fields |-> s[f]] /\ s.stage = r.stage /\ s.todo = r.todo
          /\ s.cmd = r.cmd /\ s.conf = r.conf /\ s.doubt = r.doubt /\ s.xml = r.xml /\ s.solo = r.solo \ {j}
      BY <2>2, <2>7, DisturbedIs
    <3>2. Local(s)
      BY <2>2, <3>1 DEF Local
    <3> QED BY <1>2, <1>12, <2>2, <3>1, <3>2 DEF Going, Marking, HasMark
  <2>8. ASSUME q = p, left # <<>>, s = [r EXCEPT !.todo = left] PROVE Local(s) /\ Going(s)' /\ Marking(s)'
    <3>1. /\ s = [f \in Fields |-> s[f]] /\ s.stage = r.stage /\ s.todo = left
          /\ s.cmd = r.cmd /\ s.conf = r.conf /\ s.doubt = r.doubt /\ s.xml = r.xml /\ s.solo = r.solo
      BY <2>2, <2>8 DEF Fields
    <3>2. Local(s)
      BY <2>2, <3>1 DEF Local
    <3>3. left \in Todos(r.cmd) /\ r.stage = "write"
      BY <1>1, <1>5, <2>1, <2>8
    <3> HIDE DEF left
    <3> QED BY <1>2, <1>12, <2>2, <3>1, <3>2, <3>3 DEF Going, Marking, HasMark
  <2> QED BY <2>3, <2>4, <2>5, <2>6, <2>7, <2>8
<1>17. TypeOK'
  <2>1. keys' = [m \in Names |-> keys'[m]] /\ \A m \in Registered' : Partial(keys'[m])
    BY <1>7, <1>10, <1>12 DEF Inv, TypeOK, Registered
  <2>2. proc' = [q \in Procs |-> proc'[q]]
    BY DEF Write
  <2>3. file' # NoValue => Partial(file')
    BY <1>2 DEF Inv, TypeOK
  <2> QED BY <1>2, <1>14, <1>16, <2>1, <2>2, <2>3 DEF Inv, TypeOK
<1> QED BY <1>15, <1>16, <1>17 DEF Inv

-----------------------------------------------------------------------------
(* The theorems *)

\* The invariant holds at the start, whatever the registry and the file.
LEMMA InitOK == Init => Inv
<1> SUFFICES ASSUME Init PROVE Inv
  OBVIOUS
<1>1. \A n \in Names : keys[n] = NoValue \/ (keys[n] = Default(n \in vhd) /\ Complete(keys[n]))
  <2>1. \A n \in Names : keys[n] = NoValue \/ keys[n] = Default(n \in vhd)
    BY DEF Init
  <2>2. \A n \in Names : (n \in vhd) \in BOOLEAN
    OBVIOUS
  <2>3. \A n \in Names : Complete(Default(n \in vhd))
    BY <2>2, DefaultOK
  <2> QED BY <2>1, <2>3
<1>2. \A n \in Registered : Partial(keys[n])
  BY <1>1 DEF Registered, Complete, Partial
<1>3. MarkKept
  <2> SUFFICES ASSUME NEW n \in Registered PROVE n \in vhd <=> "wsl2" \in keys[n]["flags"]
    BY DEF MarkKept
  <2>1. keys[n] = Default(n \in vhd) /\ "flags" \in ItemSet
    BY <1>1 DEF Registered, ItemSet
  <2>2. keys[n]["flags"] = FlagsMask \cup (IF n \in vhd THEN {"wsl2"} ELSE {})
    BY <2>1 DEF Default
  <2> QED BY <2>2 DEF FlagsMask
<1>4. \A p \in Procs : Local(proc[p]) /\ Going(proc[p]) /\ Marking(proc[p])
  <2> SUFFICES ASSUME NEW p \in Procs PROVE Local(proc[p]) /\ Going(proc[p]) /\ Marking(proc[p])
    OBVIOUS
  <2>1. proc[p] = Rest(NoCommand, "none")
    BY DEF Init
  <2> QED BY <2>1, RestOK
<1>5. TypeOK
  <2>1. file # NoValue => Partial(file)
    BY ConfigAssumption DEF Init, Partial
  <2>2. keys = [n \in Names |-> keys[n]] /\ proc = [p \in Procs |-> proc[p]]
    BY DEF Init
  <2> QED BY <1>2, <1>4, <2>1, <2>2 DEF Init, TypeOK
<1> QED BY <1>3, <1>4, <1>5 DEF Inv

\* Every step keeps it.
LEMMA NextOK == Inv /\ [Next]_vars => Inv'
<1> SUFFICES ASSUME Inv, [Next]_vars PROVE Inv'
  OBVIOUS
<1>1. CASE UNCHANGED vars
  <2>1. TypeOK' /\ MarkKept'
    BY <1>1 DEF Inv, TypeOK, MarkKept, Registered, vars
  <2>2. ASSUME NEW p \in Procs PROVE (Going(proc[p]) /\ Marking(proc[p]))'
    <3>1. Going(proc[p]) /\ Marking(proc[p])
      BY DEF Inv
    <3>2. proc' = proc /\ vhd' = vhd /\ Registered' = Registered
      BY <1>1 DEF vars, Registered
    <3>3. Going(proc[p])'
      BY <3>1, <3>2 DEF Going
    <3>4. Marking(proc[p])'
      BY <3>1, <3>2 DEF Marking, HasMark
    <3> QED BY <3>3, <3>4
  <2> QED BY <2>1, <2>2 DEF Inv
<1>2. ASSUME NEW p \in Procs, Issue(p) \/ Step(p) \/ Mishap(p) PROVE Inv'
  BY <1>2, IssueOK, LocateOK, ProbeOK, ReadOK, EditOK, OpenFileOK, SaveFileOK, CreateOK, WriteOK, MishapOK DEF Step
<1> QED BY <1>1, <1>2 DEF Next, Quiet

\* Nothing that was not read from somewhere is ever written, in any interleaving.
THEOREM TypeCorrect == Spec => []TypeOK
<1>1. Inv => TypeOK
  BY DEF Inv
<1> QED BY <1>1, InitOK, NextOK, PTL DEF Spec

\* The mark of WSL 2 among the flags of a distribution tells what its directory holds,
\* however many commands run at once and wherever they fail, unless the flags came from
\* a file or were missing when they were read.
THEOREM MarkIsKept == Spec => []MarkKept
<1>1. Inv => MarkKept
  BY DEF Inv
<1> QED BY <1>1, InitOK, NextOK, PTL DEF Spec

-----------------------------------------------------------------------------
(* What the commands promise *)

(* What a value is, or will be once the name is registered. *)
Current(n, i) == IF n \in Registered THEN Effective(n, i) ELSE Default(FALSE)[i]

Left(todo) == {todo[k] : k \in 1 .. Len(todo)}

(* A list without an empty line, and a value that is read as it was written. *)
NoBlank(list) == \A k \in 1 .. Len(list) : list[k] # Blank
Clean(i, v) == v \in Value(i) /\ (i = "env" => NoBlank(v))

(* Where the configuration in memory comes from. *)
Plan(l) ==
    /\ l.cmd.op \in Setters => l.conf[Item(l.cmd)] = l.cmd.arg
    /\ l.cmd.op = "import-config" => l.conf = LoadFile(Default(FALSE), l.xml)
    /\ l.cmd.op = "register" /\ (l.stage = "write" \/ l.cmd.name \notin Registered)
         => l.conf = LoadFile(Default(l.cmd.name \in vhd), l.xml)
    /\ l.stage = "locate" /\ l.cmd.op \notin Setters \cup {"import-config"} => l.conf = Default(FALSE)
    /\ l.stage = "loadFile" \/ (l.stage \in {"locate", "read"} /\ l.cmd.op = "duplicate") => l.xml = NoConfig

(* How far a value is: what the command has read was there since it began. *)
Known(l, i) ==
    /\ l.stage # "write" => Current(l.cmd.name, i) \in l.before[i]
    /\ l.stage = "read" /\ i \in Left(l.todo) => l.conf[i] = Default(FALSE)[i]
    /\ (l.stage = "read" /\ i \notin Left(l.todo)) \/ l.stage \in {"edit", "saveFile"}
         => Clean(i, l.conf[i]) /\ l.conf[i] \in l.before[i]
    /\ l.stage = "write" \/ (l.stage \in {"loadFile", "create"} /\ l.cmd.op = "duplicate")
         => Got(i, l.conf[i]) \in Outcomes(l, i)

(* The same of a value that nobody else has written since. *)
Alone(l, i) ==
    /\ (l.stage = "read" /\ i \notin Left(l.todo)) \/ l.stage \in {"edit", "saveFile"}
         => l.conf[i] = Current(l.cmd.name, i)
    /\ l.stage = "write" /\ i \notin Left(l.todo) => keys[l.cmd.new][i] = l.conf[i]

Faithful(l) == l.stage # "idle" =>
    /\ l.outcome = "none" /\ l.solo \subseteq Desired(l.cmd) /\ Plan(l) /\ DOMAIN l.before = ItemSet
    /\ \A i \in Desired(l.cmd) : Known(l, i)
    /\ \A i \in l.solo : Alone(l, i)

(* The history. *)
Kept == \A n \in Names, i \in ItemSet : Current(n, i) \in promised[n][i]
History == /\ promised = [n \in Names |-> [i \in ItemSet |-> promised[n][i]]] /\ Kept
           /\ \A p \in Procs : Faithful(proc[p])
-----------------------------------------------------------------------------
(* Lists without an empty line *)

\* The first of something, if there is any.
LEMMA FirstIs ==
  ASSUME NEW list \in Lines, NEW I \in SUBSET (1 .. Len(list)), NEW x, x = IF I # {} THEN Min(I) ELSE 0
  PROVE  /\ x \in 0 .. Len(list) /\ (x = 0 <=> I = {})
         /\ \A k \in I : x <= k
<1>1. x \in 0 .. Len(list)
  BY SelectedIn
<1>2. CASE I # {}
  <2>1. I \in SUBSET Nat
    OBVIOUS
  <2>2. Min(I) \in I /\ \A k \in I : Min(I) <= k
    BY <1>2, <2>1, MinIn
  <2> QED BY <1>1, <1>2, <2>2
<1> QED BY <1>1, <1>2

\* What is read has no empty line, and a list without one is read as it is.
LEMMA ListedIs ==
  ASSUME NEW list \in Lines
  PROVE  NoBlank(Listed(list)) /\ (NoBlank(list) => Listed(list) = list)
<1> DEFINE I == {k \in 1 .. Len(list) : list[k] = Blank}
<1>1. FirstBlank(list) = IF I # {} THEN Min(I) ELSE 0
  BY DEF FirstBlank, SelectInSeq
<1>2. PICK x : x = FirstBlank(list)
  OBVIOUS
<1>3. I \in SUBSET (1 .. Len(list))
  OBVIOUS
<1>4. x \in 0 .. Len(list) /\ (x = 0 <=> I = {}) /\ \A k \in I : x <= k
  <2> HIDE DEF I
  <2> QED BY <1>1, <1>2, <1>3, FirstIs
<1>5. NoBlank(list) => x = 0
  BY <1>4 DEF NoBlank
<1>6. CASE x = 0
  BY <1>2, <1>4, <1>6 DEF Listed, NoBlank
<1>7. CASE x # 0
  <2>1. x \in 1 .. Len(list) /\ Len(list) \in Nat
    BY <1>4, <1>7 DEF Lines
  <2>2. Listed(list) = SubSeq(list, 1, x - 1)
    BY <1>2, <1>7 DEF Listed
  <2>3. Len(SubSeq(list, 1, x - 1)) = x - 1 /\ \A k \in 1 .. x - 1 : SubSeq(list, 1, x - 1)[k] = list[k]
    BY <2>1 DEF Lines
  <2>4. \A k \in 1 .. x - 1 : list[k] # Blank
    BY <1>4, <2>1
  <2>5. NoBlank(Listed(list))
    BY <2>2, <2>3, <2>4 DEF NoBlank
  <2> QED BY <1>5, <1>7, <2>5
<1> QED BY <1>6, <1>7

(* RemoveFirstMatch of the community modules, of an entry with a variable. *)
Removed(list, var) == IF \E k \in 1 .. Len(list) : list[k].var = var THEN RemoveAt(list, Found(list, var)) ELSE list

\* Taking an entry out and adding one make no empty line; what is found is there.
LEMMA ErasedIs ==
  ASSUME NEW list \in Lines, NoBlank(list), NEW var
  PROVE  /\ Erased(list, var) = Removed(list, var)
         /\ Found(list, var) = 0 <=> ~Has(list, var)
         /\ NoBlank(Erased(list, var))
         /\ \A e \in Entries : NoBlank(Append(Erased(list, var), e))
<1> DEFINE I == {k \in 1 .. Len(list) : list[k].var = var}
<1>1. Found(list, var) = IF I # {} THEN Min(I) ELSE 0
  BY DEF Found, SelectInSeq
<1>2. PICK x : x = Found(list, var)
  OBVIOUS
<1>3. I \in SUBSET (1 .. Len(list))
  OBVIOUS
<1>4. x \in 0 .. Len(list) /\ (x = 0 <=> I = {})
  <2> HIDE DEF I
  <2> QED BY <1>1, <1>2, <1>3, FirstIs
<1>5. Len(list) \in Nat /\ DOMAIN list = 1 .. Len(list)
  BY DEF Lines
<1>6. x = 0 <=> ~Has(list, var)
  BY <1>4, <1>5 DEF Has
<1>7. Erased(list, var) = IF x = 0 THEN list ELSE RemoveAt(list, x)
  BY <1>2 DEF Erased
<1>8. Erased(list, var) = Removed(list, var)
  BY <1>2, <1>4, <1>7 DEF Removed
<1>9. NoBlank(Erased(list, var))
  <2>1. CASE x = 0
    BY <1>7, <2>1
  <2>2. CASE x # 0
    <3>1. x \in 1 .. Len(list)
      BY <1>4, <2>2
    <3>2. PICK s : s = SubSeq(list, 1, x - 1)
      OBVIOUS
    <3>3. PICK t : t = SubSeq(list, x + 1, Len(list))
      OBVIOUS
    <3>4. s \in Lines /\ \A k \in 1 .. Len(s) : s[k] # Blank
      <4>1. s \in Lines /\ Len(s) = x - 1 /\ \A k \in 1 .. x - 1 : s[k] = list[k]
        BY <1>5, <3>1, <3>2 DEF Lines
      <4> QED BY <1>5, <3>1, <4>1 DEF NoBlank
    <3>5. t \in Lines /\ \A k \in 1 .. Len(t) : t[k] # Blank
      <4>1. t \in Lines /\ Len(t) = Len(list) - x /\ \A k \in 1 .. Len(list) - x : t[k] = list[k + x]
        <5>1. PICK a \in Nat : a = x + 1 /\ a >= 1 /\ a <= Len(list) + 1 /\ Len(list) - a + 1 = Len(list) - x
          BY <1>5, <3>1
        <5>2. t = SubSeq(list, a, Len(list))
          BY <3>3, <5>1
        <5>3. t \in Lines /\ Len(t) = Len(list) - a + 1 /\ \A k \in 1 .. Len(list) - a + 1 : t[k] = list[a + k - 1]
          BY <1>5, <5>1, <5>2 DEF Lines
        <5>4. \A k \in Nat : a + k - 1 = k + x
          BY <1>5, <3>1, <5>1
        <5> QED BY <1>5, <3>1, <5>1, <5>3, <5>4
      <4>2. \A k \in 1 .. Len(list) - x : k + x \in 1 .. Len(list)
        BY <1>5, <3>1
      <4> QED BY <4>1, <4>2 DEF NoBlank
    <3>6. \A k \in 1 .. Len(s \o t) : (s \o t)[k] # Blank
      <4>1. Len(s) \in Nat /\ Len(t) \in Nat /\ Len(s \o t) = Len(s) + Len(t)
        BY <3>4, <3>5 DEF Lines
      <4> SUFFICES ASSUME NEW k \in 1 .. Len(s) + Len(t) PROVE (s \o t)[k] # Blank
        BY <4>1
      <4>2. (s \o t)[k] = IF k <= Len(s) THEN s[k] ELSE t[k - Len(s)]
        BY <3>4, <3>5, <4>1 DEF Lines
      <4> QED BY <3>4, <3>5, <4>1, <4>2
    <3> QED BY <1>7, <2>2, <3>2, <3>3, <3>6 DEF RemoveAt, NoBlank
  <2> QED BY <2>1, <2>2
<1>10. ASSUME NEW e \in Entries PROVE NoBlank(Append(Erased(list, var), e))
  <2>1. PICK s : s = Erased(list, var)
    OBVIOUS
  <2>2. s \in Lines /\ NoBlank(s) /\ e # Blank
    BY <1>9, <2>1, PartOfList, ConfigAssumption
  <2>3. Len(Append(s, e)) = Len(s) + 1 /\ \A k \in 1 .. Len(s) + 1 : Append(s, e)[k] = IF k = Len(s) + 1 THEN e ELSE s[k]
    BY <2>2 DEF Lines
  <2>4. Len(s) \in Nat
    BY <2>2 DEF Lines
  <2> QED BY <2>1, <2>2, <2>3, <2>4 DEF NoBlank
<1> QED BY <1>2, <1>6, <1>8, <1>9, <1>10

LEMMA CleanIs ==
  ASSUME NEW i \in ItemSet, NEW v
  PROVE  /\ Clean(i, v) => v # NoValue /\ Got(i, v) = v
         /\ v \in Value(i) => Clean(i, Got(i, v))
<1>1. ASSUME Clean(i, v) PROVE v # NoValue /\ Got(i, v) = v
  BY <1>1, ValueExists, ListedIs DEF Clean, Got, Value, Lines
<1>2. ASSUME v \in Value(i) PROVE Clean(i, Got(i, v))
  BY <1>2, GotOK, ListedIs DEF Clean, Got, Value, Lines
<1> QED BY <1>1, <1>2

\* What reg_config starts with, and what is read of a distribution.
LEMMA CurrentIs ==
  ASSUME TypeOK, NEW n \in Names, NEW i \in ItemSet
  PROVE  Clean(i, Current(n, i)) /\ Clean(i, Default(FALSE)[i])
<1>1. Clean(i, Default(FALSE)[i])
  <2>1. Default(FALSE)[i] \in Value(i)
    BY DefaultOK DEF Complete
  <2>2. NoBlank(DefaultEnv)
    BY ConfigAssumption DEF NoBlank
  <2> QED BY <2>1, <2>2 DEF Clean, Default
<1>2. ASSUME n \in Registered PROVE Clean(i, Effective(n, i))
  <2>1. keys[n][i] = NoValue \/ keys[n][i] \in Value(i)
    BY <1>2 DEF TypeOK, Partial
  <2> QED BY <1>1, <2>1, CleanIs DEF Effective, TryGet
<1> QED BY <1>1, <1>2 DEF Current
-----------------------------------------------------------------------------
(* What is left to do *)

\* A stage has all values before it, and going on leaves all but the next one.
LEMMA LeftIs ==
  ASSUME NEW c
  PROVE  /\ Left(Ordered(Desired(c))) = Desired(c)
         /\ \A todo \in Todos(c) : /\ Left(todo) = {Head(todo)} \cup Left(Tail(todo))
                                   /\ Head(todo) \notin Left(Tail(todo))
                                   /\ Left(todo) \subseteq Desired(c)
<1> DEFINE Good(t) == Left(t) = {Head(t)} \cup Left(Tail(t)) /\ Head(t) \notin Left(Tail(t))
<1>1. ASSUME NEW x PROVE Left(<<x>>) = {x} /\ Good(<<x>>)
  <2>1. Len(<<x>>) = 1 /\ <<x>>[1] = x /\ Head(<<x>>) = x /\ Tail(<<x>>) = <<>> /\ Len(<<>>) = 0
    OBVIOUS
  <2>2. Left(<<x>>) = {x} /\ Left(<<>>) = {}
    BY <2>1 DEF Left
  <2> QED BY <2>1, <2>2
<1>2. CASE c.op \in Whole
  <2> DEFINE t2 == <<"kernel", "flags">>
             t3 == <<"uid", "kernel", "flags">>
  <2>1. Left(t2) = {"kernel", "flags"} /\ Head(t2) = "kernel" /\ Tail(t2) = <<"flags">>
    <3>1. Len(t2) = 2 /\ t2[1] = "kernel" /\ t2[2] = "flags" /\ 1 .. 2 = {1, 2}
      OBVIOUS
    <3> HIDE DEF t2
    <3>2. Left(t2) = {t2[1], t2[2]}
      BY <3>1 DEF Left
    <3> QED BY <3>1, <3>2 DEF t2
  <2>2. Left(t3) = {"uid", "kernel", "flags"} /\ Head(t3) = "uid" /\ Tail(t3) = t2
    <3>1. Len(t3) = 3 /\ t3[1] = "uid" /\ t3[2] = "kernel" /\ t3[3] = "flags" /\ 1 .. 3 = {1, 2, 3}
      OBVIOUS
    <3> HIDE DEF t3
    <3>2. Left(t3) = {t3[1], t3[2], t3[3]}
      BY <3>1 DEF Left
    <3> QED BY <3>1, <3>2 DEF t3
  <2>3. Left(Items) = {"env", "uid", "kernel", "flags"} /\ Head(Items) = "env" /\ Tail(Items) = t3
    <3>1. /\ Len(Items) = 4 /\ Items[1] = "env" /\ Items[2] = "uid" /\ Items[3] = "kernel" /\ Items[4] = "flags"
          /\ 1 .. 4 = {1, 2, 3, 4}
      BY DEF Items
    <3>2. Left(Items) = {Items[1], Items[2], Items[3], Items[4]}
      BY <3>1 DEF Left
    <3> QED BY <3>1, <3>2 DEF Items
  <2>4. Good(<<"flags">>) /\ Left(<<"flags">>) = {"flags"}
    BY <1>1
  <2> HIDE DEF t2, t3
  <2>5. Good(t2) /\ Good(t3) /\ Good(Items)
    BY <2>1, <2>2, <2>3, <2>4, ZenonT(60)
  <2>6. Desired(c) = ItemSet /\ Ordered(Desired(c)) = Items /\ ItemSet = {"env", "uid", "kernel", "flags"}
    BY <1>2 DEF Desired, Ordered, ItemSet
  <2>7. Todos(c) = {Items, t3, t2, <<"flags">>}
    BY <1>2 DEF Todos, TodoLists, t2, t3
  <2> HIDE DEF Good
  <2>8. \A todo \in Todos(c) : Good(todo) /\ Left(todo) \subseteq Desired(c)
    BY <2>1, <2>2, <2>3, <2>4, <2>5, <2>6, <2>7
  <2> QED BY <2>3, <2>6, <2>8 DEF Good
<1>3. CASE c.op \notin Whole
  <2>1. {Item(c)} # ItemSet /\ {Item(c)} # {} /\ (CHOOSE i \in {Item(c)} : TRUE) = Item(c)
    BY DEF ItemSet
  <2>2. Desired(c) = {Item(c)} /\ Ordered(Desired(c)) = <<Item(c)>> /\ Todos(c) = {<<Item(c)>>}
    BY <1>3, <2>1 DEF Desired, Ordered, Todos
  <2> HIDE DEF Good
  <2> QED BY <1>1, <2>2 DEF Good
<1> QED BY <1>2, <1>3

\* What a command is after it has entered a stage.
LEMMA EnterIs ==
  ASSUME NEW l, l = [f \in Fields |-> l[f]], NEW stage
  PROVE  /\ Enter(l, stage).stage = stage /\ Enter(l, stage).cmd = l.cmd /\ Enter(l, stage).conf = l.conf
         /\ Enter(l, stage).xml = l.xml /\ Enter(l, stage).solo = l.solo /\ Enter(l, stage).before = l.before
         /\ Enter(l, stage).outcome = l.outcome
         /\ stage = "read" /\ Reads(l.cmd) = Desired(l.cmd) => Left(Enter(l, stage).todo) = Desired(l.cmd)
         /\ stage = "write" /\ Writes(l.cmd) = Desired(l.cmd) => Left(Enter(l, stage).todo) = Desired(l.cmd)
<1> DEFINE todo == Ordered(IF stage = "read" THEN Reads(l.cmd) ELSE IF stage = "write" THEN Writes(l.cmd) ELSE {})
<1>1. Enter(l, stage) = [l EXCEPT !.stage = stage, !.room = NoValue, !.todo = todo]
  BY DEF Enter
<1>2. /\ stage = "read" /\ Reads(l.cmd) = Desired(l.cmd) => Left(todo) = Desired(l.cmd)
      /\ stage = "write" /\ Writes(l.cmd) = Desired(l.cmd) => Left(todo) = Desired(l.cmd)
  BY LeftIs
<1> HIDE DEF todo
<1> QED BY <1>1, <1>2 DEF Fields

-----------------------------------------------------------------------------
(* Steps of one process *)

\* Nobody is disturbed as long as the registry stays as it is.
LEMMA SameIs ==
  ASSUME UNCHANGED <<keys, vhd>>
  PROVE  /\ \A n, i : Current(n, i)' = Current(n, i)
         /\ \A l : Faithful(l) => Faithful(l)'
<1>1. Registered' = Registered
  BY DEF Registered
<1>2. ASSUME NEW n, NEW i PROVE Current(n, i)' = Current(n, i)
  BY <1>1 DEF Current, Effective
<1>3. ASSUME NEW c, NEW i, NEW v, NEW xml PROVE Result(c, i, v, xml)' = Result(c, i, v, xml)
  BY DEF Result, Begun
<1>4. ASSUME NEW l, NEW i PROVE Outcomes(l, i)' = Outcomes(l, i)
  BY <1>3 DEF Outcomes
<1>5. \A l, i : (Known(l, i) => Known(l, i)') /\ (Alone(l, i) => Alone(l, i)')
  <2>1. \A l, i : Known(l, i) => Known(l, i)'
    BY <1>2, <1>4 DEF Known
  <2>2. \A l, i : Alone(l, i) => Alone(l, i)'
    BY <1>2 DEF Alone
  <2> QED BY <2>1, <2>2
<1>6. ASSUME NEW l, Plan(l) PROVE Plan(l)'
  BY <1>1, <1>6 DEF Plan
<1>7. ASSUME NEW l, Faithful(l) PROVE Faithful(l)'
  BY <1>5, <1>6, <1>7 DEF Faithful
<1> QED BY <1>2, <1>7

(* The history is one of each value of each distribution. *)
Typed(h) == h = [n \in Names |-> [i \in ItemSet |-> h[n][i]]]

\* A step of one process that leaves the registry alone.
LEMMA BecomeFaithful ==
  ASSUME Inv, History, NEW p \in Procs, NEW l, Become(p, l), Faithful(l), UNCHANGED <<keys, vhd>>,
         Typed(promised'), \A n \in Names, i \in ItemSet : Current(n, i) \in promised'[n][i]
  PROVE  History'
<1>1. proc' = [q \in Procs |-> IF q = p THEN l ELSE proc[q]]
  BY DEF Inv, TypeOK, Become
<1>2. \A q \in Procs : Faithful(proc[q])'
  <2> SUFFICES ASSUME NEW q \in Procs PROVE Faithful(proc[q])'
    OBVIOUS
  <2>1. PICK r : r = IF q = p THEN l ELSE proc[q]
    OBVIOUS
  <2>2. Faithful(r)
    BY <2>1 DEF History
  <2>3. Faithful(r)'
    BY <2>2, SameIs
  <2>4. proc'[q] = r
    BY <1>1, <2>1
  <2> QED BY <2>3, <2>4
<1>3. Kept'
  BY SameIs DEF Kept
<1> QED BY <1>2, <1>3 DEF History, Typed

\* A command that is over promises nothing.
LEMMA RestFaithful == \A cmd, outcome : Faithful(Rest(cmd, outcome))
BY DEF Faithful, Rest

(* The history when a command ends. *)
SettledAs(h, l, outcome) ==
    /\ Typed(h)
    /\ \A n \in Names, i \in ItemSet :
         h[n][i] = IF n = l.cmd.new /\ i \in l.solo \cap Writes(l.cmd)
                   THEN IF outcome = "ok" THEN Outcomes(l, i)
                        ELSE IF outcome = "refused" THEN {u \in promised[n][i] : Refuses(l.cmd, u)}
                        ELSE promised[n][i]
                   ELSE promised[n][i]

LEMMA SettledIs ==
  ASSUME Typed(promised), NEW p \in Procs, proc[p].cmd.new \in Names, NEW outcome
  PROVE  SettledAs(Settled(p, outcome), proc[p], outcome)
<1> DEFINE l == proc[p]
           c == l.cmd
           new(i) == IF outcome = "ok" THEN Outcomes(l, i)
                     ELSE IF outcome = "refused" THEN {u \in promised[c.new][i] : Refuses(c, u)}
                     ELSE promised[c.new][i]
           row == [i \in ItemSet |-> IF i \in l.solo \cap Writes(c) THEN new(i) ELSE promised[c.new][i]]
<1>1. Settled(p, outcome) = [promised EXCEPT ![c.new] = row]
  BY DEF Settled, Outcomes
<1>2. DOMAIN promised = Names /\ promised = [n \in Names |-> promised[n]]
  BY DEF Typed
<1>3. \A i \in ItemSet : row[i] = IF i \in l.solo \cap Writes(c) THEN new(i) ELSE promised[c.new][i]
  OBVIOUS
<1>4. row = [i \in ItemSet |-> row[i]]
  OBVIOUS
<1>5. \A n \in Names : promised[n] = [i \in ItemSet |-> promised[n][i]]
  BY DEF Typed
<1> HIDE DEF row
<1>6. Settled(p, outcome) = [n \in Names |-> IF n = c.new THEN row ELSE promised[n]]
  BY <1>1, <1>2
<1>7. Typed(Settled(p, outcome))
  <2>1. PICK h : h = Settled(p, outcome)
    OBVIOUS
  <2>2. h = [n \in Names |-> h[n]]
    BY <1>6, <2>1
  <2>3. \A n \in Names : h[n] = [i \in ItemSet |-> h[n][i]]
    BY <1>4, <1>5, <1>6, <2>1
  <2>4. h = [n \in Names |-> [i \in ItemSet |-> h[n][i]]]
    BY <2>2, <2>3
  <2> QED BY <2>1, <2>4 DEF Typed
<1> QED BY <1>3, <1>6, <1>7 DEF SettledAs

\* A command that ends before it has written everything.
LEMMA StopFaithful ==
  ASSUME Inv, History, NEW p \in Procs, Active(p), NEW outcome \in {"error", "killed", "refused"}, Stop(p, outcome),
         UNCHANGED <<keys, vhd>>,
         outcome = "refused" => \A i \in proc[p].solo : Refuses(proc[p].cmd, Current(proc[p].cmd.new, i))
  PROVE  History'
<1>1. proc[p].cmd.new \in Names
  BY ActiveOK, CommandOK
<1>2. promised' = Settled(p, outcome) /\ Become(p, Rest(proc[p].cmd, outcome))
  BY DEF Stop, End
<1>3. Typed(promised) /\ \A n \in Names, i \in ItemSet : Current(n, i) \in promised[n][i]
  BY DEF History, Kept, Typed
<1>4. Typed(promised') /\ \A n \in Names, i \in ItemSet : Current(n, i) \in promised'[n][i]
  <2>1. PICK h : h = Settled(p, outcome)
    OBVIOUS
  <2>2. /\ Typed(h)
        /\ \A n \in Names, i \in ItemSet :
             h[n][i] = IF n = proc[p].cmd.new /\ i \in proc[p].solo \cap Writes(proc[p].cmd) /\ outcome = "refused"
                       THEN {u \in promised[n][i] : Refuses(proc[p].cmd, u)} ELSE promised[n][i]
    <3>1. SettledAs(h, proc[p], outcome)
      BY <1>1, <1>3, <2>1, SettledIs
    <3> QED BY <3>1 DEF SettledAs
  <2>3. \A n \in Names, i \in ItemSet : Current(n, i) \in h[n][i]
    BY <1>3, <2>2, ZenonT(60)
  <2>4. promised' = h
    BY <1>2, <2>1
  <2> QED BY <2>2, <2>3, <2>4 DEF Typed
<1> QED BY <1>2, <1>4, RestFaithful, BecomeFaithful

\* A step that ends nothing.
LEMMA GoesOn ==
  ASSUME Inv, History, NEW p \in Procs, NEW l, Become(p, l), Faithful(l), UNCHANGED <<keys, vhd, promised>>
  PROVE  History'
BY BecomeFaithful DEF History, Kept, Typed
-----------------------------------------------------------------------------
(* From stage to stage *)

\* A file without values changes nothing.
LEMMA LoadNothing == \A conf : Complete(conf) => LoadFile(conf, NoConfig) = conf
BY DEF LoadFile, NoConfig, Complete

\* What the texts say of a command that does not look at the old value.
LEMMA BlindResult ==
  ASSUME NEW c \in Commands, c.op \in Setters \cup {"import-config", "register"}, NEW i, NEW v, NEW xml
  PROVE  /\ ~Refuses(c, v)
         /\ c.op \in Setters => Result(c, i, v, xml) = Got(i, c.arg)
         /\ c.op \notin Setters => Result(c, i, v, xml) = Got(i, LoadFile(Begun(c), xml)[i])
BY DEF Setters, Refuses, Result

\* The configuration that such a command is about to write is what its texts say.
LEMMA BlindOutcome ==
  ASSUME NEW l, l.cmd \in Commands, l.cmd.op \in Setters \cup {"import-config", "register"}, Plan(l),
         l.cmd.op = "register" => l.cmd.name \notin Registered \/ l.stage = "write",
         NEW i \in Desired(l.cmd), NEW v \in l.before[i]
  PROVE  Got(i, l.conf[i]) \in Outcomes(l, i)
<1>0. PICK c : c = l.cmd
  OBVIOUS
<1>3. c \in Commands /\ c.op \in Setters \cup {"import-config", "register"} /\ i \in Desired(c)
  BY <1>0
<1>1. ~Refuses(c, v) => Result(c, i, v, l.xml) \in Outcomes(l, i)
  BY <1>0 DEF Outcomes
<1>2. ~Refuses(c, v) /\ Result(c, i, v, l.xml) = Got(i, l.conf[i])
  <2>1. c.op \in Setters => i = Item(c)
    BY <1>3 DEF Desired, Setters, Whole
  <2>2. PICK conf : conf = l.conf
    OBVIOUS
  <2>3. PICK xml : xml = l.xml
    OBVIOUS
  <2>4. /\ c.op \in Setters => conf[Item(c)] = c.arg
        /\ c.op = "import-config" => conf = LoadFile(Default(FALSE), xml)
        /\ c.op = "register" => conf = LoadFile(Default(c.name \in vhd), xml)
    BY <1>0, <2>2, <2>3 DEF Plan
  <2>6. c.op \notin Setters => conf = LoadFile(Begun(c), xml)
    <3>1. CASE c.op = "import-config"
      <4>1. Begun(c) = Default(FALSE)
        BY <3>1 DEF Begun, Default, Setters
      <4> QED BY <2>4, <3>1, <4>1
    <3>2. CASE c.op = "register"
      <4>1. Begun(c) = Default(c.name \in vhd)
        BY <3>2 DEF Begun, Default, Setters
      <4> QED BY <2>4, <3>2, <4>1
    <3> QED BY <1>3, <3>1, <3>2
  <2>5. /\ ~Refuses(c, v)
        /\ c.op \in Setters => Result(c, i, v, xml) = Got(i, c.arg)
        /\ c.op \notin Setters => Result(c, i, v, xml) = Got(i, LoadFile(Begun(c), xml)[i])
    BY <1>3, BlindResult
  <2>7. Result(c, i, v, xml) = Got(i, conf[i])
    BY <2>1, <2>4, <2>5, <2>6
  <2> QED BY <2>2, <2>3, <2>5, <2>7
<1> QED BY <1>1, <1>2

\* Issue: a command begins with the history as it is.
LEMMA IssueFaithful == ASSUME Inv, History, NEW p \in Procs, Issue(p) PROVE History'
<1>1. PICK c \in Commands :
        Become(p, Enter([Rest(c, "none") EXCEPT !.conf = Begun(c), !.solo = Desired(c), !.before = promised[c.name]],
                        First(c)))
  BY DEF Issue
<1> DEFINE base == [Rest(c, "none") EXCEPT !.conf = Begun(c), !.solo = Desired(c), !.before = promised[c.name]]
<1>2. PICK m : m = Enter(base, First(c))
  OBVIOUS
<1>3. c.op \in Ops /\ c.name \in Names /\ Desired(c) \subseteq ItemSet /\ Complete(Begun(c)) /\ Item(c) \in ItemSet
  BY CommandOK, BegunOK, ItemIn DEF Desired
<1>4. base = [f \in Fields |-> base[f]] /\ base.cmd = c /\ base.conf = Begun(c) /\ base.xml = NoConfig
      /\ base.solo = Desired(c) /\ base.before = promised[c.name] /\ base.outcome = "none"
  <2>1. Rest(c, "none") = [f \in Fields |-> Rest(c, "none")[f]]
    BY RestOK DEF Local
  <2>2. PICK r : r = Rest(c, "none")
    OBVIOUS
  <2>3. r = [f \in Fields |-> r[f]] /\ r.cmd = c /\ r.xml = NoConfig /\ r.outcome = "none"
    BY <2>1, <2>2 DEF Rest
  <2>4. base = [r EXCEPT !.conf = Begun(c), !.solo = Desired(c), !.before = promised[c.name]]
    BY <2>2
  <2> HIDE DEF base
  <2> QED BY <2>3, <2>4 DEF Fields
<1> HIDE DEF base
<1>5. First(c) \in {"loadFile", "create", "locate"} /\ (First(c) = "locate" => c.op # "register")
      /\ (First(c) # "locate" => c.op \in {"import-config", "register"})
  BY DEF First
<1>6. m.stage = First(c) /\ m.cmd = c /\ m.conf = Begun(c) /\ m.xml = NoConfig /\ m.solo = Desired(c)
      /\ m.before = promised[c.name] /\ m.outcome = "none"
  BY <1>2, <1>4, EnterIs
<1>7. Plan(m)
  <2>1. LoadFile(Begun(c), NoConfig) = Begun(c)
    BY <1>3, LoadNothing
  <2>2. c.op \in Setters => Begun(c)[Item(c)] = c.arg
    <3>1. c.op \in Setters => Begun(c) = [Default(FALSE) EXCEPT ![Item(c)] = c.arg]
      BY DEF Begun
    <3>2. DOMAIN Default(FALSE) = ItemSet
      BY DEF Default
    <3> QED BY <1>3, <3>1, <3>2
  <2>3. c.op = "register" => Begun(c) = Default(c.name \in vhd)
    BY DEF Begun, Setters
  <2>4. c.op \notin Setters \cup {"register"} => Begun(c) = Default(FALSE)
    BY DEF Begun
  <2>5. "import-config" \notin Setters /\ "register" \notin Setters
    BY DEF Setters
  <2> QED BY <1>5, <1>6, <2>1, <2>2, <2>3, <2>4, <2>5 DEF Plan
<1>8. ASSUME NEW i \in Desired(c) PROVE Known(m, i) /\ Alone(m, i)
  <2>1. Current(c.name, i) \in m.before[i]
    BY <1>3, <1>6 DEF History, Kept
  <2> QED BY <1>5, <1>6, <2>1 DEF Known, Alone
<1>9. Faithful(m)
  <2>1. DOMAIN promised[c.name] = ItemSet
    BY <1>3 DEF History
  <2> QED BY <1>6, <1>7, <1>8, <2>1 DEF Faithful
<1>10. UNCHANGED <<keys, vhd, promised>>
  BY DEF Issue
<1>11. Become(p, m)
  BY <1>1, <1>2 DEF base
<1> QED BY <1>9, <1>10, <1>11, GoesOn

\* What is known of an active process.
LEMMA FaithfulOf ==
  ASSUME Inv, History, NEW p \in Procs, Active(p)
  PROVE  /\ proc[p].outcome = "none" /\ proc[p].solo \subseteq Desired(proc[p].cmd) /\ Plan(proc[p])
         /\ DOMAIN proc[p].before = ItemSet
         /\ (\A i \in Desired(proc[p].cmd) : Known(proc[p], i)) /\ (\A i \in proc[p].solo : Alone(proc[p], i))
         /\ proc[p].cmd \in Commands /\ proc[p] = [f \in Fields |-> proc[p][f]]
         /\ Complete(proc[p].conf) /\ Going(proc[p])
         /\ proc[p].cmd.op \in Ops /\ proc[p].cmd.name \in Names /\ proc[p].cmd.new \in Names
         /\ proc[p].cmd.op # "duplicate" => proc[p].cmd.new = proc[p].cmd.name
         /\ Desired(proc[p].cmd) \subseteq ItemSet
BY ActiveOK, CommandOK, ItemIn, ZenonT(60) DEF History, Faithful, Active, Local, Desired

\* get_distro_key.
LEMMA LocateFaithful == ASSUME Inv, History, NEW p \in Procs, Locate(p) PROVE History'
<1>1. PICK l : l = proc[p]
  OBVIOUS
<1>2. PICK c : c = l.cmd
  OBVIOUS
<1>3. Active(p) /\ l.stage = "locate" /\ UNCHANGED <<keys, vhd>>
  BY <1>1 DEF Locate, At, Active
<1>4. /\ l.outcome = "none" /\ l.solo \subseteq Desired(c) /\ Plan(l) /\ (\A i \in Desired(c) : Known(l, i))
      /\ DOMAIN l.before = ItemSet /\ c \in Commands /\ l = [f \in Fields |-> l[f]] /\ Going(l)
      /\ c.op \in Ops /\ c.name \in Names
  BY <1>1, <1>2, <1>3, FaithfulOf
<1>5. CASE c.name \notin Registered
  <2>1. Stop(p, "error")
    BY <1>1, <1>2, <1>5 DEF Locate
  <2> QED BY <1>3, <2>1, StopFaithful
<1>6. CASE c.name \in Registered
  <2>1. PICK m : m = Onward(l)
    OBVIOUS
  <2>2. PICK next : next = After(c, "locate")
    OBVIOUS
  <2>3. /\ c.op \in Setters \cup {"import-config"} => next = "write"
        /\ c.op \notin Setters \cup {"import-config"} => next = "read"
    BY <1>4, <2>2, AfterIs
  <2>4. m = Enter(l, next)
    BY <1>2, <1>3, <2>1, <2>2 DEF Onward
  <2>5. /\ m.stage = next /\ m.cmd = c /\ m.conf = l.conf
        /\ m.xml = l.xml /\ m.solo = l.solo /\ m.before = l.before /\ m.outcome = l.outcome
        /\ next = "read" /\ Reads(c) = Desired(c) => Left(m.todo) = Desired(c)
        /\ next = "write" /\ Writes(c) = Desired(c) => Left(m.todo) = Desired(c)
    BY <1>2, <1>4, <2>4, EnterIs
  <2>6. c.op # "register" /\ (c.op = "duplicate" => c.op \notin Setters \cup {"import-config"})
    BY <1>2, <1>3, <1>4 DEF Going, Setters
  <2>7. Plan(m)
    BY <1>2, <1>3, <1>4, <2>3, <2>5, <2>6 DEF Plan
  <2>8. ASSUME NEW i \in Desired(c) PROVE Known(m, i) /\ Alone(m, i)
    <3>1. Current(c.name, i) \in l.before[i]
      BY <1>2, <1>3, <1>4 DEF Known
    <3>2. CASE c.op \in Setters \cup {"import-config"}
      <4>1. Got(i, m.conf[i]) \in Outcomes(m, i)
        BY <1>4, <2>5, <2>6, <2>7, <3>1, <3>2, BlindOutcome
      <4>2. Writes(c) = Desired(c)
        BY <3>2 DEF Writes, Setters
      <4>3. i \in Left(m.todo)
        BY <1>4, <2>3, <2>5, <3>2, <4>2
      <4> QED BY <2>3, <2>5, <3>2, <4>1, <4>3 DEF Known, Alone
    <3>3. CASE c.op \notin Setters \cup {"import-config"}
      <4>1. Reads(c) = Desired(c)
        BY <2>6, <3>3 DEF Reads
      <4>2. i \in Left(m.todo)
        BY <1>4, <2>3, <2>5, <3>3, <4>1
      <4>3. l.conf = Default(FALSE)
        BY <1>2, <1>3, <1>4, <3>3 DEF Plan
      <4> QED BY <2>3, <2>5, <3>1, <3>3, <4>2, <4>3 DEF Known, Alone
    <3> QED BY <3>2, <3>3
  <2>9. Faithful(m)
    BY <1>4, <2>5, <2>7, <2>8 DEF Faithful
  <2>10. Become(p, m) /\ UNCHANGED promised
    <3>1. Proceed(p, l)
      BY <1>1, <1>2, <1>6 DEF Locate
    <3> QED BY <1>2, <1>3, <2>1, <2>2, <2>3, <3>1 DEF Proceed
  <2> QED BY <1>3, <2>9, <2>10, GoesOn
<1> QED BY <1>5, <1>6

\* Asking for the length of a text or a list.
LEMMA ProbeFaithful == ASSUME Inv, History, NEW p \in Procs, Probe(p) PROVE History'
<1>1. PICK l : l = proc[p]
  OBVIOUS
<1>2. PICK m : m = [l EXCEPT !.room = Here(p)]
  OBVIOUS
<1>3. Become(p, m) /\ Active(p) /\ UNCHANGED <<keys, vhd, promised>>
  BY <1>1, <1>2 DEF Probe, At, Active
<1>4. l = [f \in Fields |-> l[f]] /\ Faithful(l)
  BY <1>1, <1>3, FaithfulOf DEF History
<1>5. /\ m.stage = l.stage /\ m.todo = l.todo /\ m.before = l.before /\ m.outcome = l.outcome
      /\ m.cmd = l.cmd /\ m.conf = l.conf /\ m.xml = l.xml /\ m.solo = l.solo
  BY <1>2, <1>4 DEF Fields
<1>6. \A i : Outcomes(m, i) = Outcomes(l, i)
  BY <1>5 DEF Outcomes
<1>7. Plan(l) => Plan(m)
  BY <1>5 DEF Plan
<1>8. \A i : (Known(l, i) => Known(m, i)) /\ (Alone(l, i) => Alone(m, i))
  BY <1>5, <1>6, ZenonT(60) DEF Known, Alone
<1>9. Faithful(m)
  BY <1>4, <1>5, <1>7, <1>8 DEF Faithful
<1> QED BY <1>3, <1>9, GoesOn
\* A command that has read all of its values knows them.
LEMMA ReadDone ==
  ASSUME TypeOK, NEW l, l = [f \in Fields |-> l[f]], l.stage = "read", l.cmd \in Commands, l.cmd.name \in Registered,
         l.cmd.op \in Editors \cup {"export-config", "duplicate"},
         l.outcome = "none", l.solo \subseteq Desired(l.cmd), Plan(l), DOMAIN l.before = ItemSet,
         \A i \in Desired(l.cmd) : Known(l, i), \A i \in l.solo : Alone(l, i), Left(l.todo) = {}
  PROVE  Faithful(Onward(l)) /\ After(l.cmd, "read") # "idle"
<1>1. PICK c : c = l.cmd
  OBVIOUS
<1>2. PICK next : next = After(c, "read")
  OBVIOUS
<1>3. PICK m : m = Onward(l)
  OBVIOUS
<1>4. /\ c.op \in Editors => next = "edit"
      /\ c.op = "export-config" => next = "saveFile"
      /\ c.op = "duplicate" => next \in {"loadFile", "create"}
      /\ c.op \in Ops /\ c.name \in Names /\ Desired(c) \subseteq ItemSet
  <2>1. c.op \in Ops /\ c.name \in Names /\ Desired(c) \subseteq ItemSet
    BY <1>1, CommandOK, ItemIn, ZenonT(60) DEF Desired
  <2> QED BY <1>2, <2>1, AfterIs
<1>5. /\ m.stage = next /\ m.cmd = c /\ m.conf = l.conf
      /\ m.xml = l.xml /\ m.solo = l.solo /\ m.before = l.before /\ m.outcome = l.outcome
  <2>1. m = Enter(l, next)
    BY <1>1, <1>2, <1>3 DEF Onward
  <2> QED BY <1>1, <2>1, EnterIs
<1>6. c.op \notin Setters \cup {"import-config", "register"} /\ (c.op = "duplicate" => c.op \notin Editors)
  BY <1>1 DEF Setters, Editors
<1>7. next \in {"edit", "saveFile", "loadFile", "create"} /\ (next = "loadFile" => c.op = "duplicate")
  BY <1>1, <1>4
<1>8. c.op = "duplicate" => l.xml = NoConfig
  BY <1>1 DEF Plan
<1>9. Plan(m)
  BY <1>5, <1>6, <1>7, <1>8 DEF Plan
<1>10. ASSUME NEW i \in Desired(c) PROVE Known(m, i) /\ (Alone(l, i) => Alone(m, i))
  <2>1. Clean(i, l.conf[i]) /\ l.conf[i] \in l.before[i] /\ Current(c.name, i) \in l.before[i]
    BY <1>1, <1>10 DEF Known
  <2>2. i \in ItemSet
    BY <1>1, <1>4
  <2>3. c.op = "duplicate" => Got(i, m.conf[i]) \in Outcomes(m, i)
    <3>1. SUFFICES ASSUME c.op = "duplicate" PROVE Got(i, m.conf[i]) \in Outcomes(m, i)
      OBVIOUS
    <3>2. PICK v : v = l.conf[i]
      OBVIOUS
    <3>3. Got(i, v) = v
      BY <2>1, <2>2, <3>2, CleanIs
    <3>4. m.xml[i] = NoValue
      BY <1>5, <1>8, <2>2, <3>1 DEF NoConfig
    <3>5. Result(c, i, v, m.xml) = v /\ ~Refuses(c, v)
      BY <3>1, <3>4 DEF Result, Refuses, Setters
    <3> QED BY <1>5, <2>1, <3>2, <3>3, <3>5 DEF Outcomes
  <2>4. Known(m, i)
    BY <1>4, <1>5, <1>7, <2>1, <2>3 DEF Known
  <2>5. Alone(l, i) => Alone(m, i)
    BY <1>1, <1>5, <1>7 DEF Alone
  <2> QED BY <2>4, <2>5
<1>11. Faithful(m)
  BY <1>1, <1>5, <1>9, <1>10 DEF Faithful
<1> QED BY <1>1, <1>2, <1>3, <1>7, <1>11

\* What a command reads is there in that moment.
LEMMA ReadFaithful == ASSUME Inv, History, NEW p \in Procs, Read(p) PROVE History'
<1>1. PICK l : l = proc[p]
  OBVIOUS
<1>2. PICK c : c = l.cmd
  OBVIOUS
<1>3. PICK i : i = Head(l.todo)
  OBVIOUS
<1>4. PICK v : v = TryGet(i, Here(p), l.conf[i])
  OBVIOUS
<1>5. Active(p) /\ l.stage = "read" /\ UNCHANGED <<keys, vhd>>
  BY <1>1 DEF Read, At, Active
<1>6. /\ l.outcome = "none" /\ l.solo \subseteq Desired(c) /\ Plan(l) /\ DOMAIN l.before = ItemSet
      /\ (\A j \in Desired(c) : Known(l, j)) /\ (\A j \in l.solo : Alone(l, j))
      /\ c \in Commands /\ l = [f \in Fields |-> l[f]] /\ Going(l) /\ Complete(l.conf)
      /\ c.op \in Ops /\ c.name \in Names /\ Desired(c) \subseteq ItemSet
  BY <1>1, <1>2, <1>5, FaithfulOf
<1>7. /\ c.op \in Editors \cup {"export-config", "duplicate"}
      /\ l.todo \in Todos(c) /\ c.name \in Registered
  BY <1>2, <1>5, <1>6 DEF Going
<1>8. /\ Left(l.todo) = {i} \cup Left(Tail(l.todo))
      /\ i \notin Left(Tail(l.todo)) /\ i \in ItemSet
      /\ Tail(l.todo) = <<>> => Left(Tail(l.todo)) = {}
  <2>1. Left(<<>>) = {}
    BY ONLY DEF Left
  <2> QED BY <1>3, <1>7, <2>1, LeftIs, TodoStep
<1>9. PICK conf : conf = [l.conf EXCEPT ![i] = v]
  OBVIOUS
<1>10. conf[i] = v /\ \A j \in ItemSet : j # i => conf[j] = l.conf[j]
  BY <1>6, <1>8, <1>9 DEF Complete
<1>11. PICK doubt : doubt = (l.doubt \/ (i = "flags" /\ (Here(p) = NoValue \/ c.name \in doubtful)))
  OBVIOUS
<1>12. PICK m : m = [l EXCEPT !.todo = Tail(l.todo), !.room = NoValue, !.conf[i] = v, !.doubt = doubt]
  OBVIOUS
<1>13. \/ Stop(p, "error")
       \/ m.todo = <<>> /\ Proceed(p, m)
       \/ m.todo # <<>> /\ Become(p, m) /\ UNCHANGED promised
  <2>1. m = ReadAs(p)
    BY <1>1, <1>2, <1>3, <1>4, <1>11, <1>12 DEF ReadAs
  <2> QED BY <2>1, ReadIs
<1>14. /\ m = [f \in Fields |-> m[f]] /\ m.stage = "read" /\ m.todo = Tail(l.todo) /\ m.before = l.before /\ m.outcome = l.outcome
       /\ m.cmd = c /\ m.conf = conf /\ m.xml = l.xml /\ m.solo = l.solo
  <2>1. m = [l EXCEPT !.todo = Tail(l.todo), !.room = NoValue, !.conf = conf, !.doubt = doubt]
    BY <1>6, <1>9, <1>12 DEF Fields
  <2> QED BY <1>2, <1>5, <1>6, <2>1 DEF Fields
<1>15. c.op \notin Setters \cup {"import-config", "register"}
  BY <1>7 DEF Editors, Setters
<1>16. Plan(m)
  BY <1>2, <1>5, <1>6, <1>14, <1>15 DEF Plan
<1>17. ASSUME NEW j \in Desired(c) PROVE Known(m, j) /\ (Alone(l, j) => Alone(m, j))
  <2>1. /\ Current(c.name, j) \in l.before[j] /\ j \in ItemSet
        /\ j \in Left(l.todo) => l.conf[j] = Default(FALSE)[j]
        /\ j \notin Left(l.todo) => Clean(j, l.conf[j]) /\ l.conf[j] \in l.before[j]
    BY <1>2, <1>5, <1>6, <1>17 DEF Known
  <2>2. CASE j = i
    <3>1. l.conf[i] = Default(FALSE)[i]
      BY <1>8, <2>1, <2>2
    <3>2. v = Effective(c.name, i)
      BY <1>1, <1>2, <1>3, <1>4, <3>1 DEF Effective, Here
    <3>3. conf[j] = Current(c.name, j)
      BY <1>7, <1>10, <2>2, <3>2 DEF Current
    <3>4. Clean(j, conf[j])
      BY <1>6, <2>1, <3>3, CurrentIs DEF Inv
    <3>5. j \notin Left(m.todo)
      BY <1>8, <1>14, <2>2
    <3> QED BY <1>14, <2>1, <3>3, <3>4, <3>5 DEF Known, Alone
  <2>3. CASE j # i
    <3>1. conf[j] = l.conf[j] /\ (j \in Left(m.todo) <=> j \in Left(l.todo))
      BY <1>8, <1>10, <1>14, <2>1, <2>3
    <3>2. Known(m, j)
      BY <1>14, <2>1, <3>1 DEF Known
    <3>3. Alone(l, j) => Alone(m, j)
      BY <1>2, <1>5, <1>14, <3>1 DEF Alone
    <3> QED BY <3>2, <3>3
  <2> QED BY <2>2, <2>3
<1>18. CASE Stop(p, "error")
  BY <1>5, <1>18, StopFaithful
<1>19. CASE m.todo = <<>> /\ Proceed(p, m)
  <2>1. Left(m.todo) = {}
    BY <1>8, <1>14, <1>19
  <2>2. Faithful(Onward(m)) /\ After(m.cmd, "read") # "idle"
    BY <1>6, <1>7, <1>14, <1>16, <1>17, <2>1, ReadDone DEF Inv
  <2>3. Become(p, Onward(m)) /\ UNCHANGED promised
    BY <1>14, <1>19, <2>2 DEF Proceed
  <2> QED BY <1>5, <2>2, <2>3, GoesOn
<1>20. CASE m.todo # <<>> /\ Become(p, m) /\ UNCHANGED promised
  <2>1. Faithful(m)
    BY <1>6, <1>14, <1>16, <1>17 DEF Faithful
  <2> QED BY <1>5, <1>20, <2>1, GoesOn
<1> QED BY <1>13, <1>18, <1>19, <1>20
\* What the texts say of the value that was read.
LEMMA ChangedFaithful ==
  ASSUME Inv, History, NEW p \in Procs, proc[p].stage = "edit",
         NEW i, i = Item(proc[p].cmd), NEW v, Proceed(p, [proc[p] EXCEPT !.conf[i] = v]),
         ~Refuses(proc[p].cmd, proc[p].conf[i]),
         Got(i, v) = Result(proc[p].cmd, i, proc[p].conf[i], proc[p].xml),
         UNCHANGED <<keys, vhd>>
  PROVE  History'
<1>1. PICK l : l = proc[p]
  OBVIOUS
<1>2. PICK c : c = l.cmd
  OBVIOUS
<1>3. /\ l.outcome = "none" /\ l.solo \subseteq Desired(c) /\ Plan(l) /\ (\A j \in Desired(c) : Known(l, j))
      /\ DOMAIN l.before = ItemSet /\ c \in Commands /\ l = [f \in Fields |-> l[f]] /\ Going(l) /\ Complete(l.conf)
      /\ c.op \in Ops /\ c.name \in Names /\ c.op \in Editors
  <2>1. Active(p)
    BY DEF Active
  <2> QED BY <1>1, <1>2, <2>1, FaithfulOf DEF Going
<1>4. PICK conf : conf = [l.conf EXCEPT ![i] = v]
  OBVIOUS
<1>5. i \in ItemSet /\ conf[i] = v
  BY <1>3, <1>4, ItemIn DEF Complete
<1>6. PICK n : n = [l EXCEPT !.conf[i] = v]
  OBVIOUS
<1>7. /\ n = [f \in Fields |-> n[f]] /\ n.stage = "edit" /\ n.before = l.before /\ n.outcome = l.outcome
      /\ n.cmd = c /\ n.conf = conf /\ n.xml = l.xml /\ n.solo = l.solo
  <2>1. n = [l EXCEPT !.conf = conf]
    BY <1>3, <1>4, <1>6 DEF Fields
  <2> QED BY <1>1, <1>2, <1>3, <2>1 DEF Fields
<1>8. PICK m : m = Onward(n)
  OBVIOUS
<1>9. After(c, "edit") = "write" /\ c.op \notin Setters \cup {"import-config", "register", "export-config", "duplicate"}
      /\ c.op \notin Whole
  BY <1>3, AfterIs DEF Editors, Setters, Whole
<1>10. /\ m.stage = "write" /\ m.cmd = c /\ m.conf = conf
       /\ m.xml = l.xml /\ m.solo = l.solo /\ m.before = l.before /\ m.outcome = l.outcome /\ Left(m.todo) = Desired(c)
  <2>1. m = Enter(n, "write")
    BY <1>7, <1>8, <1>9 DEF Onward
  <2>2. Writes(c) = Desired(c)
    BY <1>9 DEF Writes
  <2> QED BY <1>7, <2>1, <2>2, EnterIs
<1>11. Plan(m)
  BY <1>9, <1>10 DEF Plan
<1>12. ASSUME NEW j \in Desired(c) PROVE Known(m, j) /\ Alone(m, j)
  <2>1. j = i /\ j \in Left(m.todo)
    BY <1>1, <1>2, <1>9, <1>10, <1>12 DEF Desired
  <2>2. PICK u : u = l.conf[i]
    OBVIOUS
  <2>3. u \in l.before[i]
    BY <1>1, <1>2, <1>3, <1>12, <2>1, <2>2 DEF Known
  <2>4. ~Refuses(c, u) /\ Got(i, v) = Result(c, i, u, l.xml)
    BY <1>1, <1>2, <2>2
  <2>5. Got(i, m.conf[i]) \in Outcomes(m, i)
    BY <1>5, <1>10, <2>3, <2>4 DEF Outcomes
  <2> QED BY <1>10, <2>1, <2>5 DEF Known, Alone
<1>13. Faithful(m)
  BY <1>3, <1>10, <1>11, <1>12 DEF Faithful
<1>14. Become(p, m) /\ UNCHANGED promised
  BY <1>1, <1>6, <1>7, <1>8, <1>9 DEF Proceed
<1> QED BY <1>13, <1>14, GoesOn

\* What main.cpp does between reading and writing, by command.
LEMMA EditIs ==
  ASSUME NEW p, Edit(p), NEW c, c = proc[p].cmd, c.op \in Editors, NEW env, env = proc[p].conf["env"]
  PROVE  \/ Stop(p, "refused") /\ \/ c.op = "add-env" /\ Found(env, c.arg.var) # 0
                                  \/ c.op = "remove-env" /\ Found(env, c.arg) = 0
                                  \/ c.op = "set-flags" /\ ~(c.arg \subseteq FlagsMask)
         \/ /\ c.op \in {"add-env", "add-env -f"} /\ (c.op = "add-env" => Found(env, c.arg.var) = 0)
            /\ Proceed(p, [proc[p] EXCEPT !.conf["env"] = Append(Erased(env, c.arg.var), c.arg)])
         \/ /\ c.op = "remove-env" /\ Found(env, c.arg) # 0
            /\ Proceed(p, [proc[p] EXCEPT !.conf["env"] = Erased(env, c.arg)])
         \/ /\ c.op = "set-flags" /\ c.arg \subseteq FlagsMask
            /\ Proceed(p, [proc[p] EXCEPT !.conf["flags"] = SetFlags(proc[p].conf["flags"], c.arg)])
BY ZenonT(60) DEF Edit, Editors

\* add-env, remove-env and set-flags do to the value what the texts say.
LEMMA EditFaithful == ASSUME Inv, History, NEW p \in Procs, Edit(p) PROVE History'
<1>1. PICK l : l = proc[p]
  OBVIOUS
<1>2. PICK c : c = l.cmd
  OBVIOUS
<1>3. PICK env : env = l.conf["env"]
  OBVIOUS
<1>4. Active(p) /\ l.stage = "edit" /\ UNCHANGED <<keys, vhd>>
  BY <1>1 DEF Edit, At, Active
<1>5. /\ l.outcome = "none" /\ l.solo \subseteq Desired(c)
      /\ (\A j \in Desired(c) : Known(l, j)) /\ (\A j \in l.solo : Alone(l, j))
      /\ c \in Commands /\ Complete(l.conf) /\ c.name \in Names
      /\ c.op \in Editors /\ c.new = c.name
  <2>1. /\ l.outcome = "none" /\ l.solo \subseteq Desired(c)
        /\ (\A j \in Desired(c) : Known(l, j)) /\ (\A j \in l.solo : Alone(l, j))
        /\ c \in Commands /\ Complete(l.conf) /\ c.name \in Names /\ Going(l)
        /\ c.op # "duplicate" => c.new = c.name
    BY <1>1, <1>2, <1>4, FaithfulOf
  <2>2. c.op \in Editors
    BY <1>2, <1>4, <2>1 DEF Going
  <2> QED BY <2>1, <2>2 DEF Editors
<1>6. PICK i : i = Item(c)
  OBVIOUS
<1>7. /\ i \in ItemSet /\ Desired(c) = {i} /\ l.solo \subseteq {i}
      /\ c.op \in {"add-env", "add-env -f", "remove-env"} => i = "env"
      /\ c.op = "set-flags" => i = "flags"
  <2>1. c.op \notin Whole
    BY <1>5 DEF Editors, Whole
  <2> QED BY <1>5, <1>6, <2>1, ItemIn DEF Desired, Item
<1>8. Clean(i, l.conf[i]) /\ (i \in l.solo => l.conf[i] = Current(c.name, i))
  BY <1>2, <1>4, <1>5, <1>7, ZenonT(60) DEF Known, Alone
<1>9. ASSUME i = "env", NEW var
      PROVE  /\ env \in Lines /\ NoBlank(env) /\ l.conf[i] = env
             /\ Erased(env, var) = Removed(env, var)
             /\ Found(env, var) = 0 <=> ~Has(env, var)
             /\ NoBlank(Erased(env, var))
             /\ \A e \in Entries : NoBlank(Append(Erased(env, var), e))
  <2>1. env \in Lines /\ NoBlank(env) /\ l.conf[i] = env
    BY <1>3, <1>8, <1>9 DEF Clean, Value, Lines
  <2> QED BY <2>1, ErasedIs
<1>10. \/ Stop(p, "refused") /\ \/ c.op = "add-env" /\ Found(env, c.arg.var) # 0
                                \/ c.op = "remove-env" /\ Found(env, c.arg) = 0
                                \/ c.op = "set-flags" /\ ~(c.arg \subseteq FlagsMask)
       \/ /\ c.op \in {"add-env", "add-env -f"} /\ (c.op = "add-env" => Found(env, c.arg.var) = 0)
          /\ Proceed(p, [proc[p] EXCEPT !.conf["env"] = Append(Erased(env, c.arg.var), c.arg)])
       \/ /\ c.op = "remove-env" /\ Found(env, c.arg) # 0
          /\ Proceed(p, [proc[p] EXCEPT !.conf["env"] = Erased(env, c.arg)])
       \/ /\ c.op = "set-flags" /\ c.arg \subseteq FlagsMask
          /\ Proceed(p, [proc[p] EXCEPT !.conf["flags"] = SetFlags(proc[p].conf["flags"], c.arg)])
  <2>1. c = proc[p].cmd /\ c.op \in Editors /\ env = proc[p].conf["env"]
    BY ONLY <1>1, <1>2, <1>3, <1>5
  <2> QED BY ONLY <2>1, Edit(p), EditIs, ZenonT(60)
<1>11. CASE Stop(p, "refused") /\ \/ c.op = "add-env" /\ Found(env, c.arg.var) # 0
                                  \/ c.op = "remove-env" /\ Found(env, c.arg) = 0
                                  \/ c.op = "set-flags" /\ ~(c.arg \subseteq FlagsMask)
  <2>1. Refuses(c, l.conf[i])
    <3>1. CASE c.op = "add-env" /\ Found(env, c.arg.var) # 0
      <4>1. Has(env, c.arg.var) /\ l.conf[i] = env
        BY <1>7, <1>9, <3>1
      <4> QED BY <3>1, <4>1 DEF Refuses
    <3>2. CASE c.op = "remove-env" /\ Found(env, c.arg) = 0
      <4>1. ~Has(env, c.arg) /\ l.conf[i] = env
        BY <1>7, <1>9, <3>2
      <4> QED BY <3>2, <4>1 DEF Refuses
    <3>3. CASE c.op = "set-flags" /\ ~(c.arg \subseteq FlagsMask)
      BY <3>3 DEF Refuses
    <3> QED BY <1>11, <3>1, <3>2, <3>3
  <2>2. \A j \in l.solo : Refuses(c, Current(c.new, j))
    BY <1>5, <1>7, <1>8, <2>1
  <2> QED BY <1>1, <1>2, <1>4, <1>11, <2>2, StopFaithful
<1>12. CASE /\ c.op \in {"add-env", "add-env -f"} /\ (c.op = "add-env" => Found(env, c.arg.var) = 0)
            /\ Proceed(p, [proc[p] EXCEPT !.conf["env"] = Append(Erased(env, c.arg.var), c.arg)])
  <2>1. PICK v : v = Append(Erased(env, c.arg.var), c.arg)
    OBVIOUS
  <2>2. ~Refuses(c, l.conf[i]) /\ Got(i, v) = Result(c, i, l.conf[i], l.xml)
    <3>1. /\ env \in Lines /\ NoBlank(env) /\ l.conf[i] = env
          /\ Erased(env, c.arg.var) = Removed(env, c.arg.var)
          /\ Found(env, c.arg.var) = 0 <=> ~Has(env, c.arg.var)
          /\ \A e \in Entries : NoBlank(Append(Erased(env, c.arg.var), e))
      BY <1>7, <1>9, <1>12
    <3>2. c.arg \in Entries
      BY <1>5, <1>12, CommandOK
    <3>3. Clean("env", v)
      BY <2>1, <3>1, <3>2, EditedOK DEF Clean
    <3>4. Got(i, v) = v
      BY <1>7, <1>12, <3>3, CleanIs
    <3>5. ~Refuses(c, env)
      BY <1>12, <3>1, ZenonT(60) DEF Refuses
    <3>6. Result(c, i, env, l.xml) = Append(Removed(env, c.arg.var), c.arg)
      BY <1>12 DEF Result, Setters, Removed, RemoveFirstMatch, Found
    <3> QED BY <2>1, <3>1, <3>4, <3>5, <3>6
  <2> QED BY <1>1, <1>2, <1>4, <1>6, <1>7, <1>12, <2>1, <2>2, ChangedFaithful, ZenonT(60)
<1>13. CASE /\ c.op = "remove-env" /\ Found(env, c.arg) # 0
            /\ Proceed(p, [proc[p] EXCEPT !.conf["env"] = Erased(env, c.arg)])
  <2>1. PICK v : v = Erased(env, c.arg)
    OBVIOUS
  <2>2. ~Refuses(c, l.conf[i]) /\ Got(i, v) = Result(c, i, l.conf[i], l.xml)
    <3>1. /\ env \in Lines /\ NoBlank(env) /\ l.conf[i] = env
          /\ Erased(env, c.arg) = Removed(env, c.arg)
          /\ Found(env, c.arg) = 0 <=> ~Has(env, c.arg)
          /\ NoBlank(Erased(env, c.arg))
      BY <1>7, <1>9, <1>13
    <3>2. Clean("env", v)
      BY <2>1, <3>1, PartOfList DEF Clean, Value, Lines
    <3>3. Got(i, v) = v
      BY <1>7, <1>13, <3>2, CleanIs
    <3>4. ~Refuses(c, env)
      BY <1>13, <3>1 DEF Refuses
    <3>5. Result(c, i, env, l.xml) = Removed(env, c.arg)
      BY <1>13 DEF Result, Setters, Removed, RemoveFirstMatch, Found
    <3> QED BY <2>1, <3>1, <3>3, <3>4, <3>5
  <2> QED BY <1>1, <1>2, <1>4, <1>6, <1>7, <1>13, <2>1, <2>2, ChangedFaithful
<1>14. CASE /\ c.op = "set-flags" /\ c.arg \subseteq FlagsMask
            /\ Proceed(p, [proc[p] EXCEPT !.conf["flags"] = SetFlags(proc[p].conf["flags"], c.arg)])
  <2>1. PICK v : v = SetFlags(l.conf["flags"], c.arg)
    OBVIOUS
  <2>2. ~Refuses(c, l.conf[i]) /\ Got(i, v) = Result(c, i, l.conf[i], l.xml)
    <3>1. Got(i, v) = v
      BY <1>7, <1>14 DEF Got
    <3>2. v = (l.conf["flags"] \cap {"wsl2"}) \cup c.arg
      BY <1>14, <2>1 DEF SetFlags
    <3>3. Result(c, i, l.conf[i], l.xml) = (l.conf["flags"] \cap {"wsl2"}) \cup c.arg
      BY <1>7, <1>14 DEF Result, Setters
    <3> QED BY <1>14, <3>1, <3>2, <3>3 DEF Refuses
  <2> QED BY <1>1, <1>2, <1>4, <1>6, <1>7, <1>14, <2>1, <2>2, ChangedFaithful
<1> QED BY <1>10, <1>11, <1>12, <1>13, <1>14
\* load_file: the values of the file in place of those that the command has.
LEMMA OpenFileFaithful == ASSUME Inv, History, NEW p \in Procs, OpenFile(p) PROVE History'
<1>1. PICK l : l = proc[p]
  OBVIOUS
<1>2. PICK c : c = l.cmd
  OBVIOUS
<1>3. Active(p) /\ l.stage = "loadFile" /\ UNCHANGED <<keys, vhd>>
  BY <1>1 DEF OpenFile, At, Active
<1>4. /\ l.outcome = "none" /\ l.solo \subseteq Desired(c) /\ Plan(l) /\ (\A i \in Desired(c) : Known(l, i))
      /\ DOMAIN l.before = ItemSet
      /\ c \in Commands /\ l = [f \in Fields |-> l[f]] /\ Going(l) /\ Complete(l.conf)
      /\ c.op \in Ops /\ c.name \in Names /\ Desired(c) \subseteq ItemSet
      /\ c.op # "duplicate" => c.new = c.name
  BY <1>1, <1>2, <1>3, FaithfulOf
<1>5. PICK conf : conf = LoadFile(l.conf, file)
  OBVIOUS
<1>6. PICK doubt : doubt = (l.doubt \/ c.op = "import-config" \/ file["flags"] # NoValue)
  OBVIOUS
<1>7. PICK n : n = [l EXCEPT !.xml = file, !.conf = conf, !.doubt = doubt]
  OBVIOUS
<1>8. Stop(p, "error") \/ (file # NoValue /\ Proceed(p, n))
  BY <1>1, <1>2, <1>5, <1>6, <1>7 DEF OpenFile
<1>9. CASE Stop(p, "error")
  BY <1>3, <1>9, StopFaithful
<1>10. CASE file # NoValue /\ Proceed(p, n)
  <2>1. n = [f \in Fields |-> n[f]] /\ n.stage = "loadFile" /\ n.before = l.before /\ n.outcome = l.outcome
        /\ n.cmd = c /\ n.conf = conf /\ n.xml = file /\ n.solo = l.solo
    BY <1>2, <1>3, <1>4, <1>7 DEF Fields
  <2>2. PICK next : next = After(c, "loadFile")
    OBVIOUS
  <2>3. /\ c.op \in {"import-config", "register", "duplicate"}
        /\ c.op = "import-config" => next = "locate"
        /\ c.op # "import-config" => next = "create"
    BY <1>2, <1>3, <1>4, <2>2, AfterIs DEF Going
  <2>4. PICK m : m = Onward(n)
    OBVIOUS
  <2>5. /\ m.stage = next /\ m.cmd = c /\ m.conf = conf
        /\ m.xml = file /\ m.solo = l.solo /\ m.before = l.before /\ m.outcome = l.outcome
    <3>1. m = Enter(n, next)
      BY <2>1, <2>2, <2>4 DEF Onward
    <3> QED BY <2>1, <3>1, EnterIs
  <2>6. l.xml = NoConfig
    BY <1>3, <1>4 DEF Plan
  <2>7. Plan(m)
    <3>1. c.op \notin Setters
      BY <2>3 DEF Setters
    <3>2. ASSUME c.op = "import-config" PROVE m.conf = LoadFile(Default(FALSE), m.xml)
      <4>1. l.conf = LoadFile(Default(FALSE), NoConfig)
        BY <1>2, <1>4, <2>6, <3>2 DEF Plan
      <4>2. l.conf = Default(FALSE)
        BY <4>1, DefaultOK, LoadNothing
      <4> QED BY <1>5, <2>5, <4>2
    <3>3. ASSUME c.op = "register", c.name \notin Registered
          PROVE  m.conf = LoadFile(Default(c.name \in vhd), m.xml)
      <4>1. PICK base : base = Default(c.name \in vhd)
        OBVIOUS
      <4>2. l.conf = LoadFile(base, NoConfig)
        BY <1>2, <1>4, <2>6, <3>3, <4>1 DEF Plan
      <4>3. Complete(base)
        <5>1. (c.name \in vhd) \in BOOLEAN
          OBVIOUS
        <5> QED BY <4>1, <5>1, DefaultOK
      <4>4. l.conf = base
        BY <4>2, <4>3, LoadNothing
      <4> QED BY <1>5, <2>5, <4>1, <4>4
    <3> QED BY <2>3, <2>5, <3>1, <3>2, <3>3 DEF Plan
  <2>8. ASSUME NEW i \in Desired(c) PROVE Known(m, i) /\ Alone(m, i)
    <3>1. Current(c.name, i) \in l.before[i]
      BY <1>2, <1>3, <1>4 DEF Known
    <3>2. ASSUME c.op = "duplicate" PROVE Got(i, m.conf[i]) \in Outcomes(m, i)
      <4>1. i \in ItemSet
        BY <1>4
      <4>2. Got(i, l.conf[i]) \in Outcomes(l, i)
        BY <1>2, <1>3, <1>4, <3>2 DEF Known
      <4>3. PICK v \in l.before[i] : Got(i, l.conf[i]) = Result(c, i, v, NoConfig)
        BY <1>2, <2>6, <4>2 DEF Outcomes
      <4>4. Result(c, i, v, NoConfig) = v
        BY <3>2, <4>1 DEF Result, Setters, NoConfig
      <4>5. Result(c, i, v, file) = (IF file[i] = NoValue THEN v ELSE Got(i, file[i])) /\ ~Refuses(c, v)
        BY <3>2 DEF Result, Refuses, Setters
      <4>6. conf[i] = IF file[i] = NoValue THEN l.conf[i] ELSE file[i]
        BY <1>5, <4>1 DEF LoadFile
      <4>7. Got(i, conf[i]) = Result(c, i, v, file)
        BY <4>3, <4>4, <4>5, <4>6
      <4> QED BY <2>5, <4>5, <4>7 DEF Outcomes
    <3> QED BY <2>3, <2>5, <3>1, <3>2 DEF Known, Alone
  <2>9. Faithful(m)
    BY <1>4, <2>5, <2>7, <2>8 DEF Faithful
  <2>10. Become(p, m) /\ UNCHANGED promised
    BY <1>10, <2>1, <2>2, <2>3, <2>4 DEF Proceed
  <2> QED BY <1>3, <2>9, <2>10, GoesOn
<1> QED BY <1>8, <1>9, <1>10

\* save_file: the last thing that export-config does.
LEMMA SaveFileFaithful == ASSUME Inv, History, NEW p \in Procs, SaveFile(p) PROVE History'
<1>1. Active(p) /\ proc[p].stage = "saveFile" /\ UNCHANGED <<keys, vhd>> /\ Proceed(p, proc[p])
  BY DEF SaveFile, At, Active
<1>2. /\ proc[p].cmd.op = "export-config" /\ proc[p].cmd.op \in Ops /\ proc[p].cmd.new \in Names
  BY <1>1, FaithfulOf DEF Going
<1>3. After(proc[p].cmd, "saveFile") = "idle" /\ Writes(proc[p].cmd) = {}
  BY <1>2, AfterIs DEF Writes
<1>4. Become(p, Rest(proc[p].cmd, "ok")) /\ promised' = Settled(p, "ok")
  BY <1>1, <1>3 DEF Proceed, End
<1>5. PICK h : h = Settled(p, "ok")
  OBVIOUS
<1>6. Typed(h) /\ \A n \in Names, i \in ItemSet : h[n][i] = promised[n][i]
  <2>1. Typed(promised)
    BY DEF History, Typed
  <2>2. SettledAs(h, proc[p], "ok")
    BY <1>2, <1>5, <2>1, SettledIs
  <2> QED BY <1>3, <2>2 DEF SettledAs
<1>7. Typed(promised') /\ \A n \in Names, i \in ItemSet : Current(n, i) \in promised'[n][i]
  BY <1>4, <1>5, <1>6 DEF History, Kept, Typed
<1> QED BY <1>1, <1>4, <1>7, RestFaithful, BecomeFaithful

\* A call that fails, a process that is killed: the values are as they were.
LEMMA MishapFaithful == ASSUME Inv, History, NEW p \in Procs, Mishap(p) PROVE History'
<1>1. PICK outcome \in {"error", "killed"} : Stop(p, outcome)
  BY DEF Mishap
<1>2. Active(p) /\ UNCHANGED <<keys, vhd>>
  BY DEF Mishap
<1> QED BY <1>1, <1>2, StopFaithful

-----------------------------------------------------------------------------
(* Steps that change the registry *)

\* A distribution that has just been registered reads as reg_config starts, and nobody else
\* has found it.
LEMMA CreateFaithful == ASSUME Inv, History, NEW p \in Procs, Create(p) PROVE History'
<1>1. PICK l : l = proc[p]
  OBVIOUS
<1>2. PICK c : c = l.cmd
  OBVIOUS
<1>3. Active(p) /\ l.stage = "create"
  BY <1>1 DEF Create, At, Active
<1>4. /\ l.outcome = "none" /\ l.solo \subseteq Desired(c) /\ Plan(l) /\ (\A i \in Desired(c) : Known(l, i))
      /\ DOMAIN l.before = ItemSet
      /\ c \in Commands /\ l = [f \in Fields |-> l[f]] /\ Going(l) /\ Complete(l.conf)
      /\ c.op \in Ops /\ c.name \in Names /\ c.new \in Names /\ Desired(c) \subseteq ItemSet
      /\ c.op # "duplicate" => c.new = c.name
  BY <1>1, <1>2, <1>3, FaithfulOf
<1>5. CASE c.new \in Registered
  <2>1. Stop(p, "error") /\ UNCHANGED <<keys, vhd>>
    BY <1>1, <1>2, <1>5 DEF Create
  <2> QED BY <1>3, <2>1, StopFaithful
<1>6. CASE c.new \notin Registered
  <2>1. PICK m : m = Onward(l)
    OBVIOUS
  <2>2. /\ keys' = [n \in Names |-> IF n = c.new THEN NoConfig ELSE keys[n]]
        /\ vhd' = IF c.name \in vhd THEN vhd \cup {c.new} ELSE vhd \ {c.new}
        /\ Become(p, m)
        /\ promised' = [promised EXCEPT ![c.new] = [i \in ItemSet |-> {Default(FALSE)[i]}]]
    BY <1>1, <1>2, <1>6, <2>1 DEF Create, Inv, TypeOK
  <2>3. NoConfig # NoValue /\ \A i \in ItemSet : NoConfig[i] = NoValue
    <3>1. NoConfig \in [ItemSet -> Seq(Entries \cup {Blank}) \cup Plain \cup (SUBSET FlagBits) \cup {NoValue}]
      BY DEF NoConfig
    <3> QED BY <3>1, ConfigAssumption DEF NoConfig
  <2>4. Registered' = Registered \cup {c.new}
    BY <1>4, <2>2, <2>3 DEF Registered
  <2>5. \A n \in Names, i \in ItemSet : Current(n, i)' = Current(n, i)
    <3> SUFFICES ASSUME NEW n \in Names, NEW i \in ItemSet PROVE Current(n, i)' = Current(n, i)
      OBVIOUS
    <3>1. CASE n = c.new
      <4>1. keys'[n][i] = NoValue /\ n \in Registered' /\ n \notin Registered
        BY <1>6, <2>2, <2>3, <2>4, <3>1
      <4> QED BY <4>1 DEF Current, Effective, TryGet
    <3>2. CASE n # c.new
      <4>1. keys'[n] = keys[n] /\ (n \in Registered' <=> n \in Registered)
        BY <2>2, <2>4, <3>2
      <4> QED BY <4>1 DEF Current, Effective
    <3> QED BY <3>1, <3>2
  <2>6. \A n \in Names : n \in Registered => (n \in vhd' <=> n \in vhd)
    BY <1>6, <2>2
  <2>7. Typed(promised') /\ \A n \in Names, i \in ItemSet : promised'[n][i] =
          IF n = c.new THEN {Default(FALSE)[i]} ELSE promised[n][i]
    <3>1. Typed(promised)
      BY DEF History, Typed
    <3>2. PICK row : row = [i \in ItemSet |-> {Default(FALSE)[i]}]
      OBVIOUS
    <3>3. promised = [n \in Names |-> promised[n]] /\ \A n \in Names : promised[n] = [i \in ItemSet |-> promised[n][i]]
      BY <3>1 DEF Typed
    <3>4. promised' = [n \in Names |-> IF n = c.new THEN row ELSE promised[n]]
      BY <2>2, <3>2, <3>3
    <3>5. \A n \in Names : promised'[n] = [i \in ItemSet |-> promised'[n][i]]
      BY <3>2, <3>3, <3>4
    <3>6. \A i \in ItemSet : row[i] = {Default(FALSE)[i]}
      BY <3>2
    <3>7. \A n \in Names, i \in ItemSet : promised'[n][i] = IF n = c.new THEN {Default(FALSE)[i]} ELSE promised[n][i]
      BY <3>4, <3>6
    <3>8. Typed(promised')
      <4>1. PICK h : h = promised'
        OBVIOUS
      <4>2. h = [n \in Names |-> h[n]] /\ \A n \in Names : h[n] = [i \in ItemSet |-> h[n][i]]
        BY <3>4, <3>5, <4>1
      <4> QED BY <4>1, <4>2 DEF Typed
    <3> QED BY <3>7, <3>8
  <2>8. Kept'
    <3> SUFFICES ASSUME NEW n \in Names, NEW i \in ItemSet PROVE Current(n, i)' \in promised'[n][i]
      BY DEF Kept
    <3>1. CASE n = c.new
      <4>1. Current(n, i) = Default(FALSE)[i]
        BY <1>6, <3>1 DEF Current
      <4>2. Current(n, i)' = Default(FALSE)[i]
        BY <2>5, <4>1
      <4>3. promised'[n][i] = {Default(FALSE)[i]}
        BY <2>7, <3>1
      <4> HIDE DEF Default
      <4> QED BY ONLY <4>2, <4>3, Zenon
    <3>2. CASE n # c.new
      BY <2>5, <2>7, <3>2, ZenonT(60) DEF History, Kept
    <3> QED BY <3>1, <3>2
  <2>9. /\ c.op \in {"register", "duplicate"} /\ c.op \notin Setters
        /\ c.op = "duplicate" => c.name \in Registered
    BY <1>2, <1>3, <1>4 DEF Going, Setters
  <2>10. /\ m.stage = "write" /\ m.cmd = c /\ m.conf = l.conf
         /\ m.xml = l.xml /\ m.solo = l.solo /\ m.before = l.before /\ m.outcome = l.outcome /\ Left(m.todo) = Desired(c)
    <3>1. m = Enter(l, "write") /\ Writes(c) = Desired(c)
      BY <1>2, <1>3, <1>4, <2>1, <2>9, AfterIs DEF Onward, Writes
    <3> QED BY <1>2, <1>4, <3>1, EnterIs
  <2>11. c.name \in vhd' <=> c.name \in vhd
    BY <1>4, <2>2, <2>6, <2>9
  <2>12. ASSUME c.op = "register" PROVE m.conf = LoadFile(Default(c.name \in vhd), m.xml)
    BY <1>2, <1>4, <1>6, <2>10, <2>12 DEF Plan
  <2>13. ASSUME NEW i \in Desired(c) PROVE Got(i, m.conf[i]) \in Outcomes(m, i)
    <3>1. Current(c.name, i) \in l.before[i]
      BY <1>2, <1>3, <1>4 DEF Known
    <3>2. CASE c.op = "register"
      <4>1. Got(i, l.conf[i]) \in Outcomes(l, i)
        BY <1>2, <1>4, <1>6, <3>1, <3>2, BlindOutcome
      <4> QED BY <1>2, <2>10, <4>1 DEF Outcomes
    <3>3. CASE c.op = "duplicate"
      BY <1>2, <1>3, <1>4, <2>10, <3>3, ZenonT(60) DEF Known, Outcomes
    <3> QED BY <2>9, <3>2, <3>3
  <2>14. ASSUME NEW d, NEW i, NEW v, NEW xml, d.op = "register" => (d.name \in vhd' <=> d.name \in vhd)
         PROVE  Result(d, i, v, xml)' = Result(d, i, v, xml)
    <3>1. Begun(d)' = Begun(d)
      BY <2>14 DEF Begun, Default
    <3> QED BY <3>1 DEF Result
  <2>15. Faithful(m)'
    <3>1. Plan(m)'
      <4>1. m.conf = LoadFile(Default(c.name \in vhd'), m.xml) \/ c.op # "register"
        BY <2>11, <2>12 DEF Default
      <4> QED BY <2>9, <2>10, <4>1 DEF Plan
    <3>2. ASSUME NEW i \in Desired(c) PROVE Known(m, i)' /\ Alone(m, i)'
      <4>1. Outcomes(m, i)' = Outcomes(m, i)
        BY <2>10, <2>11, <2>14 DEF Outcomes
      <4> QED BY <1>4, <2>10, <2>13, <4>1 DEF Known, Alone
    <3> QED BY <1>4, <2>10, <3>1, <3>2 DEF Faithful
  <2>16. ASSUME NEW q \in Procs PROVE Faithful(proc[q])'
    <3>1. CASE q = p
      BY <2>2, <2>15, <3>1 DEF Become, Inv, TypeOK
    <3>2. CASE q # p
      <4>1. PICK r : r = proc[q] /\ r = proc'[q]
        BY <2>2, <3>2 DEF Become, Inv, TypeOK
      <4>2. CASE r.stage = "idle"
        BY <4>1, <4>2 DEF Faithful
      <4>3. CASE r.stage # "idle"
        <5>1. PICK d : d = r.cmd
          OBVIOUS
        <5>2. /\ r.outcome = "none" /\ r.solo \subseteq Desired(d) /\ Plan(r) /\ DOMAIN r.before = ItemSet /\ Going(r)
              /\ (\A i \in Desired(d) : Known(r, i)) /\ (\A i \in r.solo : Alone(r, i))
              /\ d.name \in Names /\ d.new \in Names /\ Desired(d) \subseteq ItemSet /\ d \in Commands
              /\ d.op # "duplicate" => d.new = d.name
          BY <4>1, <4>3, <5>1, FaithfulOf DEF Active
        <5>3. r.stage = "write" => d.name \in Registered /\ d.new \in Registered
          BY <5>1, <5>2 DEF Going
        <5>4. r.stage = "write" => Begun(d)' = Begun(d) /\ (d.name \in vhd' <=> d.name \in vhd)
          BY <2>6, <5>2, <5>3 DEF Begun, Default
        <5>5. Plan(r)'
          <6>1. d.op = "register" /\ (r.stage = "write" \/ d.name \notin Registered')
                => r.conf = LoadFile(Default(d.name \in vhd), r.xml) /\ (d.name \in vhd' <=> d.name \in vhd)
            <7>1. SUFFICES ASSUME d.op = "register", r.stage = "write" \/ d.name \notin Registered'
                           PROVE  r.conf = LoadFile(Default(d.name \in vhd), r.xml) /\ (d.name \in vhd' <=> d.name \in vhd)
              OBVIOUS
            <7>2. d.name # c.new
              BY <1>6, <2>4, <5>3, <7>1
            <7>3. d.name \in vhd' <=> d.name \in vhd
              BY <2>2, <7>2
            <7>4. r.stage = "write" \/ d.name \notin Registered
              BY <2>4, <7>1
            <7> QED BY <5>1, <5>2, <7>1, <7>3, <7>4 DEF Plan
          <6>2. d.op = "register" /\ (r.stage = "write" \/ d.name \notin Registered')
                => r.conf = LoadFile(Default(d.name \in vhd'), r.xml)
            BY <6>1 DEF Default
          <6> QED BY <5>1, <5>2, <6>2 DEF Plan
        <5>6. ASSUME NEW i \in Desired(d) PROVE Known(r, i)' /\ (Alone(r, i) => Alone(r, i)')
          <6>1. i \in ItemSet /\ Current(d.name, i)' = Current(d.name, i) /\ Known(r, i)
            BY <2>5, <5>2
          <6>2. r.stage = "write" \/ (r.stage \in {"loadFile", "create"} /\ d.op = "duplicate")
                => Outcomes(r, i)' = Outcomes(r, i)
            BY <2>14, <5>1, <5>4 DEF Outcomes
          <6>3. r.stage = "write" => keys'[d.new] = keys[d.new]
            BY <1>6, <2>2, <5>2, <5>3
          <6> QED BY <5>1, <6>1, <6>2, <6>3 DEF Known, Alone
        <5>7. Faithful(r)'
          BY <5>1, <5>2, <5>5, <5>6 DEF Faithful
        <5> QED BY <4>1, <5>7
      <4> QED BY <4>2, <4>3
    <3> QED BY <3>1, <3>2
  <2> QED BY <2>7, <2>8, <2>16 DEF History, Typed
<1> QED BY <1>5, <1>6
(* The history after a write. *)
Written(h, l, i) ==
    /\ Typed(h)
    /\ \A n \in Names, j \in ItemSet :
         h[n][j] = IF n = l.cmd.new /\ Tail(l.todo) = <<>> /\ j \in l.solo THEN Outcomes(l, j)
                   ELSE IF n = l.cmd.new /\ j = i THEN promised[n][j] \cup Outcomes(l, i)
                   ELSE promised[n][j]

LEMMA WrittenIs ==
  ASSUME Inv, History, NEW p \in Procs, Write(p)
  PROVE  Written(promised', proc[p], Head(proc[p].todo))
<1> DEFINE l == proc[p]
           c == l.cmd
           i == Head(l.todo)
<1>1. Active(p) /\ l.stage = "write"
  BY DEF Write, At, Active
<1>2. /\ l.outcome = "none" /\ l.solo \subseteq Desired(c) /\ Going(l) /\ c.new \in Names /\ Desired(c) \subseteq ItemSet
  BY <1>1, FaithfulOf
<1>3. i \in ItemSet /\ Writes(c) = Desired(c) /\ i \in Desired(c)
  <2>1. l.todo \in Todos(c) /\ c.op # "export-config"
    BY <1>1, <1>2 DEF Going
  <2> QED BY <2>1, TodoStep, LeftIs DEF Writes
<1>4. PICK left : left = Tail(l.todo)
  OBVIOUS
<1>5. PICK S : S = Settled(p, "ok")
  OBVIOUS
<1>6. PICK n : n = c.new
  OBVIOUS
<1>7. PICK written : written = [promised EXCEPT ![n][i] = @ \cup IF i \in Writes(c) THEN Outcomes(l, i) ELSE {}]
  OBVIOUS
<1>8. promised' = IF left # <<>> THEN written
                  ELSE [written EXCEPT ![n] = [j \in ItemSet |-> IF j \in l.solo THEN S[n][j] ELSE @[j]]]
  <2> DEFINE W == [promised EXCEPT ![c.new][i] = @ \cup IF i \in Writes(c) THEN Outcomes(l, i) ELSE {}]
  <2>1. promised' = IF Tail(l.todo) # <<>> THEN W
                    ELSE [W EXCEPT ![c.new] = [j \in ItemSet |->
                           IF j \in l.solo THEN Settled(p, "ok")[c.new][j] ELSE @[j]]]
    BY ONLY Write(p) DEF Write
  <2> HIDE DEF l, c, i
  <2>2. W = written
    BY ONLY <1>6, <1>7
  <2> HIDE DEF W
  <2> QED BY ONLY <2>1, <2>2, <1>4, <1>5, <1>6
<1>9. promised = [m \in Names |-> promised[m]] /\ \A m \in Names : promised[m] = [j \in ItemSet |-> promised[m][j]]
  BY DEF History
<1>10. /\ written = [m \in Names |-> IF m = n THEN [promised[n] EXCEPT ![i] = promised[n][i] \cup Outcomes(l, i)]
                                     ELSE promised[m]]
       /\ n \in Names
  <2>1. (IF i \in Writes(c) THEN Outcomes(l, i) ELSE {}) = Outcomes(l, i)
    BY <1>3
  <2> QED BY <1>2, <1>6, <1>7, <1>9, <2>1, Zenon
<1>11. /\ written = [m \in Names |-> written[m]]
       /\ \A m \in Names : written[m] = [j \in ItemSet |-> written[m][j]]
       /\ \A m \in Names, j \in ItemSet :
            written[m][j] = IF m = n /\ j = i THEN promised[m][j] \cup Outcomes(l, i) ELSE promised[m][j]
  <2>1. PICK row : row = [promised[n] EXCEPT ![i] = promised[n][i] \cup Outcomes(l, i)]
    OBVIOUS
  <2>2. row = [j \in ItemSet |-> IF j = i THEN promised[n][i] \cup Outcomes(l, i) ELSE promised[n][j]]
    BY <1>3, <1>9, <1>10, <2>1
  <2>3. row = [j \in ItemSet |-> row[j]]
    BY <2>2
  <2>4. written = [m \in Names |-> IF m = n THEN row ELSE promised[m]]
    BY <1>10, <2>1
  <2>5. written = [m \in Names |-> written[m]]
    BY <2>4
  <2>6. \A m \in Names : written[m] = IF m = n THEN row ELSE promised[m]
    BY <2>4
  <2>7. \A m \in Names : written[m] = [j \in ItemSet |-> written[m][j]]
    <3> SUFFICES ASSUME NEW m \in Names PROVE written[m] = [j \in ItemSet |-> written[m][j]]
      OBVIOUS
    <3>1. CASE m = n
      BY <2>3, <2>6, <3>1
    <3>2. CASE m # n
      BY <1>9, <2>6, <3>2
    <3> QED BY <3>1, <3>2
  <2>8. \A m \in Names, j \in ItemSet :
            written[m][j] = IF m = n /\ j = i THEN promised[m][j] \cup Outcomes(l, i) ELSE promised[m][j]
    <3> SUFFICES ASSUME NEW m \in Names, NEW j \in ItemSet
                 PROVE  written[m][j] = IF m = n /\ j = i THEN promised[m][j] \cup Outcomes(l, i) ELSE promised[m][j]
      OBVIOUS
    <3>1. CASE m = n
      <4>1. written[m][j] = row[j]
        BY <2>6, <3>1
      <4>2. row[j] = IF j = i THEN promised[n][i] \cup Outcomes(l, i) ELSE promised[n][j]
        BY <2>2
      <4> QED BY <3>1, <4>1, <4>2
    <3>2. CASE m # n
      BY <2>6, <3>2
    <3> QED BY <3>1, <3>2
  <2> QED BY <2>5, <2>7, <2>8
<1>12. \A j \in ItemSet : j \in l.solo => S[n][j] = Outcomes(l, j)
  <2>1. SettledAs(S, l, "ok")
    <3>1. Typed(promised) /\ proc[p].cmd.new \in Names
      BY <1>2 DEF History, Typed
    <3> QED BY <1>5, <3>1, SettledIs
  <2> QED BY <1>2, <1>3, <1>6, <1>10, <2>1 DEF SettledAs
<1>13. CASE left # <<>>
  <2>1. promised' = written
    BY <1>8, <1>13
  <2>2. Typed(written)
    BY <1>11 DEF Typed
  <2> QED BY <1>4, <1>6, <1>11, <1>13, <2>1, <2>2, ZenonT(60) DEF Written
<1>14. CASE left = <<>>
  <2>1. PICK row : row = [j \in ItemSet |-> IF j \in l.solo THEN S[n][j] ELSE written[n][j]]
    OBVIOUS
  <2>2. row = [j \in ItemSet |-> row[j]] /\ \A j \in ItemSet : row[j] = IF j \in l.solo THEN S[n][j] ELSE written[n][j]
    BY <2>1
  <2>3. PICK h : h = promised'
    OBVIOUS
  <2>4. h = [written EXCEPT ![n] = row]
    BY <1>8, <1>11, <1>14, <2>1, <2>3
  <2>5. h = [m \in Names |-> IF m = n THEN row ELSE written[m]]
    BY <1>11, <2>4
  <2>6. h = [m \in Names |-> h[m]] /\ \A m \in Names : h[m] = [j \in ItemSet |-> h[m][j]]
    BY <1>11, <2>2, <2>5
  <2>7. Typed(h)
    BY <2>6 DEF Typed
  <2>8. \A m \in Names, j \in ItemSet :
           h[m][j] = IF m = n /\ j \in l.solo THEN Outcomes(l, j)
                     ELSE IF m = n /\ j = i THEN promised[m][j] \cup Outcomes(l, i)
                     ELSE promised[m][j]
    <3> SUFFICES ASSUME NEW m \in Names, NEW j \in ItemSet
                 PROVE  h[m][j] = IF m = n /\ j \in l.solo THEN Outcomes(l, j)
                                  ELSE IF m = n /\ j = i THEN promised[m][j] \cup Outcomes(l, i)
                                  ELSE promised[m][j]
      OBVIOUS
    <3>1. CASE m = n
      <4>1. h[m][j] = row[j]
        BY <2>5, <3>1
      <4>2. row[j] = IF j \in l.solo THEN Outcomes(l, j) ELSE written[n][j]
        BY <1>12, <2>2
      <4>3. written[n][j] = IF j = i THEN promised[n][j] \cup Outcomes(l, i) ELSE promised[n][j]
        BY <1>11, <3>1
      <4> QED BY <3>1, <4>1, <4>2, <4>3
    <3>2. CASE m # n
      <4>1. h[m] = written[m]
        BY <2>5, <3>2
      <4> QED BY <1>11, <3>2, <4>1, ZenonT(60)
    <3> QED BY <3>1, <3>2
  <2> QED BY <1>4, <1>6, <1>14, <2>3, <2>7, <2>8, ZenonT(60) DEF Written
<1> QED BY <1>13, <1>14

\* configure_distro: what the command promises is written once it ends, and who else has
\* to do with the value is disturbed.
LEMMA WriteFaithful == ASSUME Inv, History, NEW p \in Procs, Write(p) PROVE History'
<1>1. PICK l : l = proc[p]
  OBVIOUS
<1>2. PICK c : c = l.cmd
  OBVIOUS
<1>3. PICK n : n = c.new
  OBVIOUS
<1>4. PICK i : i = Head(l.todo)
  OBVIOUS
<1>5. PICK left : left = Tail(l.todo)
  OBVIOUS
<1>6. Active(p) /\ l.stage = "write" /\ UNCHANGED vhd
  BY <1>1 DEF Write, At, Active
<1>7. /\ l.outcome = "none" /\ l.solo \subseteq Desired(c) /\ Plan(l) /\ DOMAIN l.before = ItemSet
      /\ (\A j \in Desired(c) : Known(l, j)) /\ (\A j \in l.solo : Alone(l, j))
      /\ c \in Commands /\ l = [f \in Fields |-> l[f]] /\ Going(l) /\ Complete(l.conf)
      /\ n \in Names /\ Desired(c) \subseteq ItemSet
  BY <1>1, <1>2, <1>3, <1>6, FaithfulOf
<1>8. n \in Registered /\ l.todo \in Todos(c)
  BY <1>2, <1>3, <1>6, <1>7 DEF Going
<1>9. /\ i \in ItemSet /\ i \in Desired(c) /\ Left(l.todo) = {i} \cup Left(left) /\ i \notin Left(left) /\ (left = <<>> => Left(left) = {})
  <2>1. left = <<>> => Left(left) = {}
    BY DEF Left
  <2> QED BY <1>4, <1>5, <1>8, <2>1, TodoStep, LeftIs
<1>10. keys' = [m \in Names |-> IF m = n THEN [keys[n] EXCEPT ![i] = l.conf[i]] ELSE keys[m]]
  BY <1>1, <1>2, <1>3, <1>4 DEF Write, Inv, TypeOK
<1>11. \A j \in ItemSet : keys'[n][j] = IF j = i THEN l.conf[i] ELSE keys[n][j]
  <2>1. keys[n] = [j \in ItemSet |-> keys[n][j]]
    BY <1>8 DEF Inv, TypeOK, Partial
  <2>2. keys'[n] = [keys[n] EXCEPT ![i] = l.conf[i]]
    BY <1>7, <1>10
  <2> QED BY <1>9, <2>1, <2>2
<1>12. Registered' = Registered
  <2>1. Inv'
    BY WriteOK DEF Inv
  <2>2. keys'[n] # NoValue
    <3>1. keys'[n] = [j \in ItemSet |-> keys'[n][j]]
      <4>1. keys[n] = [j \in ItemSet |-> keys[n][j]]
        BY <1>8 DEF Inv, TypeOK, Partial
      <4> QED BY <1>7, <1>10, <4>1
    <3>2. \A j \in ItemSet : keys'[n][j] = NoValue \/ keys'[n][j] \in Value(j)
      BY <1>7, <1>8, <1>9, <1>11 DEF Complete, Inv, TypeOK, Partial
    <3>3. \A j \in ItemSet : Value(j) \subseteq Seq(Entries \cup {Blank}) \cup Plain \cup (SUBSET FlagBits)
      BY DEF Value
    <3>4. keys'[n] \in [ItemSet -> Seq(Entries \cup {Blank}) \cup Plain \cup (SUBSET FlagBits) \cup {NoValue}]
      BY <3>1, <3>2, <3>3
    <3> QED BY <3>4, ConfigAssumption
  <2> QED BY <1>8, <1>10, <2>2 DEF Registered
<1>13. \A m \in Names, j \in ItemSet : Current(m, j)' = IF m = n /\ j = i THEN Got(i, l.conf[i]) ELSE Current(m, j)
  <2> SUFFICES ASSUME NEW m \in Names, NEW j \in ItemSet
               PROVE  Current(m, j)' = IF m = n /\ j = i THEN Got(i, l.conf[i]) ELSE Current(m, j)
    OBVIOUS
  <2>1. CASE m = n /\ j = i
    <3>1. keys'[n][i] = l.conf[i] /\ l.conf[i] # NoValue
      BY <1>7, <1>9, <1>11 DEF Complete
    <3> QED BY <1>8, <1>12, <2>1, <3>1 DEF Current, Effective, TryGet
  <2>2. CASE ~(m = n /\ j = i)
    <3>1. m \in Registered => keys'[m][j] = keys[m][j]
      BY <1>10, <1>11, <2>2
    <3> QED BY <1>12, <2>2, <3>1 DEF Current, Effective
  <2> QED BY <2>1, <2>2
<1>14. /\ Typed(promised')
       /\ \A m \in Names, j \in ItemSet :
            promised'[m][j] = IF m = n /\ left = <<>> /\ j \in l.solo THEN Outcomes(l, j)
                              ELSE IF m = n /\ j = i THEN promised[m][j] \cup Outcomes(l, i)
                              ELSE promised[m][j]
  <2>1. /\ Typed(promised')
        /\ \A m \in Names, j \in ItemSet :
             promised'[m][j] = IF m = c.new /\ Tail(l.todo) = <<>> /\ j \in l.solo THEN Outcomes(l, j)
                               ELSE IF m = c.new /\ j = i THEN promised[m][j] \cup Outcomes(l, i)
                               ELSE promised[m][j]
    <3>1. Written(promised', l, i)
      BY <1>1, <1>4, WrittenIs
    <3> QED BY <1>2, <3>1, ZenonT(60) DEF Written, Typed
  <2> QED BY <1>3, <1>5, <2>1
<1>15. Kept'
  <2> SUFFICES ASSUME NEW m \in Names, NEW j \in ItemSet PROVE Current(m, j)' \in promised'[m][j]
    BY DEF Kept
  <2>1. CASE m = n /\ left = <<>> /\ j \in l.solo
    <3>1. Got(j, l.conf[j]) \in Outcomes(l, j)
      BY <1>6, <1>7, <2>1 DEF Known
    <3>2. Current(m, j)' = Got(j, l.conf[j])
      <4>1. CASE j = i
        BY <1>13, <2>1, <4>1
      <4>2. CASE j # i
        <5>1. j \notin Left(l.todo)
          BY <1>9, <2>1, <4>2
        <5>2. keys[n][j] = l.conf[j] /\ l.conf[j] # NoValue
          BY <1>2, <1>3, <1>6, <1>7, <2>1, <5>1 DEF Alone, Complete
        <5>3. Current(n, j) = Got(j, l.conf[j])
          BY <1>8, <5>2 DEF Current, Effective, TryGet
        <5> QED BY <1>13, <2>1, <4>2, <5>3
      <4> QED BY <4>1, <4>2
    <3> QED BY <1>14, <2>1, <3>1, <3>2
  <2>2. CASE ~(m = n /\ left = <<>> /\ j \in l.solo)
    <3>1. Current(m, j) \in promised[m][j]
      BY DEF History, Kept
    <3>2. promised'[m][j] = IF m = n /\ j = i THEN promised[m][j] \cup Outcomes(l, i) ELSE promised[m][j]
      BY <1>14, <2>2
    <3>3. Current(m, j)' = IF m = n /\ j = i THEN Got(i, l.conf[i]) ELSE Current(m, j)
      BY <1>13
    <3>4. Got(i, l.conf[i]) \in Outcomes(l, i)
      BY <1>6, <1>7, <1>9 DEF Known
    <3> QED BY <3>1, <3>2, <3>3, <3>4
  <2> QED BY <2>1, <2>2
<1>16. ASSUME NEW d, NEW j, NEW v, NEW xml PROVE Result(d, j, v, xml)' = Result(d, j, v, xml)
  BY <1>6 DEF Result, Begun
<1>17. ASSUME NEW r PROVE (\A j : Outcomes(r, j)' = Outcomes(r, j)) /\ (Plan(r) => Plan(r)')
  BY <1>6, <1>12, <1>16 DEF Outcomes, Plan
<1>18. ASSUME NEW q \in Procs PROVE Faithful(proc[q])'
  <2>1. PICK s : s = proc'[q]
    OBVIOUS
  <2>2. CASE q = p /\ left = <<>>
    <3>1. s = Rest(c, "ok")
      BY <1>1, <1>2, <1>5, <2>1, <2>2 DEF Write
    <3>2. s.stage = "idle"
      BY <3>1 DEF Rest
    <3> QED BY <2>1, <3>2 DEF Faithful
  <2>3. CASE q = p /\ left # <<>>
    <3>1. s = [l EXCEPT !.todo = left]
      BY <1>1, <1>5, <2>1, <2>3 DEF Write
    <3>2. /\ s.stage = "write" /\ s.cmd = c /\ s.conf = l.conf /\ s.xml = l.xml /\ s.solo = l.solo
          /\ s.before = l.before /\ s.outcome = l.outcome /\ s.todo = left
      BY <1>2, <1>6, <1>7, <3>1 DEF Fields
    <3>3. Plan(s)
      BY <1>2, <1>6, <1>7, <3>2 DEF Plan
    <3>4. ASSUME NEW j \in Desired(c) PROVE Known(s, j)' /\ (j \in l.solo => Alone(s, j)')
      <4>1. Known(l, j) /\ (j \in l.solo => Alone(l, j)) /\ j \in ItemSet
        BY <1>7
      <4>2. Got(j, s.conf[j]) \in Outcomes(s, j)
        BY <1>2, <1>6, <3>2, <4>1 DEF Known, Outcomes
      <4>3. j \in l.solo /\ j \notin Left(left) => keys'[n][j] = l.conf[j]
        <5>1. CASE j = i
          BY <1>11, <4>1, <5>1
        <5>2. CASE j # i
          BY <1>2, <1>3, <1>6, <1>9, <1>11, <4>1, <5>2 DEF Alone
        <5> QED BY <5>1, <5>2
      <4>4. Known(s, j)'
        BY <1>17, <3>2, <4>2 DEF Known
      <4>5. j \in l.solo => Alone(s, j)'
        BY <1>3, <3>2, <4>3 DEF Alone
      <4> QED BY <4>4, <4>5
    <3>5. Faithful(s)'
      BY <1>7, <1>17, <3>2, <3>3, <3>4 DEF Faithful
    <3> QED BY <2>1, <3>5
  <2>4. CASE q # p
    <3>1. PICK r : r = proc[q]
      OBVIOUS
    <3>2. CASE r.stage = "idle"
      <4>1. ~Active(q)
        BY <3>1, <3>2 DEF Active
      <4>2. s = r
        BY <2>1, <2>4, <3>1, <3>2, WrittenBy
      <4>3. Faithful(s)'
        BY <3>2, <4>2 DEF Faithful
      <4> QED BY <2>1, <4>3
    <3>3. CASE r.stage # "idle"
      <4>1. PICK d : d = r.cmd
        OBVIOUS
      <4>2. /\ r.outcome = "none" /\ r.solo \subseteq Desired(d) /\ Plan(r) /\ DOMAIN r.before = ItemSet
            /\ (\A j \in Desired(d) : Known(r, j)) /\ (\A j \in r.solo : Alone(r, j))
            /\ r = [f \in Fields |-> r[f]] /\ d.name \in Names /\ d.new \in Names /\ Desired(d) \subseteq ItemSet
        BY <3>1, <3>3, <4>1, FaithfulOf DEF Active
      <4>3. PICK v : v = Got(i, l.conf[i])
        OBVIOUS
      <4>4. PICK hit \in BOOLEAN : hit <=> n \in {d.name, d.new} /\ i \in Desired(d)
        OBVIOUS
      <4>5. s = IF hit THEN DisturbedBy(r, n, i, v) ELSE r
        BY <1>1, <1>2, <1>3, <1>4, <2>1, <2>4, <3>1, <3>3, <4>1, <4>3, <4>4, WrittenBy
      <4>6. /\ s.stage = r.stage /\ s.cmd = d /\ s.conf = r.conf /\ s.xml = r.xml
            /\ s.outcome = r.outcome /\ s.todo = r.todo
            /\ s.solo \subseteq r.solo /\ (i \in s.solo => n # d.name /\ n # d.new)
            /\ DOMAIN s.before = ItemSet
            /\ \A j \in ItemSet : r.before[j] \subseteq s.before[j] /\ (hit /\ j = i /\ n = d.name => v \in s.before[j])
        <5>1. CASE hit
          <6>1. s = DisturbedBy(r, n, i, v) /\ r = [f \in Fields |-> r[f]]
            BY <4>2, <4>5, <5>1
          <6>2. /\ s.stage = r.stage /\ s.todo = r.todo /\ s.outcome = r.outcome
                /\ s.cmd = r.cmd /\ s.conf = r.conf /\ s.xml = r.xml /\ s.solo = r.solo \ {i}
                /\ DOMAIN s.before = DOMAIN r.before
            BY <6>1, DisturbedIs
          <6>3. \A j \in DOMAIN r.before : r.before[j] \subseteq s.before[j] /\ (j = i /\ r.cmd.name = n => v \in s.before[j])
            BY <6>1, DisturbedIs
          <6>4. i \in s.solo => n # d.name /\ n # d.new
            BY <6>2
          <6>5. \A j \in ItemSet : r.before[j] \subseteq s.before[j] /\ (hit /\ j = i /\ n = d.name => v \in s.before[j])
            BY <4>1, <4>2, <6>3
          <6> QED BY <4>1, <4>2, <6>2, <6>4, <6>5
        <5>2. CASE ~hit
          BY <4>1, <4>2, <4>4, <4>5, <5>2
        <5> QED BY <5>1, <5>2
      <4>7. Plan(s)
        BY <4>1, <4>2, <4>6 DEF Plan
      <4>8. ASSUME NEW j \in Desired(d) PROVE Known(s, j)'
        <5>1. j \in ItemSet /\ Known(r, j)
          BY <4>2
        <5>2. r.stage # "write" => Current(d.name, j)' \in s.before[j]
          <6>1. r.stage # "write" => Current(d.name, j) \in r.before[j]
            BY <4>1, <5>1 DEF Known
          <6>2. CASE d.name = n /\ j = i
            BY <1>13, <4>2, <4>3, <4>4, <4>6, <5>1, <6>2
          <6>3. CASE ~(d.name = n /\ j = i)
            BY <1>13, <4>2, <4>6, <5>1, <6>1, <6>3
          <6> QED BY <6>2, <6>3
        <5>3. Outcomes(r, j) \subseteq Outcomes(s, j)
          BY <4>1, <4>6, <5>1 DEF Outcomes
        <5>4. Outcomes(s, j)' = Outcomes(s, j)
          BY <1>17
        <5> QED BY <4>1, <4>6, <5>1, <5>2, <5>3, <5>4 DEF Known
      <4>9. ASSUME NEW j \in s.solo PROVE Alone(s, j)'
        <5>1. j \in ItemSet /\ Alone(r, j)
          BY <4>2, <4>6
        <5>2. Current(d.name, j)' = Current(d.name, j)
          BY <1>13, <4>2, <4>6, <5>1
        <5>3. r.stage = "write" => keys'[d.new][j] = keys[d.new][j]
          BY <1>10, <1>11, <4>2, <4>6, <5>1
        <5> QED BY <4>1, <4>6, <5>1, <5>2, <5>3 DEF Alone
      <4>10. Faithful(s)'
        BY <1>17, <4>2, <4>6, <4>7, <4>8, <4>9 DEF Faithful
      <4> QED BY <2>1, <4>10
    <3> QED BY <3>2, <3>3
  <2> QED BY <2>2, <2>3, <2>4
<1> QED BY <1>14, <1>15, <1>18 DEF History, Typed
-----------------------------------------------------------------------------
(* The theorems about values *)

\* At the start nobody has promised anything but what is there.
LEMMA InitFaithful == Init => History
<1> SUFFICES ASSUME Init PROVE History
  OBVIOUS
<1>1. promised = [n \in Names |-> [i \in ItemSet |-> {Current(n, i)}]]
  BY DEF Init, Current
<1>2. Kept
  BY <1>1 DEF Kept
<1>3. \A p \in Procs : Faithful(proc[p])
  BY RestFaithful DEF Init
<1>4. promised = [n \in Names |-> [i \in ItemSet |-> promised[n][i]]]
  BY <1>1
<1> QED BY <1>2, <1>3, <1>4 DEF History

\* Every step keeps it.
LEMMA NextFaithful == Inv /\ History /\ [Next]_vars => History'
<1> SUFFICES ASSUME Inv, History, [Next]_vars PROVE History'
  OBVIOUS
<1>1. CASE UNCHANGED vars
  <2>1. UNCHANGED <<keys, vhd, promised, proc>>
    BY <1>1 DEF vars
  <2>2. ASSUME NEW p \in Procs PROVE Faithful(proc[p])'
    <3>1. PICK r : r = proc[p]
      OBVIOUS
    <3>2. Faithful(r) /\ r = proc'[p]
      BY <2>1, <3>1 DEF History
    <3>3. Faithful(r)'
      BY <2>1, <3>2, SameIs
    <3> QED BY <3>2, <3>3
  <2>3. Kept'
    BY <2>1, SameIs DEF History, Kept
  <2> QED BY <2>1, <2>2, <2>3 DEF History
<1>2. ASSUME NEW p \in Procs, Issue(p) \/ Step(p) \/ Mishap(p) PROVE History'
  BY <1>2, IssueFaithful, LocateFaithful, ProbeFaithful, ReadFaithful, EditFaithful, OpenFileFaithful,
     SaveFileFaithful, CreateFaithful, WriteFaithful, MishapFaithful DEF Step
<1> QED BY <1>1, <1>2 DEF Next, Quiet

\* No change gets lost and none is invented, for any number of processes, commands and
\* mishaps: every value of every distribution is what the commands that ended have made of
\* it, as long as no other command wrote the same value meanwhile.
THEOREM EveryChangeAccounted == Spec => []Accounted
<1>1. History => Accounted
  BY DEF History, Kept, Current, Accounted, Registered
<1> QED BY <1>1, InitOK, NextOK, InitFaithful, NextFaithful, PTL DEF Spec

\* Every step but a write is one of a single process.
LEMMA BecomesOf ==
  ASSUME Inv, NEW p \in Procs, Issue(p) \/ Step(p) \/ Mishap(p), ~Write(p)
  PROVE  \E m : Become(p, m)
<1>1. ASSUME NEW l, Proceed(p, l) PROVE \E m : Become(p, m)
  BY <1>1 DEF Proceed, End
<1>2. ASSUME NEW outcome, Stop(p, outcome) PROVE \E m : Become(p, m)
  BY <1>2 DEF Stop, End
<1>3. CASE Issue(p) \/ Probe(p)
  BY <1>3 DEF Issue, Probe
<1>4. CASE Locate(p) \/ SaveFile(p) \/ OpenFile(p)
  BY <1>1, <1>2, <1>4 DEF Locate, SaveFile, OpenFile
<1>5. CASE Read(p)
  BY <1>1, <1>2, <1>5 DEF Read
<1>6. CASE Edit(p)
  <2>1. proc[p].stage = "edit" /\ Active(p)
    BY <1>6 DEF Edit, At, Active
  <2>2. proc[p].cmd.op \in Editors
    BY <2>1, ActiveOK DEF Going
  <2> QED BY <1>1, <1>2, <1>6, <2>2, EditIs, ZenonT(60)
<1>7. CASE Create(p) \/ Mishap(p)
  BY <1>2, <1>7 DEF Create, Mishap
<1> QED BY <1>3, <1>4, <1>5, <1>6, <1>7 DEF Step

\* What export-config writes is what the distribution has, value by value, whatever other
\* commands did to the other values meanwhile.
THEOREM ExportsAreCurrent == Spec => ExportIsCurrent
<1> DEFINE Exact == \A p \in Procs : At(p, "saveFile") /\ proc'[p].outcome = "ok" =>
              \A i \in ItemSet : Got(i, LoadFile(Default(FALSE), file')[i]) \in
                  IF i \in proc[p].solo THEN promised[proc[p].cmd.name][i] ELSE proc[p].before[i]
<1>1. ASSUME Inv, History, [Next]_vars PROVE [Exact]_vars
  <2> SUFFICES ASSUME Next, NEW p \in Procs, At(p, "saveFile"), proc'[p].outcome = "ok", NEW i \in ItemSet
               PROVE  Got(i, LoadFile(Default(FALSE), file')[i]) \in
                        IF i \in proc[p].solo THEN promised[proc[p].cmd.name][i] ELSE proc[p].before[i]
    BY <1>1
  <2>1. PICK l : l = proc[p]
    OBVIOUS
  <2>2. PICK c : c = l.cmd
    OBVIOUS
  <2>3. l.stage = "saveFile" /\ Active(p)
    BY <2>1 DEF At, Active
  <2>4. /\ l.outcome = "none" /\ (\A j \in Desired(c) : Known(l, j)) /\ (\A j \in l.solo : Alone(l, j)) /\ Complete(l.conf)
        /\ c.name \in Names /\ Desired(c) \subseteq ItemSet /\ l = [f \in Fields |-> l[f]]
    BY <1>1, <2>1, <2>2, <2>3, FaithfulOf
  <2>5. /\ Clean(i, l.conf[i]) /\ l.conf[i] \in l.before[i]
        /\ i \in l.solo => l.conf[i] = Current(c.name, i)
    <3>1. c.op = "export-config"
      BY <1>1, <2>1, <2>2, <2>3, FaithfulOf DEF Going
    <3>2. i \in Desired(c)
      BY <3>1 DEF Desired, Whole
    <3> QED BY <2>2, <2>3, <2>4, <3>2 DEF Known, Alone
  <2>6. Current(c.name, i) \in promised[c.name][i]
    BY <1>1, <2>4 DEF History, Kept
  <2>7. Got(i, l.conf[i]) = l.conf[i] /\ l.conf[i] # NoValue
    BY <2>5, CleanIs
  <2>8. file' = l.conf
    <3>1. PICK q \in Procs : Issue(q) \/ Step(q) \/ Mishap(q)
      <4>1. l.outcome = "none" /\ l = proc[p]
        BY <2>1, <2>4
      <4>2. ~Quiet
        BY <4>1 DEF Quiet, vars
      <4> QED BY <4>2 DEF Next
    <3>2. ASSUME NEW m, Become(q, m) PROVE proc'[p] = IF q = p THEN m ELSE l
      BY <1>1, <2>1, <3>2 DEF Become, Inv, TypeOK
    <3>3. ASSUME Write(q) PROVE FALSE
      <4>1. q # p
        BY <2>1, <2>3, <3>3 DEF Write, At
      <4>2. \E n, j, v : proc'[p] = DisturbedBy(l, n, j, v) \/ proc'[p] = l
        <5>1. \/ proc'[p] = l
              \/ proc'[p] = DisturbedBy(l, proc[q].cmd.new, Head(proc[q].todo), Got(Head(proc[q].todo), proc[q].conf[Head(proc[q].todo)]))
          BY <2>1, <3>3, <4>1, WrittenBy
        <5> QED BY <5>1
      <4>3. proc'[p].outcome = l.outcome
        BY <2>4, <4>2, DisturbedIs
      <4> QED BY <2>4, <4>3
    <3>4. q = p
      <4>1. \E m : Become(q, m)
        BY <1>1, <3>1, <3>3, BecomesOf
      <4> QED BY <2>4, <3>2, <4>1
    <3>5. ASSUME Mishap(p) PROVE FALSE
      <4>1. PICK outcome \in {"error", "killed"} : Become(p, Rest(c, outcome))
        BY <2>1, <2>2, <3>5 DEF Mishap, Stop, End
      <4>2. proc'[p].outcome = outcome
        BY <3>2, <3>4, <4>1 DEF Rest
      <4> QED BY <4>2
    <3>6. SaveFile(p)
      BY <2>1, <2>3, <3>1, <3>3, <3>4, <3>5, Zenon
         DEF Step, Issue, Locate, Probe, Read, Edit, OpenFile, Create, At, Active
    <3> QED BY <2>1, <3>6 DEF SaveFile, Saved
  <2>9. LoadFile(Default(FALSE), file')[i] = l.conf[i]
    BY <2>7, <2>8 DEF LoadFile
  <2> QED BY <2>1, <2>2, <2>5, <2>6, <2>7, <2>9
<1> HIDE DEF Exact
<1>2. Inv /\ History /\ [Next]_vars => [Exact]_vars
  BY <1>1
<1>3. Spec => [][Exact]_vars
  BY <1>2, InitOK, NextOK, InitFaithful, NextFaithful, PTL DEF Spec
<1> QED BY <1>3 DEF Exact, ExportIsCurrent
=============================================================================
