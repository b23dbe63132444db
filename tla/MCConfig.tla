----------------------------- MODULE MCConfig -----------------------------
(* A small instance of Config for TLC. *)
EXTENDS Config, TLC

CONSTANTS present, fresh      \* a distribution that may exist, and one to be created

Line(var, text) == [var |-> var, text |-> text]
MCEntries  == {Line("LANG", 1), Line("LANG", 2), Line("TERM", 1)}
MCDefault  == <<Line("LANG", 1)>>
MCEnvLists == {<<Line("TERM", 1), Line("LANG", 2), Line("LANG", 1)>>, <<Line("LANG", 2), Blank, Line("TERM", 1)>>}

(* No file, one without flags and an empty line in the list, one with the flags of a
   distribution of WSL 2, another user and a list with a variable twice. *)
MCFiles == {NoValue, [NoConfig EXCEPT !["env"] = <<Line("LANG", 2), Blank, Line("TERM", 1)>>],
            [NoConfig EXCEPT !["env"] = <<Line("TERM", 1), Line("LANG", 2), Line("LANG", 1)>>,
                             !["uid"] = CHOOSE u \in Plain : u # DefaultPlain, !["flags"] = {"wsl2", "other"}]}

On(n, op, arg) == [op |-> op, name |-> n, new |-> n, arg |-> arg, file |-> op = "import-config"]
MCCommands ==
    {On(present, "set-env", <<Line("LANG", 2), Blank, Line("TERM", 1)>>)}
    \cup {On(present, "set-kernelcmd", u) : u \in Plain \ {DefaultPlain}}
    \cup {On(present, "add-env -f", Line("LANG", 2)), On(present, "add-env", Line("TERM", 1)), On(present, "remove-env", "LANG")}
    \cup {On(present, "set-flags", {}), On(fresh, "set-flags", {"wsl2"})}
    \cup {On(present, op, NoValue) : op \in {"import-config", "export-config"}}
    \cup {[On(fresh, "register", NoValue) EXCEPT !.file = TRUE], [On(present, "duplicate", NoValue) EXCEPT !.new = fresh]}

Symmetry == Permutations(Procs)
===========================================================================
