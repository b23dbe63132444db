------------------------------ MODULE MCPaths ------------------------------
(* Names for Paths: the cases of tests/test_path.cpp, and some that it leaves out. *)
EXTENDS Layout

MCOdd    == [linux |-> home \o <<58, 34, 35, 92>>,                 \* begins like a pattern
             v1 |-> home \o <<35, 48, 48, 51, 65, 35, 48, 48, 50, 50, 35, 48, 48, 50, 51, 35, 48, 48, 53, 67>>,
             v2 |-> home \o <<61498, 61474, 35, 61532>>]
MCFirst  == Same(<<61441>>)                                         \* test_wsl_v2_reserved

MCNames == {Rootfs, Same(home), MCOdd, MCFirst}
MCEntryNames == {Same(home), MCOdd}

(* Not made by WSL: too short, not a number, blanks and a sign and the character 0. *)
MCForeign == {Same(<<35, 52>>), Same(<<97, 35, 120>>), Same(home \o <<35, 32, 45, 48, 120>>)}
MCRoots == {NoRoot, Same(home)}

Drive == <<67, 58>>     \* C:
MCBases ==
    LET d == [text |-> Drive \o <<92, 100>>, parts |-> <<Drive, <<100>>>>]
        dOpen == [d EXCEPT !.text = Verbatim \o @ \o <<92>>]
        de == [text |-> d.text \o <<101>>, parts |-> <<Drive, <<100, 101>>>>]
        below == [text |-> d.text \o <<92, 101>>, parts |-> <<Drive, <<100>>, <<101>>>>]
        drive == [text |-> Drive \o <<92>>, parts |-> <<Drive>>]
    IN  {[from |-> f, to |-> t] : f \in {d}, t \in {d, dOpen, de, below, drive}}
        \cup {[from |-> dOpen, to |-> d], [from |-> dOpen, to |-> below]}

(* Every way over three names, hidden ones with /home in front; one name is that of files. *)
Ways(set) == UNION {[1 .. k -> set] : k \in 1 .. 3}
MCFolders == {Node(w, FALSE) : w \in Ways(MCNames \ {MCFirst})}
             \cup {Node(<<Rootfs, Same(home)>> \o w, TRUE) : w \in {<<>>, <<MCOdd>>, <<Same(home)>>}}
MCFiles == {Node(Append(w, MCFirst), FALSE) : w \in {<<>>} \cup {w \in Ways(MCNames \ {MCFirst}) : Len(w) < 3}}
           \cup {Node(<<Rootfs, Same(home), MCFirst>>, TRUE)}
============================================================================
