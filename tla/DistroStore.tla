---------------------------- MODULE DistroStore ----------------------------
(***************************************************************************)
(* What reg.cpp promises its callers when no call fails and nobody else    *)
(* writes: a table from the names of distributions to their directories,   *)
(* and one default among them.  Each command takes effect at once or is    *)
(* refused without a trace.                                                *)
(***************************************************************************)
CONSTANTS Names, Dirs, NoValue

VARIABLES
    table,      \* the directory of each registered name
    chosen      \* the default distribution, or NoValue

store == <<table, chosen>>

StoreInit ==
    /\ table \in UNION {[S -> Dirs] : S \in SUBSET Names}
    /\ chosen \in DOMAIN table \cup {NoValue}

(* The first distribution becomes the default, and so does one registered
   while there is no default. *)
Register(name, dir) ==
    /\ name \notin DOMAIN table
    /\ table' = [n \in DOMAIN table \cup {name} |-> IF n = name THEN dir ELSE table[n]]
    /\ chosen' = IF chosen = NoValue THEN name ELSE chosen

(* Mutant: the removed distribution stays the default. *)
UnregisterKeepsDefault(name) ==
    /\ chosen # NoValue
    /\ name \in DOMAIN table
    /\ table' = [n \in DOMAIN table \ {name} |-> table[n]]
    /\ chosen' = chosen

(* Refused without a default; another distribution inherits a removed default. *)
Unregister(name) ==
    /\ chosen # NoValue
    /\ name \in DOMAIN table
    /\ table' = [n \in DOMAIN table \ {name} |-> table[n]]
    /\ IF chosen # name THEN chosen' = chosen
       ELSE IF DOMAIN table = {name} THEN chosen' = NoValue
       ELSE chosen' \in DOMAIN table \ {name}

Choose(name) ==
    /\ name \in DOMAIN table
    /\ chosen' = name
    /\ table' = table

Relocate(name, dir) ==
    /\ name \in DOMAIN table
    /\ table' = [table EXCEPT ![name] = dir]
    /\ chosen' = chosen

StoreNext ==
    \E name \in Names :
        \/ \E dir \in Dirs : Register(name, dir) \/ Relocate(name, dir)
        \/ Unregister(name) \/ Choose(name)

StoreSpec == StoreInit /\ [][StoreNext]_store
=============================================================================
