------------------------- MODULE RegistryRefinement -------------------------
(***************************************************************************)
(* A single process whose calls do not fail implements DistroStore.  The   *)
(* abstract state is the store as it was when the last command ended: the  *)
(* history variable "settled" records it, since a command of reg.cpp is    *)
(* several registry calls.                                                 *)
(***************************************************************************)
EXTENDS Registry

VARIABLE settled

allVars == <<vars, settled>>

(* The store read the way list_distros, get_distro_dir and get_default_distro do. *)
Reading(ks, def) ==
    LET live == {k \in Guids : ks[k].status = "live"}
    IN  [table  |-> [n \in {ks[k].name : k \in live} |->
                        ks[CHOOSE k \in live : ks[k].name = n].dir],
         chosen |-> IF def = NoValue THEN NoValue ELSE ks[def].name]

SettledInit == Init /\ settled = Reading(keys, default)

SettledNext ==
    /\ Next
    /\ settled' = IF AllIdle' THEN Reading(keys', default') ELSE settled

SettledSpec == SettledInit /\ [][SettledNext]_allVars

Promised == INSTANCE DistroStore WITH table <- settled.table, chosen <- settled.chosen

\* Commands of one process, each up to a dozen registry calls, look atomic: every
\* one of them is all of its promise or nothing (register_distro, unregister_distro,
\* set_default_distro, set_distro_dir when no call fails).
ImplementsStore == Promised!StoreSpec

\* A refused command is refused for the promised reason only, and has changed
\* nothing: the name is in use, is unknown, or there is no default distribution.
RefusedForCause ==
    [][\A p \in Procs : proc[p].pc # "idle" /\ proc'[p].outcome = "error" =>
         LET cmd == proc[p].cmd
         IN  /\ settled' = settled
             /\ CASE cmd.op = "register"   -> cmd.name \in DOMAIN settled.table
                  [] cmd.op = "unregister" -> settled.chosen = NoValue \/ cmd.name \notin DOMAIN settled.table
                  [] OTHER                 -> cmd.name \notin DOMAIN settled.table]_allVars
=============================================================================
