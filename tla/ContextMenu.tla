---------------------------- MODULE ContextMenu ----------------------------
(***************************************************************************)
(* ContextMenuHandler.cpp: the entry "LxRunOffline" in the menu of a       *)
(* folder, with one item for each distribution.  Explorer makes one object *)
(* for a menu, initializes it, asks for the items and tells it which item  *)
(* was clicked, by number; the registry may change all the while.          *)
(***************************************************************************)
EXTENDS Integers, Sequences, TLAPS

CONSTANTS
    Names, Paths,   \* names of distributions; folders
    Nothing         \* no list, path, menu or process

Word == 65536
Ids == 0 .. Word - 1

VARIABLES
    registry,       \* what list_distros returns; Nothing if it throws
    distros, path,  \* members of the object
    hsm,            \* its popup menu: the items, or Nothing
    stage,          \* of the protocol: "new", "ready", "shown" or "released"
    shown,          \* what the user sees: identifiers, items and the folder; or Nothing
    started         \* the last process that was started, as name and working directory

object == <<distros, path, hsm>>
vars == <<registry, object, stage, shown, started>>

Item(id, text) == [id |-> id, text |-> text]

Init ==
    /\ registry \in Seq(Names) \cup {Nothing}
    /\ distros = <<>> /\ path = Nothing /\ hsm = Nothing
    /\ stage = "new" /\ shown = Nothing
    /\ started = Nothing

(* LxRunOffline.exe registers and unregisters distributions. *)
Change ==
    /\ registry' \in Seq(Names) \cup {Nothing}
    /\ UNCHANGED <<object, stage, shown, started>>

(* Initialize.  Anything but one folder with a path leaves the object as it is; the
   path is kept even if the distributions cannot be listed. *)
InitializeRefused ==
    /\ stage \in {"new", "ready"}
    /\ stage' = "new"
    /\ UNCHANGED <<registry, object, shown, started>>

Initialize(p) ==
    /\ stage \in {"new", "ready"}
    /\ path' = p
    /\ IF registry = Nothing THEN distros' = distros /\ stage' = "new"
                             ELSE distros' = registry /\ stage' = "ready"
    /\ UNCHANGED <<registry, hsm, shown, started>>

MenuSize(first, last) == IF Len(distros) < last - first + 1 THEN Len(distros) ELSE last - first + 1
Items(first, n) == [i \in 1 .. n |-> Item(first + i - 1, distros[i])]

(* QueryContextMenu, with the identifiers that Explorer has left for this entry.  A
   call that fails leaves the popup menu with fewer items or none, and no entry. *)
QueryContextMenu(first, last) ==
    /\ stage = "ready"
    /\ \/ /\ hsm' = Items(first, MenuSize(first, last))
          /\ stage' = "shown"
          /\ shown' = [first |-> first, last |-> last, items |-> hsm', enabled |-> distros # <<>>, dir |-> path]
       \/ /\ \E n \in 0 .. MenuSize(first, last) : hsm' \in {Nothing, Items(first, n)}
          /\ UNCHANGED <<stage, shown>>
    /\ UNCHANGED <<registry, distros, path, started>>

(* CMF_DEFAULTONLY: Explorer wants to know the default item, there is none. *)
QueryDefault == stage = "ready" /\ UNCHANGED vars

(* InvokeCommand; the verb of an item is its place among the identifiers.  Several
   calls may fail before and in CreateProcess. *)
InvokeCommand(verb) ==
    /\ IF verb < Word /\ verb < Len(distros)
       THEN started' \in {started, [name |-> distros[verb + 1], dir |-> path]}
       ELSE started' = started
    /\ UNCHANGED <<registry, object, stage, shown>>

Click(k) ==
    /\ stage = "shown" /\ shown.enabled /\ k \in DOMAIN shown.items
    /\ InvokeCommand(shown.items[k].id - shown.first)

(* Somebody else's verb, a name (its high word is not zero) or a number of no item. *)
InvokeOther(verb) ==
    /\ stage = "shown" /\ verb \notin {shown.items[k].id - shown.first : k \in DOMAIN shown.items}
    /\ InvokeCommand(verb)

(* FinalRelease: Explorer destroys the entry, the object its popup menu. *)
FinalRelease ==
    /\ stage # "released" /\ stage' = "released"
    /\ hsm' = Nothing /\ shown' = Nothing
    /\ UNCHANGED <<registry, distros, path, started>>

Next ==
    \/ Change \/ InitializeRefused \/ QueryDefault \/ FinalRelease
    \/ \E p \in Paths : Initialize(p)
    \/ \E first, last \in Ids : first <= last /\ QueryContextMenu(first, last)
    \/ \E k \in 1 .. Word : Click(k)
    \/ \E verb \in Nat : InvokeOther(verb)

Spec == Init /\ [][Next]_vars
-----------------------------------------------------------------------------
(* Properties *)

\* What the user sees is a view of the list that the object still has: an item for each
\* identifier from the first on, none beyond the last, the k-th for the k-th name.
MenuOK ==
    /\ registry \in Seq(Names) \cup {Nothing} /\ distros \in Seq(Names)
    /\ stage = "shown" =>
        /\ shown.dir = path
        /\ shown.first \in Ids /\ shown.last \in Ids
        /\ \E n \in 0 .. Len(distros) :
              n <= shown.last - shown.first + 1 /\ shown.items = Items(shown.first, n)

\* Whatever LxRunOffline.exe does to the registry between the showing of the menu and the
\* click, and however often the object was initialized or failed before, a click on an
\* item starts the distribution of that name, in the folder of the menu, or nothing.
ClickStarts ==
    [][\A k \in 1 .. Word : Click(k) =>
          started' \in {started, [name |-> shown.items[k].text, dir |-> shown.dir]}]_vars

-----------------------------------------------------------------------------
(* Proofs, for any names, folders and identifiers. *)

\* Identifiers are numbers.
LEMMA Identifier == Ids \subseteq Nat
BY DEF Ids, Word

\* The view of the menu is right in every state, for any names, folders and identifiers.
THEOREM MenuCorrect == Spec => []MenuOK
<1>1. Init => MenuOK
  BY DEF Init, MenuOK
<1>2. MenuOK /\ [Next]_vars => MenuOK'
  <2> SUFFICES ASSUME MenuOK, [Next]_vars PROVE MenuOK'
    OBVIOUS
  <2>1. CASE Change
    BY <2>1, ZenonT(60) DEF Change, MenuOK, Items, object
  <2>2. CASE InitializeRefused
    BY <2>2 DEF InitializeRefused, MenuOK, object
  <2>3. CASE QueryDefault \/ UNCHANGED vars
    BY <2>3, ZenonT(60) DEF QueryDefault, MenuOK, Items, vars, object
  <2>4. CASE FinalRelease
    BY <2>4 DEF FinalRelease, MenuOK
  <2>5. ASSUME NEW p \in Paths, Initialize(p) PROVE MenuOK'
    BY <2>5 DEF Initialize, MenuOK
  <2>6. ASSUME NEW first \in Ids, NEW last \in Ids, first <= last, QueryContextMenu(first, last) PROVE MenuOK'
    <3>1. CASE stage' = "shown"
      <4> DEFINE n == MenuSize(first, last)
      <4>1. /\ shown' = [first |-> first, last |-> last, items |-> Items(first, n),
                         enabled |-> distros # <<>>, dir |-> path]
            /\ UNCHANGED <<registry, distros, path>>
        BY <2>6, <3>1 DEF QueryContextMenu
      <4>2. Len(distros) \in Nat /\ first \in Int /\ last \in Int
        <5>1. distros \in Seq(Names)
          BY DEF MenuOK
        <5>2. Len(distros) \in Nat
          BY <5>1
        <5> QED BY <5>2, Identifier
      <4>3. n \in 0 .. Len(distros) /\ n <= last - first + 1
        BY <2>6, <4>2 DEF MenuSize
      <4> HIDE DEF n
      <4>4. /\ shown'.dir = path' /\ shown'.first = first /\ shown'.last = last
            /\ shown'.items = [i \in 1 .. n |-> Item(first + i - 1, distros'[i])]
        BY <4>1 DEF Items
      <4> QED BY <4>1, <4>3, <4>4 DEF MenuOK, Items
    <3>2. CASE stage' # "shown"
      BY <2>6, <3>2 DEF QueryContextMenu, MenuOK
    <3> QED BY <3>1, <3>2
  <2>7. ASSUME NEW verb, InvokeCommand(verb) PROVE MenuOK'
    BY <2>7, ZenonT(60) DEF InvokeCommand, MenuOK, Items, object
  <2> QED BY <2>1, <2>2, <2>3, <2>4, <2>5, <2>6, <2>7 DEF Next, Click, InvokeOther
<1> QED BY <1>1, <1>2, PTL DEF Spec

\* The number of identifiers of Windows is a number.
LEMMA WordIsNat == Word \in Nat BY DEF Word

\* The verb of the k-th item is its place, counted from 0.
LEMMA Offset ==
  ASSUME NEW first \in Nat, NEW k \in Nat, NEW m \in Nat, NEW w \in Nat, k >= 1, k <= m, k <= w
  PROVE  (first + k - 1) - first < w /\ (first + k - 1) - first < m /\ ((first + k - 1) - first) + 1 = k
OBVIOUS

\* A member of a part is a member of the whole.
LEMMA Within == ASSUME NEW m \in Nat, NEW n \in 0 .. m, NEW k \in 1 .. n PROVE k >= 1 /\ k <= m
OBVIOUS

\* No change of the registry makes a click start anything but what it is on.
THEOREM ClickCorrect == Spec => ClickStarts
<1>1. ASSUME MenuOK, NEW k \in 1 .. Word, Click(k)
      PROVE started' \in {started, [name |-> shown.items[k].text, dir |-> shown.dir]}
  <2>1. PICK n \in 0 .. Len(distros) : shown.items = Items(shown.first, n)
    BY <1>1 DEF MenuOK, Click
  <2>2. k \in 1 .. n /\ shown.items[k].id = shown.first + k - 1 /\ shown.items[k].text = distros[k]
    BY <1>1, <2>1 DEF Click, Items, Item
  <2>3. shown.first \in Ids /\ distros \in Seq(Names) /\ shown.dir = path
    BY <1>1 DEF MenuOK, Click
  <2>4. Len(distros) \in Nat
    BY <2>3
  <2> DEFINE verb == shown.items[k].id - shown.first
  <2>5. verb < Word /\ verb < Len(distros) /\ verb + 1 = k
    <3>1. k \in Nat /\ Word \in Nat /\ k <= Word
      BY WordIsNat
    <3>2. shown.first \in Nat
      BY <2>3, Identifier
    <3>3. k >= 1 /\ k <= Len(distros)
      BY <2>2, <2>4, Within
    <3>4. verb = (shown.first + k - 1) - shown.first
      BY <2>2
    <3> HIDE DEF verb
    <3> QED BY <2>4, <3>1, <3>2, <3>3, <3>4, Offset
  <2>6. InvokeCommand(verb)
    BY <1>1 DEF Click
  <2> HIDE DEF verb
  <2> QED BY <2>2, <2>3, <2>5, <2>6 DEF InvokeCommand
<1>2. MenuOK /\ [Next]_vars => [\A k \in 1 .. Word : Click(k) =>
          started' \in {started, [name |-> shown.items[k].text, dir |-> shown.dir]}]_vars
  BY <1>1
<1> QED BY <1>2, MenuCorrect, PTL DEF Spec, ClickStarts
=============================================================================
