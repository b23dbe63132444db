# LxRunOffline in TLA+

LxRunOffline is a command line program (and an Explorer context menu) that manages
distributions of the Windows Subsystem for Linux: it registers them in the
registry, installs them from archives, copies, moves, exports and removes their
files. These modules model what it does to the registry and the disk, call by
call, check it with TLC and prove part of it with TLAPS.

Paths below are relative to `src/src/` unless they start with `src/tests`.

## 1. The system

### Components

| Component | Source | State | Operations | Modelled in |
|---|---|---|---|---|
| Distribution store | `lib/reg.cpp` 1-266 | one subkey of `Lxss` per distribution, named by a GUID, with the values `DistributionName`, `BasePath`, `State`, `Version`; the value `DefaultDistribution` of `Lxss` | list, register, unregister, set and get default, set and get directory, get version | `Registry`, `DistroStore`, `RegistryRefinement`, `RegistryProofs` |
| Commands | `LxRunOffline/main.cpp` | none of its own between two processes | install, uninstall, register, unregister, move, duplicate, export, run, configuration getters and setters | `Commands` (the six that change both sides), `TreeCopy` (export), `Config` (configuration) |
| Configuration | `lib/reg.cpp` 268-385 | environment, uid, kernel command line, flags of one distribution | load and save as XML, load from and configure a distribution | `Config`, `ConfigProofs` |
| Tree copy | `lib/fs.cpp` | the walk: current path, map from file id to first path (hard links), set of ignored files; in the writer a stack of deferred directory attributes | enumerate, write directory, file, hard link, symlink, check paths, delete | `TreeCopy` (the walk and the writers); `Attributes` (device numbers, times); `Paths` (`check_path`); whole files in `Commands` |
| Archives | `lib/fs.cpp` | archive handle, entry in progress | read and write entries, blocks, hard links | `TreeCopy` (what export writes, install reads); `Paths` (names of entries); whole files in `Commands` |
| Paths | `lib/path.cpp` | base and relative part of one path, one or two prefix matchers | conversion between Linux names and the names of the three file system versions | `Paths`, `Layout`, `PathProofs`, `PlaceProofs` |
| Errors, log | `lib/error.cpp`, `lib/utils.cpp` | none | formatting, console | only their control flow, in the modules that raise errors |
| Shortcut | `lib/shortcut.cpp` | none | write one `.lnk` | not modelled: one sequence of COM calls |
| Context menu | `LxRunOfflineShellExt/` | the list of names cached by `Initialize`, the folder, the popup menu | `QueryContextMenu`, `InvokeCommand` | `ContextMenu` |

### How the parts interact

`main.cpp` calls the store, then the file code, then the store again; nothing
ties the two together. Every process is short-lived and single-threaded, but
there can be several: two consoles, or the context menu starting the program.
They share the registry key and the disk and take no lock. WSL itself is a third
party that reads the same registry and opens files of a distribution it runs; a
user may kill any process. So concurrency here is interleaving of system calls of
processes, and failure is a call that returns an error or a process that ends
between two calls.

### What is hard

* `register_distro` checks a name and creates the key several calls later;
  `get_distro_id` returns a path as a string which is used after others could delete it.
* A new key is filled value by value. A key without a name is a state that every
  later scan meets, and `list_distros` throws on it.
* The default distribution is maintained in best-effort tails of `register_distro`
  and `unregister_distro` whose failures are only logged.
* Keys are enumerated by index while others insert and delete.
* `move` copies, deletes and then updates the registry; `uninstall` does it the
  other way round; `install` and `duplicate` register before they have files.
* `check_running` looks once, long before the files are touched.
* A tree is walked in an order that the file system chooses, while hard links refer
  to whichever link came first, the attributes of folders wait on a stack until the
  walk has left them, and the legacy version has `/home` outside of `rootfs`.
* A configuration is four values, read and written by one call each, and `add-env` and
  `remove-env` read the list, change it and write it back.
* One target path object is converted into for every file of a tree; its prefix
  matchers remember where the last one stopped.
* The context menu shows a list that was read earlier and is told a number later.

### What makes it correct

* Store: every command is all of its promise or nothing as long as one process
  runs and no call fails; with failures a success is still a success; with several
  processes nobody writes to a distribution other than the one it was told.
* Commands: no data is lost short of `uninstall`; success means that registry,
  configuration and disk agree. That running distributions are left alone is what
  `check_running` is for, but one look cannot ensure it (section 5).
* Tree copy: a copied tree has the files, links and attributes of the original, in
  whatever order the disk enumerates it; no order makes a copy fail.
* Configuration: no change gets lost but to one of the same value at the same time;
  the WSL 2 mark among the flags tells what the directory holds.
* Paths, attributes: each file arrives where its names say, and what is converted comes
  back to where it started, or it is known what does not.
* Context menu: a click starts the distribution that was shown.

The list of hazards with their lines, and the property that covers each, is in
`PROJECT.json`.

## 2. Modules

| Module | Role |
|---|---|
| `DistroStore` | abstract: a table from names to directories and one default, every command one step |
| `Registry` | detailed: the same commands as sequences of registry calls, by any number of processes |
| `RegistryRefinement` | `Registry` with one process implements `DistroStore` |
| `RegistryProofs` | theorems about `Registry` for all values of its constants, and when commands do not overlap; that it implements `DistroStore` |
| `Commands` | `main.cpp`: registry operations (those of `DistroStore`), the disk and WSL |
| `CommandsProofs` | theorems about `Commands` |
| `TreeCopy` | `fs.cpp`: the walk over a tree, the writers, export and install |
| `TreeCopyProofs` | theorems about `TreeCopy` |
| `Config` | `reg_config` and the commands that read and write it, value by value, by any number of processes |
| `ConfigProofs` | theorems about `Config` |
| `Paths` | `path.cpp`: prefix matchers, the four classes of paths, the walks that drive them, `check_path` |
| `PathProofs` | theorems about the characters of paths: the spellings of the file system versions, the matchers, what `append` and `convert` make of a text, `check_path` |
| `Layout` | what `TreeCopy` takes for granted of paths, as a property of `Paths` |
| `PlaceProofs` | theorems about the names in paths: where files go, that they come back, and that this is what `TreeCopy` takes for granted |
| `Attributes` | device numbers and times from one file system version to the other and back, with proofs |
| `ContextMenu` | the shell extension under the protocol of Explorer, with proofs |
| `MCRegistry`, `MCCommands`, `MCTreeCopy`, `MCConfig`, `MCPaths` | symmetry sets and the values of constants for TLC |

### Registry

`keys[g]` is the subkey named by the GUID `g` with its values (`NoValue` where
absent; of the state and the version only whether they are written), `default` the
value `DefaultDistribution`, and `proc[p]` the local state of a process: which
call it makes next (`pc`), on behalf of which function (`goal`), the list it is
going through, the path it holds (`id`), and how its last command ended. A key is
"unborn" before `CoCreateGuid` returns its GUID, "live" while it exists and "dead"
after `RegDeleteTree`. GUIDs are never handed out twice.

One action is one registry call together with the code up to the next:

| Action | Code |
|---|---|
| `Issue` | a command starts |
| `EnumKey`, `EnumDone` | `RegEnumKeyEx` in `list_distro_id`; subkeys whose name is not a GUID (`Foreign`) are passed over. At the end either names are compared or `unregister_distro` picks the first as the new default |
| `ReadName`, `NamesDone` | `list_distros` for `register_distro`, `get_distro_id` for the rest |
| `ReadDefault`, `ReadDefaultName` | `get_default_distro`, for `register_distro` (is there one?) and for `unregister_distro` (is it the one?) |
| `CreateKey`, `SetName`, `SetDir`, `SetState`, `SetVersion` | the body of `register_distro` |
| `WriteDir` | `set_distro_dir` |
| `DeleteTree` | `RegDeleteTree` in `unregister_distro` |
| `SetDefault`, `ClearDefault` | the value `DefaultDistribution` is written or removed |
| `Fault` | the next call fails: the command ends with an error, or with a warning inside the parts whose errors are caught (`Swallowed`) |
| `Crash` | the process ends between two calls |

Modelling decisions. Subkeys are numbers in the order in which the registry
enumerates them; `RegEnumKeyEx` with index *i* returns the *i*-th key of this moment,
so keys created or deleted behind an enumeration shift it. `RegSetKeyValue` on a path
whose key was deleted may create the key again or fail; both are steps. `Init` is any
store that completed commands left: complete keys, different names, a default
that exists or none.

### DistroStore and RegistryRefinement

A command of `reg.cpp` is up to a dozen calls, of which the first that others can
see is not the last, so the abstract state is the store as it was when the last
command ended: the history variable `settled`. The mapping reads the keys the way
`list_distros`, `get_distro_dir` and `get_default_distro` do. Two things the
abstract module records that a reader may not expect: `unregister` is refused
when there is no default distribution at all (`get_default_distro` throws before
anything else happens), and any other distribution may inherit the default.

### Commands

A directory is a function from the files of a distribution (`rootfs\init`, which WSL
keeps open while it runs, and others) to the distribution whose copy of the file it
is; `NoDir` says that the directory does not exist. `table` and `chosen` are those
of `DistroStore`, `configured` says whose key `configure_distro` has written.
The actions are the calls of `wmain` in its order: `CheckRunning`, `ReadDir`, `Rename`
(`MoveFile`), `Prepare` (`select_wsl_writer`), `CheckPath` (`run_checked`), `Copy`
and `Extract` file by file, `Delete` (`delete_directory`) file by file,
`RegisterDistro`, `Configure`, `UnregisterDistro`, `SetDistroDir`. A step of a
copy fails on a file that exists (`CREATE_NEW`). `Mishap` is a call that fails or a
process that is killed. `WslStart` and `WslStop` are the environment. In each process
`home` and `before` are history: where the distribution of the command was when it began and
what was there, to compare with at the end.

Abstractions: `detect_version` and `detect_wsl2` look at attributes of `rootfs` and `home`
themselves and at one file name, none of which says what is below, so `Detect` may take or
refuse any directory that exists. A registry operation is one step, which `registry_atomic` and
`CommandsLookAtomic` show of commands that do not overlap and of calls that do not fail;
what may happen to the registry otherwise is in `Registry` and not here. One file is copied in one step; directories are not nested, so "a
subdirectory of the source" is the source itself; `MoveFile` fails between two
drives (`OneDrive`), when the target exists, when something below the source is
open, and otherwise may fail too. `export` and `run` write neither the registry
nor a distribution and are left out, as are the shortcut of `install` and the
parsing of arguments.

### TreeCopy

A tree has a fixed skeleton of folders and files named by their Linux paths
(`Above` gives the ancestors of each), and `Parent(version, n)` says in which
directory a file system version keeps a node: that is all of path conversion that
matters here, together with `HasPlace`, which tells what `convert` refuses. `Init`
chooses the version, the hard links, the type of each file as `read_attr` sees it,
the folders without attributes, and something that is in the target already.

| Action | Code |
|---|---|
| `EnterFolder`, `VisitFile`, `LeaveFolder` | `enum_directory` with the callback of `wsl_reader::run`, one call of the callback each |
| `Install`, `Extract`, `ExtractDone` | `archive_reader::run`, one entry each, on an archive that an export has written |
| `SettleFolder`, `CloseWriter` | the destructor of the writer, which writes the attributes left on the stack |
| `Fault`, `Kill` | a call fails (logged only in the destructor of `wsl_v2_writer`, unnoticed when an archive is closed, which may `cut` it); the process ends |

`NewFile` and `HardLink` are the two operations of a writer, for the file system
versions and for the archive; `FolderAttr` is the stack of `wsl_v2_writer`. "Settled"
folders have attributes and times as in the source; in version 2 a file or link put
into a folder changes its times again, in version 1 the times are in an attribute
that it does not touch. The data of a file, the values of attributes and the
names are left out. A folder without attributes cannot be written by `wsl_writer`,
which takes it for a regular file (and the name ends in a backslash).

### Config

`keys[n]` are the four values of a registered name (`NoValue` where absent), `vhd` the
names whose directory holds the disk image of WSL 2, `file` the one XML file. A process
has the `reg_config` object (`conf`), the values it still has to go through (`todo`, in
the order of the code, the flags last) and its `stage`:

| Action | Code |
|---|---|
| `Locate` | `get_distro_key` |
| `Probe`, `Read` | `try_get_value`, one value each; a list or a text takes two calls (`probe_and_call`), between which it may change. `Answers`: what is longer by then is an error, and lengths are left out, so that anything other than what was probed may be longer |
| `Edit` | what `add-env`, `remove-env`, `set-flags` do in memory, `set_flags` included |
| `OpenFile`, `SaveFile` | `load_file`, `save_file` |
| `Create` | `register_distro` for `register` and `duplicate` |
| `Write` | `set_value`, one value each, of `configure_distro` |
| `Mishap` | any call fails, or the process is killed |

`promised`, `doubtful` and in each process `solo` and `before` are history: what a value
may be once nobody writes it, whose flags were taken from a file or from nowhere,
which values of a command no other one has touched since it began, and all that a value has
been since then. What a command may make of a value is `Outcomes`: its promise on one of those.
What a command writes may be overwritten, or overwrite what another has written meanwhile, but
it is always one of these outcomes.

Abstractions: a key is not deleted while commands work on it (`Registry` is about
that) and is looked up once; the file is read and written in one step and is always
well-formed; a user id and a kernel command line are values of one set, and no text is
empty. The flags are three bits: one of those that a user may set, the WSL 2 mark, and
one that is in no mask. `install` is `register` of a fresh directory here, the getters
and `summary` only read, and the refusals of `duplicate -v` and `export` for WSL 2 are
left out.

What the code does and one might not expect: `add-env` and `remove-env` know only the
first of two lines for one variable; an empty line ends a list when it is read
(`set-env -v ""`); `import-config` and `-c` take flags from the file as they are; a
`register` that was killed leaves no flags, and later commands take that for WSL 1.

### Paths

A text is a sequence of UTF-16 code units behind the directory of the distribution
(`base_len`). A name is what WSL calls one file in Linux and on the disks, taken from
`tests/test_path.cpp`; `Foreign` names were not made by WSL. `source` and `target` are
the two path objects: `Visit` and `Leave` move `source` like `enum_directory`, `Entry`
makes it from the name of an archive entry, and each converts it into the `target` that
the last convert has left, which `Convert` changes even where it is refused in the
middle. `MadeByWSL` says what WSL makes of the name of a file on its disks, the convention
that the code has to meet; TLC compares it with the names of `tests/test_path.cpp`
(`SpellingAssumption`). `trail`, the names that `source` stands for, is history and the reference for
`Placed`: `Place` puts names together where the model of the code goes through
characters. `stoi` is modelled by what it accepts (blanks, a sign, `0x`); where it
throws, nothing catches the exception and the program is over. `get_full_path` is
external, so `Bases` gives full paths, some spelled with the prefix or a backslash at the end.

`ComesBack` exempts names with characters of the range that version 2 moves special
ones to, and a file (not a directory) called `/home`, `/root` or `/mnt` in the legacy
version, which has no place of its own there. The last part of an archive name is kept
if it is `.` or `..` without a slash, and `check_path` compares case by case.

### Layout

`wsl_reader::run` converts the path of a file and hands file and path to the writer. `TreeCopy`
has the files and no paths: `Parent` and `HasPlace` say what the paths would. `Layout` models no
code of its own; it makes the nodes of `TreeCopy` of names (`Tree == INSTANCE TreeCopy`), with the
version of the source and the target of `Paths`, and states as `FollowsLayout` what connects the
two: if the walk is at the entry that a node has in its `Parent` (`Reached`), convert leaves the
path of the entry that it has in its `Parent` in the target, and refuses it if it does
not have its place (`HasPlace`) there. An archive has the names below `rootfs`.

`Unknown` names the files that `TreeCopy` leaves out when one of the two is a legacy
distribution: what lies in folders called `home`, `root` or `mnt` beside `rootfs`, which the legacy layout
reads as those of Linux, and a file, not a directory, with one of these names in
`rootfs`, of which `ComesBack` says that it gets lost.

### Attributes

Functions on numbers of 32 and 64 bits with the conversions of C++: `ReadV1`, `WriteV1`,
`ReadV2`, `WriteV2` are `read_attr` and `write_attr` of the two versions, one time
standing for the three of a file. The numbers do not fit into the integers of TLC, so
that this module has theorems and no run. `junk` is what `new file_attr` leaves in the
members that version 2 does not read for files other than devices.

### ContextMenu

`distros`, `path`, `hsm` are the members of `CContextMenuHandler`; `Change` lets other
processes register and unregister whenever they like. The protocol is that of
Explorer: an object is initialized before its menu is shown and not after, the menu is
shown once, identifiers are those that Explorer gave (`idCmdFirst` to `idCmdLast`, 16
bits), and a click tells the distance from the first. Every call in it may fail.
Its properties are proved, no run checks them.

## 3. Runs

| Run | Instance | Shows |
|---|---|---|
| `registry_faults` | 1 process, 3 commands, 2 failures or kills | `NamesUnique`, `NoSilentFailure`: success is complete success and a swallowed failure is at least a warning. `RegisterNeedsNames`: after a `register` that stopped between key and name no later one succeeds |
| `registry_race` | 2 processes, 2 commands, 1 failure or kill, fair | `OnlyByName`: a command changes only a distribution it was given the name of; `HeldPaths`, what every held path leads to; `CommandsTerminate` |
| `registry_atomic` | 1 process, 3 commands, no failure, 3 names | `ImplementsStore`, `RefusedForCause`: atomic commands, refused for the promised reasons and without a trace |
| `registry_duplicate` | 2 processes, 2 commands | **violated**: `NamesUnique`, two processes register one name |
| `commands_data` | 2 processes, 2 commands, 1 failure or kill, WSL; no `uninstall` | `WholeCopySurvives`: a whole copy of every installed distribution stays on the disk |
| `commands_solo` | 1 process, 3 commands, 1 failure or kill, WSL; a root directory | `SuccessIsComplete`: registry, configuration and disk agree when a command reports success: files are where they should be, the source of `uninstall` and `move` is gone with its directory, that of `duplicate` and `unregister` is untouched |
| `commands_crossing` | 2 processes, 3 moves between two drives | **violated**: `WholeCopySurvives`, a move that read its source directory long ago deletes what another is filling |
| `commands_rejected` | 1 process | **violated**: `RejectedLeavesNothing`, a refused `duplicate` into the directory of its source leaves its name there |
| `tree_copy` | 5 folders, 3 files, all versions, 1 failure or kill, at most 2 oddities (a type other than plain, a folder without attributes) | `CopyFaithful`: files, links and attributes of a copy, direct or through an archive, which may have been cut. `FailsForCause`: the three reasons for which a copy fails. `AttributesStay`: attributes are written behind the last change of a folder |
| `tree_export` | the same skeleton, export only, no failure | **violated**: `ExportImports`, an archive made by export that install cannot read |
| `config_updates` | 2 processes, 3 commands of 11, 1 failure or kill; 3 files; an existing distribution and one to be made, of either kind | `Accounted`: no change gets lost but to one of the same value at the same time, and those too are made of a whole value, never of the beginning of a list; none is half done unless it failed. `MarkKept`: the WSL 2 mark. `ExportIsCurrent`: an export is what the distribution has, and a value written meanwhile is one that it had |
| `paths` | 3 names deep, 4 names and 3 foreign ones, every pair of classes, 2 roots of archives, 7 pairs of directories; a tree of every way over these names, hidden ones too | `Placed`: where each file goes and which are refused, whatever the path objects went through before. `ComesBack`: no two files arrive under one name. `NotIntoItself`: which targets `check_path` refuses. `FollowsLayout`: each file goes to the folder where `TreeCopy` has it |

The four violations are described, with the lines they contradict, under
`findings` in `PROJECT.json`.

`NamesUnique`, `NoSilentFailure` and the refinement are properties of one process;
with two, `registry_duplicate` shows why they fail. `WholeCopySurvives` holds for
two commands at once and fails with three, which is why both runs are kept.

One exemption in `TreeCopy`: the times of `rootfs` are lost when a legacy distribution with a folder beside `rootfs`
that is enumerated before `home` is copied to version 2; `CopyFaithful` and
`AttributesStay` exempt it. An installed `rootfs` has attributes of its own by design.

**Bounds.** `MaxCommands` and `MaxMishaps` bound commands and failures. Three
commands suffice for the histories that matter in the store: a command that leaves
something half done, one that meets it, and one that builds on that. With four to six
GUIDs, of which up to three exist at the start, there are lists of length 0, 1 and
more, a GUID before and after the foreign key, and room for each `register`. Two
processes are enough for every race of the store between a holder of a path and
somebody who deletes or creates the key. In `Commands` two directories force every
command to meet another's files; the third in `commands_solo` is the root of a
drive, which `commands_rejected` leaves out, so that what it finds is the comparison of paths. Two files are the smallest copy that can stop in the middle, and one of
them is the file that WSL keeps open.

In `TreeCopy` a folder with a file, one that moves between the layouts, a file and a
folder beside `rootfs` and the hidden mount point are one of each kind that the code
tells apart, and three files that may be links of each other have every kind of
first link: inside, moved, and outside of what an archive takes.

In `Config` two processes and three commands are enough for a value that a third
command reads after two have crossed; the files are one without flags and with an
empty line, and one with the flags of a WSL 2 distribution and a variable twice. In
`Paths` three names are a file in a folder of `rootfs`, or one more than the prefixes
that the matchers know.

**Stopping.** No configuration turns the deadlock check off: the only state without
a further call is the one in which all commands are over, which `Quiet` marks (`Finished` in `TreeCopy`).

**Fairness.** `FairSpec` has weak fairness of `Step(p)` for each process: the
operating system goes on running a process until it ends. Nothing is assumed of
failures, kills or new commands, and no process waits for another. That a scan ends
is then a matter of its index moving forward.

Symmetry is used only in runs without liveness properties, over processes, names and
directories, never over subkeys, whose order counts.

## 4. Proofs

`RegistryProofs` holds for every set of processes, names and directories, every
finite set of subkeys and any bounds. Assumptions: those of `Registry` (subkeys are
numbers, finitely many, `NoValue` is none of the other values, bounds are natural).

* `TypeCorrect`: `Spec => []TypeOK`, including that a process about to use a
  path has one. It is inductive as it stands; the lemmas go through the actions by
  group (reading, writing, creating, deleting, ending).
* `PathsHeld`: `Spec => []HeldPaths`. A path a process will write under or delete
  leads to the distribution of its command or to a key that has lost its name by
  now, and a key just created and not yet named is in nobody else's hands. The
  invariant is `Paths == TypeOK /\ HeldPaths`. It needs the second half because
  `SetName` gives a key a name: were another process holding that key, its path would
  suddenly lead to a foreign distribution. And it needs that names never change
  once written, except by deletion.
* `OnlyItsOwn`: the action property `OnlyByName` from the same invariant: whatever
  the interleaving, a command changes a named distribution only if it was given that
  name. This is what remains true without any lock.

The second part of `RegistryProofs` proves what `registry_duplicate` shows to be false in general, under
`OneAtATime`: the commands of any number of processes do not overlap. The code does not
see to that; the user has to. Calls may still fail and processes be killed. The invariant
`Apart` is `TypeOK`, `NamesUnique`, that what is not there has no name, and what a process
knows (`Own`): the list so far holds every key with a smaller index (`Listing`), a key
that `register_distro` has passed in its check has another name (`Checking`), the key of `register` has
the values written so far (`Filling`), what is done before the default is looked after
(`Caring`), and whose key the command holds (`Holding`).

* `NamesStayUnique`, `NamedOrBlocked`: the check of `register_distro` sees every name. They
  rest on `EnumComplete`: when `RegEnumKeyEx` finds nothing under an index, all keys have
  smaller ones. Its proof takes the least key that is in doubt and the key before it
  (`Predecessor`), as an induction over the number of keys is out of reach.
* `CommandsEndWell`: a command that ends without an error has had its effect
  (`EndedWell`).
* `NothingFailsSilently`: `NoSilentFailure` for a single process, which nobody disturbs
  between its commands.

The third part adds to `OneAtATime` that no call fails (`MaxMishaps = 0`, which leaves
`Fault` and `Crash` without a step) and takes the run `registry_atomic` to any store, any
number of names, processes and commands. `Settled` is `Apart` and how far the running
command has brought the registry from the recorded state (`Telling`): before it writes,
the keys are what `settled` says (`Known`); while `register` fills its key, all others are
(`KnownBut`); while an heir is looked for, they are without the name that is gone. `Seeking`
says what the list of names has shown so far, which is why a refusal is right. `After`
puts the refinement in one place: each step goes on and leaves the record alone, is done and a step
of `DistroStore` (`Promising`), or is refused.

* `CommandsLookAtomic`: `SettledSpec` implements `DistroStore!StoreSpec`. This is what lets
  `Commands` take the registry operations of `main.cpp` as single steps, as far as they do not
  overlap and no call in them fails.
* `RefusalsHaveCauses`: `RefusedForCause`. Errors raised for any other reason, such as a name
  that cannot be read or a key that is gone, do not occur.

`ConfigProofs` holds for every set of processes, names, files and commands
(`ConfigAssumption`: values are of their kinds, `NoValue` is none of them, a command
other than `duplicate` is about one name).

* `TypeCorrect`: whatever is written is a value that was read or a default.
* `MarkIsKept`: `MarkKept` is not inductive. `Inv` adds for each process which commands
  come to which stage and that the keys they work on exist (`Going`), and whose
  configuration in memory tells the kind of the directory (`Marking`): that of
  `set-flags` and `duplicate` once the flags have been read, which are the last value
  (`TodoStep`), that of `register` from the start, unless in doubt. `Create` cannot
  disturb any of them, as it makes a name that nobody has located.
* `EveryChangeAccounted`: `Accounted`. The invariant is `Inv /\ History`: each value, or
  the default of a name that is not registered (`Current`), is among those promised
  (`Kept`), and each process is `Faithful`. For every value of its command `Known` says where
  it is: what the registry has is among what was there since the command began (`before`), as is
  what has been read of it into memory, whole (`Answers` gives all of it or an error,
  `ReadIs`), and what is to be written is one of the `Outcomes`. `Alone` says more of a value
  that nobody else has written: what was read is what is there now, and so is what was
  written. `Plan` is the same for the configuration of commands that do not look
  at the old one. A write by another process adds to `before` of the commands that have to do
  with the value (`DisturbedIs`), which keeps `Known`, and ends `Alone`; `Create` makes a name
  whose values read as they did before (`CreateFaithful`). That the list edited in `main.cpp`
  is the one its texts speak of needs lists without an empty line (`ListedIs`, `ErasedIs`).
* `ExportsAreCurrent`: the action property `ExportIsCurrent` from the same invariant, by `Alone` for
  the values that nobody wrote and by `Known` for the others.

`CommandsProofs` holds for every set of processes, names, directories and files
(`InstalledAssumption`: what is installed has a name, `rootfs\init` is one of the files,
`NoValue` is no name, the bounds are natural, the commands are the six that exist).

* `TypeCorrect`: `Types` adds to `TypeOK` which command comes to which stage and
  where a process knows a source directory (`Going`).
* `OneMoveKeepsCopies`: without `uninstall`, `Spec /\ []OneMove => []WholeCopySurvives`.
  `OneMove` is a condition on the users: nothing in the code stops them from running two
  moves at once, and `commands_crossing` shows what then becomes of the last copy. With the
  condition the rest may happen in any number and order: other commands into any directories,
  failures, kills. The invariant is `Inv == Types /\ WholeCopySurvives` with `MoveOK` for
  each process: what a move has copied agrees with its source, and once it deletes the
  source, every distribution is whole somewhere else. Other processes cannot disturb
  that, as every step but the deleting and the renaming of a move only adds files
  (`Grows`, by `CREATE_NEW`), and two processes that do these would be moving.
* `SuccessIsTrue`: `Alone /\ Spec => []SuccessIsComplete`. `Alone` (there is one process at
  most) is what the property needs: another command may unregister at once what this one has
  just registered. Earlier commands, also failed or killed ones, may have left names that
  share a directory and half of a copy in another, and WSL comes and goes. The
  invariant is `Duties == Types /\ \A p : Duty(p)`: what each stage relies on. `SourceKept`: the
  files the command was given are where it will look for them, also behind a renaming that
  did not work and a target that was made; `TargetKept`: what has been copied or
  extracted is in the target and the source that is deleted is another directory;
  `EntryKept`: what was registered is still in the registry. `Homes` adds what becomes of the
  source (`HomeKept`): a command that found its distribution knows where it was (`Named`, `Sourced`),
  nothing touches it before it is deleted or renamed, and a command that has succeeded has
  left it gone or as it was (`Cleared`): `Delete` goes on only from an empty directory, which
  it removes. TLC checked both on `commands_solo` first.

`TreeCopyProofs` holds for every finite set of folders and files whose ancestors lie in
each other (`ForestAssumption`: what is called `/home`, `/root` or `/mnt` and their hidden
mount points are right in the root directory), every tree over them, any links, types,
versions and bounds. `Inv` is inductive; TLC checked it on the instance of `tree_copy`
first. Its parts:

* `Walking`: the open directories lie in each other and nothing above them is still to
  come. `Ahead` is what the walk has still to come to, and `MoveOn` says that a step takes
  one file from it and that nothing that comes from now on is in a folder that was left.
  The legacy layout is what makes this delicate: `/home` is in `rootfs` in Linux and beside it
  on the disk, so that the walk (`W`) is not the tree (`Above`).
* `Linked`: `id_map` has the first visited of several links, of which something is visited.
* `Copied`: what has been come by is in the target, each file under the first of its links, and
  nothing else is. `Waiting` is the rest of the walk in a copy, and the rest of the entries in
  an installation, which lets both share the lemmas `CopiedStep` and `SettledStep`.
* `Settled`: each folder that was made has its attributes or is on the stack (`Reached`),
  nothing more comes into a folder that has them (`Firm`), also when the entries of an
  archive come in the order of its walk (`InRow`).
* `Entries`: each file has one entry, behind those of its folders and of the file it is a
  link to, but for those an export leaves out, and what is in a folder follows it without
  interruption. This is what an installation relies on.
* `Ignored`, `Course`, `Typed`: the ignored files are those of a type that the target does
  not take, which phase belongs to which pass and that an archive is cut by a failure only, and
  the kinds of values.

From `Inv` follow `TypeCorrect`, `CopiesAreFaithful`, `FailuresHaveCauses` and, with the
step, `TimesAreKept`.

`PathProofs`: `VersionTwoSpelling` for every text and `VersionOneQuotes` for every
character, the way there and back; `IntoItselfIsPrefix` for every two directories. Then
the component itself, for every set of names, directories, root directories of an archive
and any depth. Assumptions: `NamesAssumption` (names are texts of 16 bit characters, the
special names are among them, there are directories) and `DirectoriesAssumption`
(directories are on drives, with names that are not empty and have no backslash, and
are spelled as `get_full_path` hands them out: with the prefix `\\?\` or without, with a
backslash at the end or without).

* `PathTypes`: `TypeOK`. The invariant `CopyInv` adds the kinds of values of the source
  (`Kinds`: a matcher of the legacy layout is never beyond the names it knows, or an index
  into its list would be) and that each open directory is within the text of the source
  (`OpenDirectories`), which makes the truncation of `enum_directory` defined. What the conversions
  are made of are recursive functions and folds over texts. That these keep to their kinds
  needs induction over numbers; `Least`, `Upwards` and `Along` get it in the first order
  from finite sets of numbers having a least member, and `FoldStep` and
  `AppendAllKeeps` carry it over to folds.
* `NeverIntoItself`: `NotIntoItself`. `Decided` is what `Begin` has found out and no later step
  changes. `NormalizeIs`: of all spellings of a directory `normalize_path` makes the same text,
  its names each closed by a backslash behind the prefix; `PrefixIs` and `LongPrefix`: of
  two such texts one is the beginning of the other exactly when its names are.
* `VersionOneSpelling`: what version 1 and the legacy version make of a text is read back as the
  text. A quoted character is # and four digits, on which `stoi` stops at the end and never
  throws; texts are taken apart from the front by `SeqInduction`.

`PlaceProofs` goes from characters to names. It adds `SpellingAssumption`, that WSL has made
the names of `Names` as `MadeByWSL` says; about `Foreign` names, which neither property
speaks of, it assumes nothing. Set, length and characters of the names are arbitrary.

* `ConvertsNames`: between any two classes a path of names is refused if the names have no place in
  the target (`Arrives`), or becomes the same names in its spelling (`Stored`). The steps are that `data` of a
  path of names decodes to the text of the names in Linux, with `rootfs` in front where
  it belongs (`Full`), and that `append` meets the end of a pattern exactly at the end of
  a name: no pattern is a prefix of another (`Pure`), a matcher is `Live` as long as the text so
  far begins one (`After`), and names contain neither slash nor 0, so that texts
  which begin alike have the same first name (`Peel`).
* `NormalNames`: what the constructor of `linux_path` leaves of an archive entry are the names that
  `Meant` leaves, for every sequence of names, empty ones, `.` and `..`, closed or not. The
  walk over the characters is followed from name to name (`NameWalk`, `DotsAt`,
  `PieceWalk`): between two names it stands for a directory (`Follows`).
* `Stands` is the invariant, beside `CopyInv`: `source` is spelled by `trail`, each open directory of
  `enum_directory` by the beginning of it (`OnDisk`, which the truncation to `sizes` relies
  on), an entry of an archive by what is below its root (`InArchive`), and `target` is what
  convert makes of `source` (`Arrived`), of whatever the target was before. It holds of
  paths with foreign names as well.
* `FilesArePlaced`, `FilesComeBack`: `Placed` and `ComesBack` from it, by `ConvertsNames` there and
  back: `Full` of what was stored is `Full` of the source but for the exceptions named in `Lost`.
* `LayoutKept`: `FollowsLayout` from `Placed`, for every finite tree of files with names WSL has made
  (`LayoutAssumption`: the folders above a file are in the tree, `rootfs` is, and what is hidden is so
  behind a mount point). `ParentIs` and `EntryIs` say which folder the `CHOOSE` in `Parent`
  gives and which names lead to it; `ReachedIs` and `UnderNodes` compare the cases of `Place` with those of
  `HasPlace`. `NamesAreForest`: such a tree meets the assumptions of `TreeCopy`, so that the theorems of
  `TreeCopyProofs` are about trees of files with names.

`Attributes`: `VersionOneReturns`, `VersionTwoReturns`, `RdevKeepsLowBits` and
`InstalledTime` for every number that fits its type. The lemmas take the arithmetic
apart: what carries over in a product without sign (`NegativeSeconds`), in the rest of a
second (`NegativeRest`) and in their sum (`NegativeSum`).

`ContextMenu`: `MenuCorrect`, by induction, and `ClickCorrect` from it, for every list,
every range of identifiers and every folder.

Only model-checked: `CommandsTerminate`, for liveness is out of reach. `NamesUnique`,
`RegisterNeedsNames`, `WholeCopySurvives`, `SuccessIsComplete` and the refinement are proved under
the conditions on what overlaps or fails that are said above; `registry_duplicate` and
`commands_crossing` show what happens to the first and the third without them.

## 5. Not modelled

Formatting of messages, console output, argument parsing, the shortcut, `run`
(it starts WSL and changes nothing), the getters and `summary`, build and packaging. The
tests were read for the behaviour they expect of the store and of the paths.

The bytes of files: that a file of version 1 which shrinks while a symbolic link is read
keeps `read_symlink_data` in its loop (`fs.cpp` 645), that extraction ignores the offsets
of sparse entries (`fs.cpp` 542), and that an empty kernel command line makes an XML file
which `load_file` refuses (`reg.cpp` 313) were found in reading and are in no module.

No property forbids that a distribution is started behind `check_running` (`main.cpp` 100), which
the runs of `Commands` have (`WslStart`): `uninstall` and `move` then delete its files up to the first
that is open. Nor that `export` reports success when the end of an archive could not be written
(`fs.cpp` 234, `Fault` in `TreeCopy`); `CopyFaithful` says that such an archive is not installed as a
whole one. `MarkKept` exempts flags that came from a file or were never written.

## 6. What could follow

The walk of `TreeCopy` and that of `Paths` as one, in which a step of the first is a `Visit` and
its convert: `FollowsLayout` compares them file by file.
