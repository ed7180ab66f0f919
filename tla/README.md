# A TLA+ model of WireGuard for Android

This directory models the parts of the repository whose correctness depends on
the order in which things happen or on what a conversion does at its edges: the
two backends that raise and lower tunnels, the manager that keeps the list of
tunnels, the files and the backend in step, the sorted list they are shown in,
`wg-quick` for Android, the `wg` tool (setting a device, listing and showing
devices, on each of the systems it is written for), the embeddable library, the
key encodings and the highlighter. TLC checks the models on small instances;
TLAPS proves the safety properties of the two backends, of the manager, of the
sorted list and of `wg-quick` for every instance.
`PROJECT.json` maps each definition to the lines it stands for.

## 1. The system

A tunnel is an `ObservableTunnel` in the list of the `TunnelManager`, a file
`<name>.conf` of the `FileConfigStore`, and, while it is up, a device of a
`Backend`. Operations start on the main thread as coroutines and do their file
access and their backend calls on the pool `Dispatchers.IO`. There are no locks
between operations: at every suspension point, and inside every call on the
pool, another operation may run. The kernel backend runs `wg-quick` in a root
shell, which runs `wg` and other commands.

| part | state | operations | interacts with |
|---|---|---|---|
| `GoBackend`, `VpnService`, libwg-go | `currentTunnel`, `currentConfig`, `currentTunnelHandle`, static future `vpnService`, `tunnelHandles` | `setState`, `onCreate`, `onDestroy`, `wgTurnOn`, `wgTurnOff` | Android's service manager, `Tunnel.onStateChange` |
| `WgQuickBackend` | `runningConfigs`, `multipleTunnels`, temporary files; the kernel's interfaces | `setState`, `setMultipleTunnels` | root shell, `wg-quick` |
| `TunnelManager`, `ObservableTunnel` | `tunnelMap`, `lastUsedTunnel`, the deferred `tunnels`; per tunnel `name`, `state`, `config` | create, delete, rename, set state, set and get configuration, refresh, restore | store, preferences, backend |
| `FileConfigStore` | files | create, delete, rename, save, load, enumerate | `TunnelManager` |
| `TunnelComparator`, sorted list | keys in order, `favourites` | add, remove, look up, re-sort | `TunnelManager`, preferences |
| `wg-quick` (android.c) | none of its own; kernel links, iptables, netd | `up`, `down` | kernel, netd, `wg` |
| `wg` and the embeddable library (C) | none of their own; the device, the sockets of user-space implementations | `set`, `setconf`, `addconf`, `syncconf`, `show`, `showconf` | kernel (Netlink, ioctls), user-space implementations (text protocol) |
| `encoding.c`, `highlighter.c` | none | key to text and back; spans of a configuration | `wg`; editors |
| `RootShell`, `ToolsInstaller` | a shell process with pipes, extracted tools | `run`, `start`, `stop`, `extract` | `WgQuickBackend` |
| `Application`, boot receiver | the backend's future | choice of backend, boot, shutdown | all of the above |
| `Updater` | progress, `updating`, seen and consented versions, install session | check, download, install, retry | package installer |
| import, tile, screens, editor | selected and pending tunnel | user actions | `TunnelManager` |
| `com.wireguard.config`, `com.wireguard.crypto` | none, except the cached resolution of an endpoint | parse, print, encode | all |

What makes it hard: calls on different threads without a lock; a service the
system creates and destroys on its own; a process that can die while interfaces
and files survive; operations of several steps that fail in the middle and undo
themselves, where undoing can fail; values read before a suspension and used
after it; a binary search over a list whose order changes; a request cut into
messages by the size of a buffer; a device that changes while it is read.

## 2. Modules

Each `MCx` module instantiates module `x` for TLC (`MCText` two of them);
definitions whose comment begins with "Mutant" are plausible bugs used to see
that each property can fail. Where no run lists a module's `TypeOK`, it describes
the variables; adding it to the cfg checks it.

### The app

**GoBackend** follows `setState` and `setStateInternal` step by step: `pc` is the
next step of a thread, `phase` which of the four calls of `setStateInternal` in
`setState` it is in, `want` and `orig` the request and the tunnel to restore. A
step is what a few adjacent lines do without a call between them. The main
thread runs `onDestroy` (`mainPc`) at any time. The service manager is external:
`svc`, `started` and `bound` say when it may create or destroy the service.
`lost` holds devices whose entry in libwg-go's table was overwritten. The
constant `Serialised` says whether two calls, or a call and `onDestroy`, overlap.
**AbstractBackend** is what a one-tunnel backend promises.

**WgQuickBackend** has the kernel's `interfaces` apart from the backend's memory
of them, `runningConfigs`. `phase` names the loop or the call in `setState`, `step`
the place in `setStateInternal` (temporary file, command, bookkeeping).
`RootShell.run` is one step because it holds a lock. `wg-quick` is seen from
outside: it refuses to add an interface that exists or remove one that does not.
With `Faults` the root shell may be denied or die before or after the effect of
a command, and `wg-quick down` may fail after it removed the interface. With
`Restarts` the process may restart at any step. `calm` says that neither has
happened so far.

**TunnelManager** has the manager, its tunnels and the file store. An operation
is a job; its code between two suspension points is one step, each file access
and each backend call another. The backend is `GoBackend` from outside: one
tunnel, `setState` with every outcome it can have. `Overlaps` is the set of ways
in which operations may be in progress together: none, `create` with the
loading of the list ("early"), those on other tunnels ("other"), or any.
`WritesFail` lets a write be cut short, `Intents` admits the remote-control
intents, which do not skip a state that the tunnel has already. The setter of
`lastUsedTunnel` and the store of its name are one step; its launches run in
order on the main thread. The getter of `config` starts a load when nothing is
cached; that load is the action `getTunnelConfig`. **TunnelStore** is what the
store promises: no creation or renaming replaces a configuration.

**TunnelList** is the order of the list: the comparator with its tokens, Java's
binary search, insertion, and the re-sorting when the favourites change. A name
is the sequence of its runs of digits and of other characters, and `IntMax`
stands for the greatest `Int`.

### wg-quick

**WgQuickAndroid** is `cmd_up` and `cmd_down` of android.c. A process is the list
of commands it has still to run (`run[p].todo`): the functions of the file append
their commands to it, and a listing whose output decides what is run next
(`cmd_ret`) puts what it decides in front. `link`, `rules` and `nets` are the
kernel's, iptables' and netd's, shared by the processes, one per interface. A
command that can succeed may fail (`MaxFaults` times); a failed `up` runs
`cmd_up_cleanup`, once it is registered. A listing that fails is read as empty,
as in the code, and `run[p].missed` says that this has happened; what is listed
comes in any order (`Listings`). `dirty` has the names for which a deletion, or the
listing of what to delete, has failed: something may be left of them. The network
number is drawn at random and may be taken: a number is a network if
`nets[n].exists`, and what netd keeps for it (interface, DNS servers, routes,
uids) are sets. `parse_options` and `set_users` (the ranges of uids, `Batch` per
command) are operators, folds over the lines and over the uids.

### The wg tool

**WgDevice** has the form of a device and of a request, and what the kernel makes
of a request (external). **WgConfig** makes the request: the lines of a file
(`process_line` and the functions it calls) and the arguments of `set`; a value is
a token by which the parsers tell accepted, refused and special values apart, and
`showconf_main` prints a device as such lines. **WgIoctl** turns a request into
the structures of OpenBSD, FreeBSD and Windows and into the lines of the text
protocol. **WgSet** composes them: read, for `syncconf` compare with the device,
and send, over one of six transports; over Netlink the message is put together
attribute by attribute in a buffer of `buflen` bytes and sent when it is full.
Sends fail, and peers roam between the steps.

**WgGet** is how an answer is taken apart, on each system. **WgPrint** has the
three ways to print a device. **WgShow** composes them: it lists the interfaces
(Netlink dump, group of interfaces, directory of sockets, adapters), connects,
reads and prints each, while devices change, links come and go and sockets go
stale. A dump comes in messages of `MaxItems`; the kernel marks the message after
a change, and the tool then starts the read again.

### Texts

**Encoding** is `encoding.c`, with the arithmetic that avoids branches, on octets
and character codes. **Highlighter** is `highlight_config`: one action takes one
token of the text; the tests of the values are operators, and `ValuesExact`
compares them with a grammar of the values that is written independently.

## 3. Runs

| run | instance | what it shows |
|---|---|---|
| `go_serial` | 2 tunnels, 2 configurations, 2 callers, 2 handles | without overlap: one device at a time, fields and reports exact between calls, a failed switch restores, `AbstractBackend` is implemented |
| `go_overlap` | 2 tunnels, 1 caller, overlap with `onDestroy` | every call ends; no handle is left that no call can reach |
| `tm_ops` | 2 names, 2 configurations, 2 jobs, `Overlaps` "early" and "other" | list, files and last used tunnel agree, through failures, undoing and restarts; states agree where nothing overlaps; `TunnelStore` is implemented |
| `tm_load` | 2 names, cut writes, intents, no overlap | when nothing is created before the list is loaded, start-up completes; no configuration leaves the list |
| `tm_deleted` (violation) | 2 names, any overlap | a deleted tunnel is left running |
| `list_distinct` | 4 names with different tokens | order and lookup |
| `wg` | 3 tunnels, 2 configurations, 1 call, restarts and faults | while calm: map and reports exact, failures restored, other tunnels lowered; always: UP means that the interface exists |
| `wg_restart_others` (violation) | 2 tunnels, restarts | raising a tunnel leaves the one from before the restart |
| `quick_android` | 2 interfaces, 2 network numbers, 3 files, 1 failure | a successful `up` is complete, a failed `up` and a successful `down` leave nothing, the uids routed are the right ones, and nobody else's interface is touched |
| `tool_set` | 2 keys, 6 transports, 22 sizes of the buffer, 3 devices | on success the device is what the request, and what the file, says; an allowed IP is never at a peer it was not listed for; `syncconf` removes no peer that stays; `setconf` of `showconf` copies; it ends |
| `tool_show` | 3 names, 5 systems, 3 devices, 2 changes | what is shown is one state of the device; the listing is sound and complete; `dump` agrees with the other forms; it ends |
| `text` | 16 starts of texts, all keys and texts at the edges | spans tile the text, fields are in their section, values are valid exactly by the grammar, keys and their texts match one to one |

The violations are behaviours of the code that differ from what a comment or a
text of the app says; `PROJECT.json` quotes the line. They need the overlap or the
restart in the table. Passing runs check the same properties where that is
absent: `TurnsOffOthers`, as `LowersOthers`, in `wg`, and `DeletedNotRunning`, as a
conjunct of `StateMatches`, in `tm_ops`.

The modules show more such differences, which are left out of the runs, by other
values of the constants, or by conditions of the properties that name them:

| where | what the code does |
|---|---|
| `OneTunnelUp`: `TunnelManager`, `Overlaps = {"other"}` | two overlapping `setTunnelState` calls leave two tunnels shown as up, because line 241 assigns a state that is stale |
| `SavesExisting`: `TunnelManager`, `Overlaps = {"any"}` | `save` tests `isFile` and creates the file again when a delete has removed it since |
| `LoadCompletes`: `TunnelManager`, `Overlaps = {"early"}` | a tunnel whose file `enumerate` sees and which `create` has listed before `onTunnelsLoaded` makes `add` throw, and `getTunnels` waits for ever |
| `StateMatches`: `TunnelManager`, `Intents = TRUE` | a failed `SET_TUNNEL_UP` on a tunnel that is up shows the state read before the call |
| `LookupFinds`: `TunnelList`, names with equal tokens (`wg1`, `wg01`) | the comparator (TunnelComparator.kt:66) calls them equal, and a listed name may not be found |
| `NamesExact`: `GoBackend`, `Serialised = FALSE`, two callers | a failing call overwrites `currentTunnelHandle` between its assignment and its use by another, whose device then runs without a name |
| `TurnsOffOthers`: `WgQuickBackend`, `Serialised = FALSE`, two calls | both calls take their snapshot before either has recorded its tunnel |
| `LoweredStopped`: `WgQuickBackend`, `Faults = TRUE` | when the root shell fails, every tunnel counts as down and `setState` answers DOWN at once |
| `DownNeedsNoConfig`: `WgQuickBackend`, `Restarts = TRUE` | `Backend.java:79` says "config may be null when setting the tunnel down", but after a restart there is no other and `setState` throws |
| `WgQuickAndroid`, names of which one is the beginning of another | the expression that finds an interface's rule (android.c:646) is not anchored at its end and finds the rule of the longer name |
| `UsersExact`, the last uid | no range begins at the greatest uid (`start < 99999`), which is left unrouted when the uid before it is excluded |
| `MtuFits`: `WgQuickAndroid` | the expression for endpoints in `set_mtu` (android.c:1004) is anchored at the start of a line that begins with a key, so that only the default route's MTU is used |
| `FileExact`, `syncconf` with a key twice in the file | the comparison goes by neighbours in the sorted list, so that what the file leaves out of the device's peer is reset in the first entry only; the property leaves such files out |
| `LibraryReturns`: `WgShow`, after an interrupted dump | `wg_get_device` does not clear `ret` before it tries again (wireguard.c:1412), and then never stops; `Terminates` speaks of the tool |
| `LiveSocketKept`: `WgShow` | connecting to a socket that refuses for a moment deletes it (ipc-uapi-unix.h:46, 82), also if its process is alive |
| `WgShow`, an endpoint that cannot be resolved | `userspace_get_device` returns a positive number with no device (ipc-uapi.h:233); no reply of the instances has such an endpoint |
| `Highlighter`, host names | the check for two dots (highlighter.c:118) never applies; `HostForm` follows the code |

**Bounds.** Two tunnels are what a switch needs, a third lets the loops of
`WgQuickBackend` fail after a success and before the end. Two configurations
distinguish "same" from "other", and are needed to see one replace another.
Two concurrent jobs suffice for each two-party race; with two jobs the
coroutines of one `restoreState` run one after the other. Two handles and one or
two DNS attempts are the smallest numbers with a first and a last. `IntMax` is 99,
so that a number of three digits overflows. In `quick_android` `MaxUid` is 6
(99999 in the code) and `Batch` 2 (18), which gives ranges at both ends, adjacent
uids and a last batch that is not full; one failure (`MaxFaults`) meets each
command of `up`, of the cleanup and of `down`. In `tool_set` the sizes of the
buffer (148 to 308 in steps of 8, and 4096) cut the requests at every attribute;
`Retries` is 2 (15 in the code), `MarkMax` 8 (2^32 - 1). In `tool_show` a message
has at most two peers or IPs, so that a peer's list is cut, and two changes
(`MaxChanges`) interrupt a read and its repetition. In `text` an IPv6 address
has 4 groups (8), an IPv4 address 2 octets (4), a key 2 bytes (32, with the same
remainder by 3), a host name at most 4 characters (63); the texts are all those
over small alphabets after a prefix that leads to the value. Symmetry is used
for safety runs only, over sets whose members the specifications do not tell
apart. No run needs a state constraint, except that a creation needs an unused
object.

**Fairness.** `go_overlap` assumes that a thread inside `setState` goes on,
that its bounded waits (2 s for the service, 1 s between DNS attempts) end, and
that the main thread finishes a callback. It does not assume that the system
creates the service. `tm_load` assumes that a coroutine that can go on does, and
claims completion only if restarts come to an end. `tool_set` and `tool_show`
assume that the tool, a single process, is scheduled; `tool_set` claims nothing of
the text protocol, where the other side may never answer, and in `tool_show` the
changes come to an end. Nobody is obliged to start an operation. Deadlock is
checked except in `tool_set`, `tool_show` and `text`, where the program ends.

## 4. Proofs

`GoBackendProofs` proves, for any sets of tunnels,
configurations and callers, any handle space and any number of DNS attempts,
under `GoBackendAssumption` only:

- `HandleNeverStuck`: the property of `go_overlap`, for every interleaving of
  any number of calls. `NoStuckHandle` speaks of the shared fields only, but whether a
  step keeps it depends on what the threads hold, so the inductive invariant
  `LocalInv` adds the types, that `currentTunnel` and `currentConfig` are null
  together, and what the local variables mean at each step (`LocalsOK`).
  `TypeCorrect` is its first conjunct.
- `OneDeviceCorrect`, `NamesCorrect`, `ReportedCorrect`, `RestoreCorrect`: the
  safety properties of `go_serial`, assuming `Serialised`. None is inductive: in
  the middle of a switch the fields, the table and the reports disagree by
  design. `SerialInv` says how they disagree at each step (`CallerInv` for a call,
  `MainInv` for `onDestroy`), that only one of them is under way (`Alone`) and that
  everything is `Settled` otherwise. Each safety property follows from it.
- `ImplementsAbstract`: the refinement of `AbstractBackend`. By `SerialInv` the
  only steps that change the set of devices are the insertion into an empty
  table and the removal of the only entry.

`WgQuickBackendProofs` proves, for any sets of tunnels, configurations and calls,
under `WgQuickAssumption` and `Serialised` (calls do not overlap, and the
preference changes between calls), every property of the run `wg`:

- `MapCorrect`, `FailureCorrect` and `LowersCorrect`, which hold while `calm`, and
  `RaisedCorrect`, which holds through restarts and lost shells.
- They rest on `QuickInvariant`. The map, the kernel and what a call began with
  differ in the middle of a call, and how they differ depends on the loop it is
  in. `MapOK` says it for each phase: in the loop that lowers, the map is what it
  was without the tunnels in `rewind`; in the loops that undo, without those in
  `todo`; after the loop, empty, or without the one tunnel that is restarted.
  `KernelOK` says that the kernel differs from the map for the one tunnel
  whose command has run and is not recorded. `LocalOK` ties the temporary file and
  the current tunnel to the step of `setStateInternal`; it does not need `calm`, and
  `RaisedRuns` follows from it alone.
- There is one lemma per action. `ThrowStep` is about the catch blocks and
  `RecordStep` about the ends of the loops; `ThrowFields`, `ContinueFields` and
  `StepFields` say which fields of a call those steps change.

`TunnelManagerInvariant` and `TunnelManagerProofs` prove the safety properties of
`TunnelManager`, for any numbers of tunnels, names, configurations and coroutines, under `TunnelManagerAssumption`.
All assume that operations on the same tunnel do not overlap (`"any"` is not in
`Overlaps`): without that they are false, as `tm_deleted` and the table in section
3 show.

- `StoreInvariant` is the basis. `TunnelManagerInvariant` defines the inductive
  invariant `StoreIInv`, proves what the steps have in common and then has one lemma
  per step, `TunnelManagerProofs` puts them together. In the middle
  of an operation the list and the files disagree, so the invariant speaks of what
  the coroutines hold: a tunnel taken out of the list (`Out`), or the empty file
  that `createNewFile` has made under a name (`Reserves`). `KeysOK` says that the
  names of listed tunnels, of tunnels taken out and of files made in advance are
  different; `FilesOK` that the file each of them counts on is there; `AccountsOK`
  that no file is forgotten; `CachedOK` that no cached configuration is stale;
  `LoadingOK` what can happen before the list is complete. `SavesAlone` and
  `Uncached` are there because two steps need them: the second half of `save` must
  not meet the empty file of a `create`, and `onTunnelsLoaded` must list tunnels
  whose configuration nobody has read.
- `StoreMatchesCorrect` (if writes are not cut short: `~WritesFail`),
  `ConfigsListedCorrect` (if nothing is created before the list is loaded: `Overlaps`
  has no `"early"`), `LastUsedCorrect` and `TypeCorrect` follow from it;
  `SavesExistingCorrect` is the action property that `save` writes only to a file
  that is there, which fails when a delete of the same tunnel may overlap.
- `StoreRefined`: the files implement `TunnelStore`. By `StoreIInv` a file that
  `create` writes or `rename` replaces is the empty one it made itself
  (`WritesReserved`), so that each step changes at most one stored configuration
  in a way that `TunnelStore` allows, or moves one.
- `StateMatchesCorrect` also assumes `~Intents`: an
  intent may raise a tunnel that is up, and a failure then shows the state read
  before the call. Its invariant `StateIInv` says that one operation is in progress
  (`Serial`), that what it knows of states is still so when it uses it
  (`JobStateOK`: the state that a catch block found, the state `setTunnelState` falls
  back to, what `refreshTunnelStates` was answered, the tunnels to restore), and where
  the running tunnel is: listed, or held by the operation that took it out (`Shown`).
- TLC has checked both invariants on two tunnels, two names, one configuration and
  two coroutines, with cut writes and every kind of overlap but `"any"`, before they
  were proved.

`Labels`, the type `Coroutine` and the assumption that `"empty"` and `"absent"` are no
configurations are in `TunnelManager` for these proofs. Most leaves name the
backend `Zenon`, which needs less time for them than the SMT translation.

`TunnelListProofs` proves, for any set of names, any `Int` range and any number of
coroutines of `setFavourite`, under `TunnelListAssumption` and the hypothesis
`DistinctTokens` (no two names have the same tokens, which the instance satisfies:
`MCTunnelList` assumes it):

- `OrderedCorrect` and `LookupCorrect`, the two properties of `list_distinct`, and
  `TunnelsKeptCorrect`: re-sorting loses no tunnel and adds none.
- The argument: tokens are totally ordered (`TokenTotal`), so names are
  (`PrecedesTotal`), favourites first, and the comparator computes that order
  (`CompareIs`); on a list in that order a binary search ends at the place of
  the key, or at the place where it belongs (`SearchFinds`, `BinarySearchIs`); an
  insertion there keeps the order (`AddedSorted`), and so does a fold of insertions
  (`ResortSorted`). `ListInv` says that the list is in the order of the favourites in
  force; without `DistinctTokens` the order is not total and the theorems are false.
- A binary search and a fold are recursive functions. That such a function exists,
  and what it computes, needs induction over the length of the list, and the
  library's induction theorems take an operator, which the installed provers cannot
  instantiate. `ListFacts` has the induction on a set instead (`Induction`: a set that
  holds 0 and with k also k + 1 holds all numbers up to n), from the library's
  well-foundedness of the natural numbers, and uses it to show that folds are
  defined (`FoldExists`). `Lists` has the few operators on sequences that these
  modules need.

`WgQuickAndroidInvariant` and `WgQuickAndroidProofs` prove, for any sets of files,
packages, interfaces and network numbers, any `MaxUid`, `Batch` and number of
failures, under `WgQuickAndroidAssumption` and the hypothesis `PrefixFree`, every
property of the run `quick_android`:

- `AndroidUpComplete`, `AndroidUsersExact`, `AndroidFailureClean`,
  `AndroidDownComplete` and `AndroidOthersUntouched`. The number of processes is that
  of the interfaces, and they may interleave at every command. `PrefixFree` says that
  no name begins another; without it `del_if` finds the network of the longer name
  (section 3), and the theorems are false. The names of the instance satisfy it.
- They rest on `AndroidInvariant`. What has been run and what is still in the list
  must always be the whole, so `Inv` has six stages, each with the lists that can be
  pending in it. `Resting`: nothing has been run. `Making`: `add_if` and `set_config`,
  up to the port. `Marking`: up to the creation of the network; `Linking`: the network
  exists and has no interface yet; `Filling`: it has. In these three the file's
  addresses, servers, routes, uids and rules are those that are there together with those
  that are pending (`LinkFilled`, `RulesFilled`, `NetFilled`). `Clearing`: `del_if`, in
  `cmd_down` or in the cleanup, where everything that is there has its deletion, or the
  listing that will find it, pending (`Covered`). `Apart` says that two processes
  do not add their interfaces to the same number.
- The argument has two parts. A step of p changes only what is p's own (`Frame`), and
  such a step leaves every other process in its stage (`Bystander`, `TurnIs`). The exception
  is a network without an interface, which no name tells apart; that is why
  `Linking` and `Apart` are there. Then one lemma per stage shows
  that each of its actions leaves p in that stage or takes it to the next
  (`StartTurns`, `MakingTurns`, `MarkingTurns`, `FillingTurns`, `ClearingTurns`), and one that a
  failure, wherever it is, leads to `Clearing` or to the exit (`EndTurns`).
- The lists themselves come from functions: `FrontIs` and `AfterPortIs` say what they
  contain, `ParseTyped` what `parse_options` makes of any file. `UsersIs` is about the
  ranges of uids: the fold that cuts the ranges at the excluded uids, the one that puts
  them in batches and the commands made of them cover the same uids. Each is an
  induction with `ListFacts`.

Only model-checked:

- All liveness (`CallsReturn`, `LoadCompletes`, `Terminates`), which needs reasoning
  about fairness and `ENABLED`.
- `WgSet` and `WgShow`: a request is put together, cut into messages, sent and taken
  apart by folds over lines, attributes, peers and IPs, and each result needs an
  induction over data of its own, which has to be set up by hand as in `ListFacts`.
- `Highlighter` and `Encoding`: folds and recursion over the characters of a text,
  and arithmetic on bits.

## 5. Not modelled

- `RootShell`: its pipes and markers. `run` is one step of `WgQuickBackend` with all
  its outcomes; that it reads stdout to its end before stderr, and so depends on
  the size of a pipe, is recorded as a hazard without a property.
- `ToolsInstaller`: extraction of files by shell scripts, with one cached answer.
- `Application` and the boot receiver: the backend is chosen once, before any
  operation; what boot and shutdown call is in `TunnelManager`.
- `Updater`: the flow is the package installer's and the network's. The arithmetic
  of its signatures, as that of the keys, is on 255-bit numbers.
- Import, export, tile, screens and editor: input, output and layout over the
  operations of `TunnelManager`.
- `com.wireguard.config` and the conversions of `com.wireguard.crypto`: the same
  formats as in the C tools, which `WgConfig` and `Encoding` model from the C code.
  Nothing here says that the Java code accepts the same texts.
- `genkey`, `pubkey`, the dispatch in `wg.c`, the shell scripts for other systems
  and the build helpers.
- Android itself, netd, iptables and the kernel are modelled only as the code uses
  them, and are marked external in `PROJECT.json`. Statistics are reads.
