---------------------------- MODULE TunnelManager ----------------------------
(***************************************************************************)
(* TunnelManager, its ObservableTunnels and the FileConfigStore.           *)
(*                                                                         *)
(* The manager's operations are coroutines (jobs).  What they do on the    *)
(* main thread between two suspension points is one step; each access to a *)
(* file or call of the backend inside withContext(Dispatchers.IO) is one   *)
(* step too, and steps of different jobs interleave.                       *)
(*                                                                         *)
(* The backend is the userspace one seen from outside: one tunnel at a     *)
(* time, setState as a single step with the outcomes it can have (module   *)
(* GoBackend shows them step by step).  The list is a set here: its order  *)
(* is the subject of module TunnelList.                                    *)
(***************************************************************************)
EXTENDS Naturals, FiniteSets, Functions

CONSTANTS
    Objects,     \* ObservableTunnel instances
    Names,       \* valid tunnel names
    Configs,     \* configurations
    None,        \* null
    Jobs,        \* coroutines that run at the same time
    WritesFail,  \* TRUE: a write to a file can be cut short
    Intents,     \* TRUE: remote-control intents are allowed
    Overlaps     \* the values of overlap that are considered

ASSUME TunnelManagerAssumption ==
    /\ None \notin Objects \cup Names \cup Configs
    /\ Configs \cap {"empty", "absent"} = {}
    /\ Cardinality(Objects) >= Cardinality(Names)
    /\ WritesFail \in BOOLEAN
    /\ Intents \in BOOLEAN
    /\ Overlaps \subseteq {"none", "early", "other", "any"}

VARIABLES
    tunnelMap,             \* the manager's list
    lastUsedTunnel,
    completed,             \* the deferred `tunnels` is complete
    name, state, config,   \* the fields of each ObservableTunnel
    files,                 \* name -> content of <name>.conf, "empty" or "absent"
    savedLast, savedRunning,  \* UserKnobs.lastUsedTunnel, runningTunnels
    running,               \* the backend's tunnel and configuration
    job,                   \* per coroutine: its place and its local variables
    overlap                \* which operations may be in progress at the same time,
                           \* in all of a behaviour: "none", only create with the
                           \* loading of the list ("early"), those on "other"
                           \* tunnels, or "any"

list == <<tunnelMap, lastUsedTunnel, savedLast>>
objects == <<name, state, config>>
disk == <<files, savedRunning>>
vars == <<list, completed, objects, disk, running, job, overlap>>

Nothing == [tunnel |-> None, config |-> None]

\* orig: originalState, or newState of setTunnelState; last: wasLastUsed;
\* seen: the names, or for restoreState the tunnels, a coroutine has collected;
\* restored: the coroutine is one of the async blocks of restoreState.
Idle == [pc |-> "idle", tunnel |-> None, name |-> None, config |-> None, want |-> "DOWN",
         orig |-> "DOWN", last |-> FALSE, failed |-> FALSE, seen |-> {}, restored |-> FALSE]

States == {"UP", "DOWN"}

\* Where a coroutine is: the step it takes next.
Labels == {"idle", "createFile", "createWrite", "createAdd",
           "deleteDown", "deleteFile", "deleteUndo", "deletePutBack",
           "renameDown", "renameMark", "renameMove", "renameName", "renameUp", "renameCheck", "renameState", "renameAdd",
           "load", "loaded", "getConfig", "loadFor", "loadedFor", "setBackend", "stateDone",
           "saveCheck", "saveWrite", "configDone", "refreshApply",
           "enumerate", "tunnelsLoaded", "restore", "restoring"}

Coroutine ==
    [pc: Labels, tunnel: Objects \cup {None}, name: Names \cup {None}, config: Configs \cup {None},
     want: States \cup {"TOGGLE"}, orig: States, last: BOOLEAN, failed: BOOLEAN,
     seen: SUBSET (Names \cup Objects \cup {None}), restored: BOOLEAN]

\* What TunnelManager, its files and settings and the backend hold.
TypeOK ==
    /\ tunnelMap \subseteq Objects
    /\ lastUsedTunnel \in Objects \cup {None}
    /\ completed \in BOOLEAN
    /\ name \in [Objects -> Names \cup {None}]
    /\ state \in [Objects -> States]
    /\ config \in [Objects -> Configs \cup {None}]
    /\ files \in [Names -> Configs \cup {"empty", "absent"}]
    /\ savedLast \in Names \cup {None}
    /\ savedRunning \subseteq Names
    /\ running \in [tunnel: Objects, config: Configs] \cup {Nothing}
    /\ job \in [Jobs -> Coroutine]

\* The process has just been started for the first time.
Init ==
    /\ tunnelMap = {}
    /\ lastUsedTunnel = None
    /\ completed = FALSE
    /\ name = [t \in Objects |-> None]
    /\ state = [t \in Objects |-> "DOWN"]
    /\ config = [t \in Objects |-> None]
    /\ files = [n \in Names |-> "absent"]
    /\ savedLast = None
    /\ savedRunning = {}
    /\ running = Nothing
    /\ \E b \in Jobs : job = [j \in Jobs |-> [Idle EXCEPT !.pc = IF j = b THEN "enumerate" ELSE "idle"]]
    /\ overlap \in Overlaps

-----------------------------------------------------------------------------
(* Helpers *)

At(j, label) == job[j].pc = label
Goto(j, label) == job' = [job EXCEPT ![j].pc = label]
End(j) == job' = [job EXCEPT ![j] = Idle]

\* On to a last step, for which only some of the local variables still matter.
PutBack(j, label) ==
    job' = [job EXCEPT ![j] = [Idle EXCEPT !.pc = label, !.tunnel = job[j].tunnel, !.last = job[j].last]]
Report(j, newState, failed) ==
    job' = [job EXCEPT ![j] = [Idle EXCEPT !.pc = "stateDone", !.tunnel = job[j].tunnel, !.orig = newState,
                                           !.failed = failed, !.restored = job[j].restored]]

Quiet == \A j \in Jobs : At(j, "idle")

\* The tunnels a coroutine holds a reference to.
Uses(j) == {job[j].tunnel} \cup job[j].seen

\* Whether an operation on t (None: on no listed tunnel) may start now.
Allowed(t) ==
    \/ overlap = "any"
    \/ overlap = "other" /\ (t = None \/ \A j \in Jobs : t \notin Uses(j))
    \/ Quiet

\* A new operation: j is free and whoever asks for it has awaited getTunnels.
Begin(j, t) == At(j, "idle") /\ completed /\ Allowed(t)

containsKey(n) == \E t \in tunnelMap : name[t] = n

\* An instance nobody refers to stands for one that does not exist yet.
Fresh == {t \in Objects \ tunnelMap :
             t \notin {running.tunnel, lastUsedTunnel} /\ \A j \in Jobs : t \notin Uses(j)}

\* The setter of lastUsedTunnel, which stores the name.
SetLastUsed(t) ==
    /\ lastUsedTunnel' = t
    /\ savedLast' = IF t = lastUsedTunnel THEN savedLast ELSE IF t = None THEN None ELSE name[t]

\* tunnelMap.add refuses a second element with the same key; what follows it
\* in the same block is then skipped.
AddBack(t, last) ==
    \/ /\ ~containsKey(name[t])
       /\ tunnelMap' = tunnelMap \cup {t}
       /\ \/ last /\ SetLastUsed(t)
          \/ ~last /\ UNCHANGED <<lastUsedTunnel, savedLast>>
    \/ containsKey(name[t]) /\ UNCHANGED list

\* Backend.setState that succeeds.  onStateChange sets the state of the
\* tunnels it lowers and raises, on the backend's thread.
Raised(t, c) ==
    /\ c # None
    /\ running' = [tunnel |-> t, config |-> c]
    /\ \/ running' = running /\ UNCHANGED state
       \/ running' # running /\ state' = [u \in Objects |-> IF u = t THEN "UP"
                                            ELSE IF u = running.tunnel THEN "DOWN" ELSE state[u]]

Lowered(t) ==
    \/ /\ running.tunnel = t
       /\ running' = Nothing
       /\ state' = [state EXCEPT ![t] = "DOWN"]
    \/ running.tunnel # t /\ UNCHANGED <<running, state>>

Resolved(t, s) == IF s # "TOGGLE" THEN s ELSE IF running.tunnel = t THEN "DOWN" ELSE "UP"

setState(t, s, c) ==
    \/ Resolved(t, s) = "UP" /\ Raised(t, c)
    \/ Resolved(t, s) = "DOWN" /\ Lowered(t)

\* Backend.setState that throws: before it changed anything, or after it
\* lowered the tunnel that ran, which it may or may not have raised again.
setStateFails(t, s, c) ==
    \/ UNCHANGED <<running, state>>
    \/ /\ Resolved(t, s) = "UP"
       /\ running.tunnel # None
       /\ [tunnel |-> t, config |-> c] # running
       /\ \/ running' = Nothing /\ state' = [state EXCEPT ![running.tunnel] = "DOWN"]
          \/ UNCHANGED running /\ state' = [state EXCEPT ![running.tunnel] = "UP"]

-----------------------------------------------------------------------------
(* create *)

\* The importers do not await getTunnels: create can begin while the list is
\* still being loaded.
create(j, n, c) ==
    /\ \/ Begin(j, None)
       \/ At(j, "idle") /\ ~completed /\ overlap \in {"early", "any"}
    /\ ~containsKey(n)
    /\ Cardinality(Fresh) > Cardinality({i \in Jobs : job[i].pc \in {"createFile", "createWrite", "createAdd"}})
    /\ job' = [job EXCEPT ![j] = [Idle EXCEPT !.pc = "createFile", !.name = n, !.config = c]]
    /\ UNCHANGED <<list, completed, objects, disk, running>>

\* Mutant: the result of createNewFile is ignored.
createNewFileAny(n) == files' = [files EXCEPT ![n] = IF @ = "absent" THEN "empty" ELSE @]

createNewFile(n) ==
    /\ files[n] = "absent"
    /\ files' = [files EXCEPT ![n] = "empty"]

\* Creating a file fails when it exists, or for reasons of the file system.
CreateFile(j) ==
    /\ At(j, "createFile")
    /\ \/ createNewFile(job[j].name) /\ Goto(j, "createWrite")
       \/ UNCHANGED files /\ End(j)
    /\ UNCHANGED <<list, completed, objects, savedRunning, running>>

CreateWrite(j) ==
    /\ At(j, "createWrite")
    /\ \/ files' = [files EXCEPT ![job[j].name] = job[j].config] /\ Goto(j, "createAdd")
       \/ WritesFail /\ files' = [files EXCEPT ![job[j].name] = "empty"] /\ End(j)
    /\ UNCHANGED <<list, completed, objects, savedRunning, running>>

CreateAdd(j) ==
    /\ At(j, "createAdd")
    /\ \/ /\ ~containsKey(job[j].name)
          /\ \E t \in Fresh :
                /\ tunnelMap' = tunnelMap \cup {t}
                /\ name' = [name EXCEPT ![t] = job[j].name]
                /\ state' = [state EXCEPT ![t] = "DOWN"]
                /\ config' = [config EXCEPT ![t] = job[j].config]
       \/ containsKey(job[j].name) /\ UNCHANGED <<tunnelMap, objects>>
    /\ End(j)
    /\ UNCHANGED <<lastUsedTunnel, savedLast, completed, disk, running>>

-----------------------------------------------------------------------------
(* delete *)

\* Mutant: the last used tunnel is not cleared.
TakeOutKeepsLast(t) ==
    /\ tunnelMap' = tunnelMap \ {t}
    /\ UNCHANGED <<lastUsedTunnel, savedLast>>

\* What delete and setTunnelName do first, on the main thread.
TakeOut(t) ==
    /\ tunnelMap' = tunnelMap \ {t}
    /\ \/ t = lastUsedTunnel /\ SetLastUsed(None)
       \/ t # lastUsedTunnel /\ UNCHANGED <<lastUsedTunnel, savedLast>>

delete(j, t) ==
    /\ Begin(j, t)
    /\ t \in tunnelMap
    /\ TakeOut(t)
    /\ job' = [job EXCEPT ![j] = [Idle EXCEPT !.pc = IF state[t] = "UP" THEN "deleteDown" ELSE "deleteFile",
                                              !.tunnel = t, !.orig = state[t], !.last = (t = lastUsedTunnel)]]
    /\ UNCHANGED <<completed, objects, disk, running>>

DeleteDown(j) ==
    /\ At(j, "deleteDown")
    /\ \/ setState(job[j].tunnel, "DOWN", None) /\ Goto(j, "deleteFile")
       \/ setStateFails(job[j].tunnel, "DOWN", None) /\ PutBack(j, "deletePutBack")
    /\ UNCHANGED <<list, completed, name, config, disk>>

\* t is garbage once nobody else refers to it: its fields no longer matter.
Collect(j, t) ==
    \/ /\ t \notin {running.tunnel, lastUsedTunnel} /\ \A i \in Jobs \ {j} : t \notin Uses(i)
       /\ name' = [name EXCEPT ![t] = None]
       /\ state' = [state EXCEPT ![t] = "DOWN"]
       /\ config' = [config EXCEPT ![t] = None]
    \/ /\ t \in {running.tunnel, lastUsedTunnel} \/ \E i \in Jobs \ {j} : t \in Uses(i)
       /\ UNCHANGED objects

DeleteFile(j) ==
    /\ At(j, "deleteFile")
    /\ LET n == name[job[j].tunnel] IN
          \/ /\ files[n] # "absent"
             /\ files' = [files EXCEPT ![n] = "absent"]
             /\ Collect(j, job[j].tunnel)
             /\ End(j)
          \/ UNCHANGED <<files, objects>> /\ Goto(j, IF job[j].orig = "UP" THEN "deleteUndo" ELSE "deletePutBack")
    /\ UNCHANGED <<list, completed, savedRunning, running>>

DeleteUndo(j) ==
    /\ At(j, "deleteUndo")
    /\ LET t == job[j].tunnel IN setState(t, "UP", config[t]) \/ setStateFails(t, "UP", config[t])
    /\ PutBack(j, "deletePutBack")
    /\ UNCHANGED <<list, completed, name, config, disk>>

DeletePutBack(j) ==
    /\ At(j, "deletePutBack")
    /\ AddBack(job[j].tunnel, job[j].last)
    /\ End(j)
    /\ UNCHANGED <<completed, objects, disk, running>>

-----------------------------------------------------------------------------
(* setTunnelName *)

setTunnelName(j, t, n) ==
    /\ Begin(j, t)
    /\ t \in tunnelMap
    /\ ~containsKey(n)
    /\ TakeOut(t)
    /\ job' = [job EXCEPT ![j] = [Idle EXCEPT !.pc = IF state[t] = "UP" THEN "renameDown" ELSE "renameMark",
                                              !.tunnel = t, !.name = n,
                                              !.orig = state[t], !.last = (t = lastUsedTunnel)]]
    /\ UNCHANGED <<completed, objects, disk, running>>

RenameDown(j) ==
    /\ At(j, "renameDown")
    /\ \/ setState(job[j].tunnel, "DOWN", None) /\ Goto(j, "renameMark")
       \/ setStateFails(job[j].tunnel, "DOWN", None) /\ Goto(j, "renameCheck")
    /\ UNCHANGED <<list, completed, name, config, disk>>

\* FileConfigStore.rename reserves the new name with an empty file ...
RenameMark(j) ==
    /\ At(j, "renameMark")
    /\ \/ createNewFile(job[j].name) /\ Goto(j, "renameMove")
       \/ UNCHANGED files /\ Goto(j, "renameCheck")
    /\ UNCHANGED <<list, completed, objects, savedRunning, running>>

\* Mutant: the marker stays.
UnmarkNot(n) == UNCHANGED files

Unmark(n) == files' = [files EXCEPT ![n] = "absent"]

\* ... which renameTo replaces, or which is deleted when that fails.
RenameMove(j) ==
    /\ At(j, "renameMove")
    /\ LET old == name[job[j].tunnel]
           new == job[j].name
       IN \/ /\ files[old] # "absent"
             /\ files' = [files EXCEPT ![old] = "absent", ![new] = files[old]]
             /\ Goto(j, "renameName")
          \/ Unmark(new) /\ Goto(j, "renameCheck")
    /\ UNCHANGED <<list, completed, objects, savedRunning, running>>

RenameName(j) ==
    /\ At(j, "renameName")
    /\ name' = [name EXCEPT ![job[j].tunnel] = job[j].name]
    /\ IF job[j].orig = "UP" THEN Goto(j, "renameUp") ELSE PutBack(j, "renameAdd")
    /\ UNCHANGED <<list, completed, state, config, disk, running>>

RenameUp(j) ==
    /\ At(j, "renameUp")
    /\ LET t == job[j].tunnel IN
          \/ setState(t, "UP", config[t]) /\ PutBack(j, "renameAdd")
          \/ setStateFails(t, "UP", config[t]) /\ Goto(j, "renameCheck")
    /\ UNCHANGED <<list, completed, name, config, disk>>

\* Mutant: the original state is taken for the current one.
OriginalState(j) == job[j].orig

getState(j) == IF running.tunnel = job[j].tunnel THEN "UP" ELSE "DOWN"

\* getTunnelState, in the catch block: the backend's answer ...
RenameCheck(j) ==
    /\ At(j, "renameCheck")
    /\ job' = [job EXCEPT ![j] = [@ EXCEPT !.pc = "renameState", !.orig = getState(j)]]
    /\ UNCHANGED <<list, completed, objects, disk, running>>

\* ... is assigned on the main thread.
RenameState(j) ==
    /\ At(j, "renameState")
    /\ state' = [state EXCEPT ![job[j].tunnel] = job[j].orig]
    /\ PutBack(j, "renameAdd")
    /\ UNCHANGED <<list, completed, name, config, disk, running>>

RenameAdd(j) ==
    /\ At(j, "renameAdd")
    /\ AddBack(job[j].tunnel, job[j].last)
    /\ End(j)
    /\ UNCHANGED <<completed, objects, disk, running>>

-----------------------------------------------------------------------------
(* getTunnelConfig and setTunnelState *)

\* The config getter and getConfigAsync: nothing is loaded when it is cached.
getTunnelConfig(j, t) ==
    /\ Begin(j, t)
    /\ t \in tunnelMap
    /\ config[t] = None
    /\ job' = [job EXCEPT ![j] = [Idle EXCEPT !.pc = "load", !.tunnel = t]]
    /\ UNCHANGED <<list, completed, objects, disk, running>>

\* The UI goes through setStateAsync, which ignores the state the tunnel has;
\* SET_TUNNEL_UP and SET_TUNNEL_DOWN do not.
setTunnelState(j, t, s) ==
    /\ Begin(j, t)
    /\ t \in tunnelMap
    /\ s # state[t] \/ (Intents /\ s \in States)
    /\ job' = [job EXCEPT ![j] = [Idle EXCEPT !.pc = "getConfig", !.tunnel = t, !.want = s, !.orig = state[t]]]
    /\ UNCHANGED <<list, completed, objects, disk, running>>

GetConfig(j) ==
    /\ At(j, "getConfig")
    /\ LET c == config[job[j].tunnel] IN
          job' = [job EXCEPT ![j] = [@ EXCEPT !.pc = IF c = None THEN "loadFor" ELSE "setBackend", !.config = c]]
    /\ UNCHANGED <<list, completed, objects, disk, running>>

\* Mutant: setTunnelState is not told.
LoadFailsUnseen(j) == At(j, "load") /\ End(j)

\* getTunnelConfig rethrows what load throws: the getter logs it.
LoadFails(j) ==
    \/ At(j, "load") /\ End(j)
    \/ At(j, "loadFor") /\ Report(j, job[j].orig, TRUE)

\* FileConfigStore.load: an empty file does not parse.
Load(j) ==
    /\ job[j].pc \in {"load", "loadFor"}
    /\ LET c == files[name[job[j].tunnel]] IN
          \/ /\ c \in Configs
             /\ job' = [job EXCEPT ![j] = [@ EXCEPT !.pc = IF At(j, "load") THEN "loaded" ELSE "loadedFor", !.config = c]]
          \/ LoadFails(j)
    /\ UNCHANGED <<list, completed, objects, disk, running>>

Loaded(j) ==
    /\ job[j].pc \in {"loaded", "loadedFor"}
    /\ config' = [config EXCEPT ![job[j].tunnel] = job[j].config]
    /\ IF At(j, "loaded") THEN End(j) ELSE Goto(j, "setBackend")
    /\ UNCHANGED <<list, completed, name, state, disk, running>>

\* What setState returns.
NewState(j) == IF running'.tunnel = job[j].tunnel THEN "UP" ELSE "DOWN"

SetBackend(j) ==
    /\ At(j, "setBackend")
    /\ LET t == job[j].tunnel
           c == job[j].config
       IN \/ setState(t, job[j].want, c) /\ Report(j, NewState(j), FALSE)
          \/ setStateFails(t, job[j].want, c) /\ Report(j, job[j].orig, TRUE)
    /\ UNCHANGED <<list, completed, name, config, disk>>

\* onStateChanged(newState), then saveState.
StateDone(j) ==
    /\ At(j, "stateDone")
    /\ LET t == job[j].tunnel
           newState == job[j].orig
       IN /\ \/ ~job[j].failed /\ newState = "UP" /\ SetLastUsed(t)
             \/ (job[j].failed \/ newState # "UP") /\ UNCHANGED <<lastUsedTunnel, savedLast>>
          /\ state' = [state EXCEPT ![t] = newState]
    /\ savedRunning' = {name[u] : u \in {v \in tunnelMap : state'[v] = "UP"}}
    /\ job' = [i \in Jobs |-> IF i = j THEN Idle
                              ELSE IF At(i, "restoring") /\ job[j].restored /\ job[j].failed
                              THEN [job[i] EXCEPT !.failed = TRUE] ELSE job[i]]
    /\ UNCHANGED <<tunnelMap, completed, name, config, files, running>>

-----------------------------------------------------------------------------
(* setTunnelConfig *)

\* The configuration is applied with the state the tunnel has ...
setTunnelConfig(j, t, c) ==
    /\ Begin(j, t)
    /\ t \in tunnelMap
    /\ config[t] # c
    /\ \/ /\ setState(t, state[t], c)
          /\ job' = [job EXCEPT ![j] = [Idle EXCEPT !.pc = "saveCheck", !.tunnel = t, !.config = c]]
       \/ setStateFails(t, state[t], c) /\ UNCHANGED job
    /\ UNCHANGED <<list, completed, name, config, disk>>

\* Mutant: a failed save is not noticed.
SaveFailsUnseen(j) == Goto(j, "configDone")

SaveFails(j) == End(j)

\* ... then FileConfigStore.save: the file has to be there ...
SaveCheck(j) ==
    /\ At(j, "saveCheck")
    /\ \/ /\ files[name[job[j].tunnel]] # "absent"
          /\ job' = [job EXCEPT ![j] = [@ EXCEPT !.pc = "saveWrite", !.name = name[job[j].tunnel]]]
       \/ SaveFails(j)
    /\ UNCHANGED <<list, completed, objects, disk, running>>

\* ... and is then truncated, or created again when it has gone, and written.
SaveWrite(j) ==
    /\ At(j, "saveWrite")
    /\ \/ files' = [files EXCEPT ![job[j].name] = job[j].config] /\ Goto(j, "configDone")
       \/ WritesFail /\ files' = [files EXCEPT ![job[j].name] = "empty"] /\ End(j)
    /\ UNCHANGED <<list, completed, objects, savedRunning, running>>

ConfigDone(j) ==
    /\ At(j, "configDone")
    /\ config' = [config EXCEPT ![job[j].tunnel] = job[j].config]
    /\ End(j)
    /\ UNCHANGED <<list, completed, name, state, disk, running>>

-----------------------------------------------------------------------------
(* refreshTunnelStates *)

runningTunnelNames == {name[t] : t \in {running.tunnel} \ {None}}

\* The coroutine begins by asking the backend ...
refreshTunnelStates(j) ==
    /\ Begin(j, None)
    /\ job' = [job EXCEPT ![j] = [Idle EXCEPT !.pc = "refreshApply", !.seen = runningTunnelNames]]
    /\ UNCHANGED <<list, completed, objects, disk, running>>

\* ... and the answer is applied on the main thread.
RefreshApply(j) ==
    /\ At(j, "refreshApply")
    /\ state' = [t \in Objects |-> IF t \notin tunnelMap THEN state[t]
                                   ELSE IF name[t] \in job[j].seen THEN "UP" ELSE "DOWN"]
    /\ End(j)
    /\ UNCHANGED <<list, completed, name, config, disk, running>>

-----------------------------------------------------------------------------
(* Start-up and restoreState *)

\* The process dies and starts again.  The userspace tunnel dies with it.
Restart ==
    /\ \E b \in Jobs : job' = [j \in Jobs |-> [Idle EXCEPT !.pc = IF j = b THEN "enumerate" ELSE "idle"]]
    /\ tunnelMap' = {}
    /\ lastUsedTunnel' = None
    /\ completed' = FALSE
    /\ name' = [t \in Objects |-> None]
    /\ state' = [t \in Objects |-> "DOWN"]
    /\ config' = [t \in Objects |-> None]
    /\ running' = Nothing
    /\ UNCHANGED <<files, savedLast, savedRunning>>

\* onCreate: the files' names, then the backend's.
Enumerate(j) ==
    /\ At(j, "enumerate")
    /\ job' = [job EXCEPT ![j] = [@ EXCEPT !.pc = "tunnelsLoaded", !.seen = {n \in Names : files[n] # "absent"}]]
    /\ UNCHANGED <<list, completed, objects, disk, running>>

\* onTunnelsLoaded up to restoreState(true).  Nothing runs yet in a process
\* that has just started, so every tunnel is added with state DOWN.  A name that
\* create has listed meanwhile makes add throw, and the list is never complete.
onTunnelsLoaded(j) ==
    /\ At(j, "tunnelsLoaded")
    /\ LET new == {n \in job[j].seen : ~containsKey(n)} IN
       \E added \in IF new = job[j].seen THEN {new} ELSE SUBSET new :
       \E obj \in Injection(added, Fresh) :
          /\ tunnelMap' = tunnelMap \cup Range(obj)
          /\ name' = [t \in Objects |-> IF t \in Range(obj) THEN CHOOSE n \in added : obj[n] = t ELSE name[t]]
          /\ \/ /\ new = job[j].seen
                /\ lastUsedTunnel' = IF savedLast \in new THEN obj[savedLast] ELSE lastUsedTunnel
                /\ Goto(j, "restore")
             \/ new # job[j].seen /\ End(j) /\ UNCHANGED lastUsedTunnel
    /\ UNCHANGED <<completed, state, config, savedLast, disk, running>>

\* What restoreState finds to raise.
ToRestore == {t \in tunnelMap : name[t] \in savedRunning /\ state[t] # "UP"}

\* onStartCommand of an always-on start calls restoreState(true) as well.
restoreState(j) ==
    /\ Begin(j, None)
    /\ job' = [job EXCEPT ![j] = [Idle EXCEPT !.pc = "restoring", !.seen = ToRestore]]
    /\ UNCHANGED <<list, completed, objects, disk, running>>

Restore(j) ==
    /\ At(j, "restore")
    /\ job' = [job EXCEPT ![j] = [@ EXCEPT !.pc = "restoring", !.seen = ToRestore]]
    /\ UNCHANGED <<list, completed, objects, disk, running>>

\* Each async block calls setTunnelState(it, UP).
RestoreOne(j, i, t) ==
    /\ At(j, "restoring")
    /\ At(i, "idle")
    /\ t \in job[j].seen
    /\ overlap = "any" \/ \A k \in Jobs : job[k].tunnel # t
    /\ job' = [job EXCEPT ![j] = [@ EXCEPT !.seen = job[j].seen \ {t}],
                          ![i] = [Idle EXCEPT !.pc = "getConfig", !.tunnel = t, !.want = "UP", !.orig = state[t],
                                  !.restored = TRUE]]
    /\ UNCHANGED <<list, completed, objects, disk, running>>

\* awaitAll returns when every setTunnelState has ended, or throws, which is
\* logged, as soon as one has failed.
RestoreDone(j) ==
    /\ At(j, "restoring")
    /\ job[j].seen = {}
    /\ job[j].failed \/ \A i \in Jobs : ~job[i].restored
    /\ completed' = TRUE
    /\ End(j)
    /\ UNCHANGED <<list, objects, disk, running>>

\* The system destroys the VPN service: GoBackend turns the tunnel off.
Revoke ==
    /\ running # Nothing
    /\ Allowed(running.tunnel)
    /\ running' = Nothing
    /\ state' = [state EXCEPT ![running.tunnel] = "DOWN"]
    /\ UNCHANGED <<list, completed, name, config, disk, job>>

-----------------------------------------------------------------------------
Step(j) ==
    \/ CreateFile(j) \/ CreateWrite(j) \/ CreateAdd(j)
    \/ DeleteDown(j) \/ DeleteFile(j) \/ DeleteUndo(j) \/ DeletePutBack(j)
    \/ RenameDown(j) \/ RenameMark(j) \/ RenameMove(j) \/ RenameName(j) \/ RenameUp(j)
    \/ RenameCheck(j) \/ RenameState(j) \/ RenameAdd(j)
    \/ GetConfig(j) \/ Load(j) \/ Loaded(j) \/ SetBackend(j) \/ StateDone(j)
    \/ SaveCheck(j) \/ SaveWrite(j) \/ ConfigDone(j)
    \/ RefreshApply(j)
    \/ Enumerate(j) \/ onTunnelsLoaded(j) \/ Restore(j) \/ RestoreDone(j)
    \/ \E i \in Jobs, t \in Objects : RestoreOne(j, i, t)

Call(j) ==
    \/ \E n \in Names, c \in Configs : create(j, n, c)
    \/ \E t \in Objects :
          \/ delete(j, t)
          \/ getTunnelConfig(j, t)
          \/ \E n \in Names : setTunnelName(j, t, n)
          \/ \E s \in States \cup {"TOGGLE"} : setTunnelState(j, t, s)
          \/ \E c \in Configs : setTunnelConfig(j, t, c)
    \/ refreshTunnelStates(j)
    \/ restoreState(j)

Next ==
    /\ \/ \E j \in Jobs : Call(j) \/ Step(j)
       \/ Restart
       \/ Revoke
    /\ UNCHANGED overlap

Spec == Init /\ [][Next]_vars /\ \A j \in Jobs : WF_vars(Step(j) /\ UNCHANGED overlap)

-----------------------------------------------------------------------------
(* Properties *)

\* Once loaded, between operations, the list and the files agree: each tunnel listed has its
\* file, each file is listed, and a cached configuration is the stored one,
\* whatever operations failed and undid themselves and whenever the process
\* was restarted (create, delete, setTunnelName, setTunnelConfig, onCreate).
StoreMatches ==
    Quiet /\ completed =>
      /\ {name[t] : t \in tunnelMap} = {n \in Names : files[n] # "absent"}
      /\ \A t \in tunnelMap : config[t] \in {None, files[name[t]]}

\* The same when writes are cut short, except for what a cut leaves behind: a
\* file without a configuration, which may be listed or not.
ConfigsListed ==
    Quiet =>
      /\ \A n \in Names : files[n] \in Configs => containsKey(n)
      /\ \A t \in tunnelMap : files[name[t]] # "absent"
      /\ \A t \in tunnelMap : config[t] \in {None, files[name[t]]} \/ files[name[t]] = "empty"

\* Between operations, if they do not overlap, the state shown for each listed
\* tunnel is the backend's, and the backend runs no tunnel that is not listed
\* (the catch blocks of delete and setTunnelName, onStateChanged in
\* setTunnelState).
StateMatches ==
    Quiet /\ overlap \in {"none", "early"} =>
      /\ running.tunnel \in tunnelMap \cup {None}
      /\ \A t \in tunnelMap : state[t] = "UP" <=> running.tunnel = t

\* Between operations the last used tunnel is a listed one and is the one
\* whose name is stored (the setter of lastUsedTunnel, called with null and
\* with the tunnel again around delete and setTunnelName).
LastUsedMatches ==
    Quiet /\ lastUsedTunnel # None =>
      lastUsedTunnel \in tunnelMap /\ savedLast = name[lastUsedTunnel]

\* The configurations the files hold.
Stored == [n \in Names |-> IF files[n] \in Configs THEN files[n] ELSE None]

Store == INSTANCE TunnelStore WITH store <- Stored

\* However operations on different tunnels overlap and fail, the files change as
\* the store promises: renaming never replaces a configuration, and neither
\* does creating (the two createNewFile calls reserve the name).
StoreSpec == Store!Spec

\* Whoever awaits getTunnels gets the list: unless the process is restarted
\* again and again, start-up completes, whatever the files contain and whether
\* or not the tunnels that ran before can be raised (onTunnelsLoaded, restoreState).
\* It needs that no tunnel is created before the list is loaded: with overlap =
\* "early" a name may be listed already, and then onTunnelsLoaded throws.
LoadCompletes == <>[][~Restart]_vars => [](~completed => <>completed)

\* "Turning on one tunnel will turn off others": no two tunnels are shown as
\* up when no operation is in progress.
OneTunnelUp == Quiet => Cardinality({t \in tunnelMap : state[t] = "UP"}) <= 1

\* "Make sure nothing touches the tunnel": when all operations have ended, a
\* tunnel that was taken out of the list to be deleted is not left running.
DeletedNotRunning == Quiet => running.tunnel \in tunnelMap \cup {None}

\* "Save the configuration for an existing tunnel": what is saved is saved to a
\* file that exists, so a save never brings back a deleted tunnel.
SavesExisting == [][\A j \in Jobs : SaveWrite(j) => files[job[j].name] # "absent"]_vars

=============================================================================
