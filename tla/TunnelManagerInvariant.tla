----------------------- MODULE TunnelManagerInvariant -----------------------
(***************************************************************************)
(* The inductive invariant behind the theorems about TunnelManager's list, *)
(* files and cached configurations, and the part of its proof that steps   *)
(* share: what a coroutine that moves, and the others that stay where they *)
(* are, need for the invariant to hold again.  First the steps that write  *)
(* no file, list nothing and unlist nothing, then the others.              *)
(***************************************************************************)
EXTENDS TunnelManager, TLAPS

\* j has taken its tunnel out of the list (delete, setTunnelName).
Out(j) == job[j].pc \in {"deleteDown", "deleteFile", "deleteUndo", "deletePutBack",
                         "renameDown", "renameMark", "renameMove", "renameName", "renameUp",
                         "renameCheck", "renameState", "renameAdd"}

\* j works on a tunnel it leaves in the list (getTunnelConfig,
\* setTunnelState, setTunnelConfig).
In(j) == job[j].pc \in {"load", "loaded", "getConfig", "loadFor", "loadedFor", "setBackend", "stateDone",
                        "saveCheck", "saveWrite", "configDone"}

\* j is inside create.
Creating(j) == job[j].pc \in {"createFile", "createWrite", "createAdd"}

\* j made an empty file under its name that nobody has listed yet.
Reserves(j) == job[j].pc \in {"createWrite", "createAdd", "renameMove"}

\* j is inside onCreate, onTunnelsLoaded or restoreState.
Loader(j) == job[j].pc \in {"enumerate", "tunnelsLoaded", "restore", "restoring"}

\* The name under which the file of the tunnel j took out is found.
Key(j) == IF job[j].pc = "renameName" THEN job[j].name ELSE name[job[j].tunnel]

\* What a coroutine's local variables hold.
LocalOK(j) ==
    /\ Out(j) => job[j].tunnel \in Objects \ tunnelMap /\ name[job[j].tunnel] \in Names
    /\ In(j) => job[j].tunnel \in tunnelMap
    /\ ~Out(j) /\ ~In(j) => job[j].tunnel = None
    /\ Creating(j) => job[j].name \in Names /\ job[j].config \in Configs
    /\ job[j].pc \in {"renameDown", "renameMark", "renameMove", "renameName"} => job[j].name \in Names
    /\ job[j].pc \in {"saveCheck", "saveWrite", "configDone"} => job[j].config \in Configs
    /\ job[j].pc = "restoring" => job[j].seen \subseteq tunnelMap
    /\ job[j].pc = "tunnelsLoaded" => job[j].seen \subseteq Names

\* Two coroutines never work on the same tunnel.
Exclusive == \A i, j \in Jobs : i # j /\ job[i].tunnel # None => job[i].tunnel # job[j].tunnel

\* Names are keys: of listed tunnels, of tunnels taken out, of files made in
\* advance.  Only a create that overlaps the loading of the list meets a
\* tunnel that was listed under its name meanwhile.
KeysOK ==
    /\ \A t \in tunnelMap : name[t] \in Names
    /\ \A t, u \in tunnelMap : name[t] = name[u] => t = u
    /\ Exclusive
    /\ \A i, j \in Jobs : i # j /\ Out(i) /\ Out(j) => Key(i) # Key(j)
    /\ \A j \in Jobs, t \in tunnelMap : Out(j) => Key(j) # name[t]
    /\ \A i, j \in Jobs : i # j /\ Reserves(i) /\ Reserves(j) => job[i].name # job[j].name
    /\ \A i, j \in Jobs : Reserves(i) /\ Out(j) => job[i].name # Key(j)
    /\ \A i \in Jobs, t \in tunnelMap : Reserves(i) /\ name[t] = job[i].name => overlap = "early" /\ Creating(i)

\* The file a coroutine counts on is there.
FileOK(j) ==
    /\ Out(j) => files[Key(j)] # "absent"
    /\ job[j].pc \in {"createWrite", "renameMove"} => files[job[j].name] = "empty"
    /\ job[j].pc = "createAdd" => files[job[j].name] = job[j].config
    /\ job[j].pc = "tunnelsLoaded" => \A n \in job[j].seen : files[n] # "absent"

\* A tunnel has its file.
FilesOK ==
    /\ \A t \in tunnelMap : files[name[t]] # "absent"
    /\ \A j \in Jobs : FileOK(j)

\* What can happen before onTunnelsLoaded has completed the list.
LoadingOK ==
    /\ ~completed => \A j \in Jobs : ~Out(j)
    /\ ~completed /\ overlap # "early" => \A j \in Jobs : ~Creating(j)
    /\ ~completed /\ overlap # "early" => \E j \in Jobs : Loader(j)
    /\ ~completed => \A i, j \in Jobs : Loader(i) /\ Loader(j) => i = j
    /\ completed => \A j \in Jobs : job[j].pc \notin {"enumerate", "tunnelsLoaded", "restore"}
    /\ overlap # "early" => \A j \in Jobs : job[j].pc \in {"enumerate", "tunnelsLoaded"} => tunnelMap = {}

\* A file that no failed write left behind.
Kept(n) == files[n] \in Configs \/ (~WritesFail /\ files[n] # "absent")

\* Somebody knows of the file: the list, or a coroutine that will list it.
Accounted(n) ==
    \/ containsKey(n)
    \/ \E j \in Jobs : \/ Out(j) /\ Key(j) = n
                       \/ Reserves(j) /\ job[j].name = n
                       \/ job[j].pc = "enumerate"
                       \/ job[j].pc = "tunnelsLoaded" /\ n \in job[j].seen

\* No file is forgotten.
AccountsOK == completed \/ (\E j \in Jobs : Loader(j)) => \A n \in Names : Kept(n) => Accounted(n)

\* The cached configuration of t is the stored one, unless setTunnelConfig
\* has just stored another or a failed write left the file empty.
CacheOK(t) ==
    \/ config[t] = None
    \/ config[t] = files[name[t]]
    \/ \E j \in Jobs : job[j].pc = "configDone" /\ job[j].tunnel = t
    \/ /\ WritesFail /\ files[name[t]] = "empty"
       /\ \A j \in Jobs : ~(job[j].pc = "createWrite" /\ job[j].name = name[t])

\* The same for a tunnel taken out, and for the configuration a coroutine
\* is about to cache.
JobCacheOK(j) ==
    /\ Out(j) => \/ config[job[j].tunnel] = None
                 \/ config[job[j].tunnel] = files[Key(j)]
                 \/ WritesFail /\ files[Key(j)] = "empty"
    /\ job[j].pc \in {"loaded", "loadedFor"} => job[j].config \in Configs /\ files[name[job[j].tunnel]] = job[j].config
    /\ job[j].pc \in {"saveWrite", "configDone"} => job[j].name = name[job[j].tunnel]
    /\ job[j].pc = "configDone" => files[job[j].name] = job[j].config

\* No cached configuration is stale.
CachedOK ==
    /\ \A t \in tunnelMap : CacheOK(t)
    /\ \A j \in Jobs : JobCacheOK(j)

\* The last used tunnel is listed and its name is the one stored.
LastUsedOK == lastUsedTunnel # None => lastUsedTunnel \in tunnelMap /\ savedLast = name[lastUsedTunnel]

\* What the operations preserve.
StoreInv ==
    /\ overlap \in {"none", "early", "other"}
    /\ TypeOK
    /\ \A j \in Jobs : LocalOK(j)
    /\ KeysOK /\ FilesOK /\ LoadingOK /\ AccountsOK /\ CachedOK /\ LastUsedOK

\* j is inside the save of setTunnelConfig.
Saving(j) == job[j].pc \in {"saveCheck", "saveWrite", "configDone"}

\* SaveWrite must not meet the empty file a create is about to write: a save
\* begins in a complete list, and with a create beside it only where
\* operations on different tunnels overlap.
SavesAlone ==
    /\ \A j \in Jobs : Saving(j) => completed
    /\ \A i, j \in Jobs : Saving(i) /\ Creating(j) => overlap = "other"

\* onTunnelsLoaded lists tunnels whose configuration nobody has read.
Uncached == ~completed => \A t \in Objects : t \notin tunnelMap => config[t] = None

\* The inductive invariant.
StoreIInv == StoreInv /\ SavesAlone /\ Uncached

-----------------------------------------------------------------------------

\* The labels, one by one.
LEMMA LabelFacts ==
    /\ "idle" \in Labels /\ "createFile" \in Labels /\ "createWrite" \in Labels
    /\ "createAdd" \in Labels /\ "deleteDown" \in Labels /\ "deleteFile" \in Labels
    /\ "deleteUndo" \in Labels /\ "deletePutBack" \in Labels /\ "renameDown" \in Labels
    /\ "renameMark" \in Labels /\ "renameMove" \in Labels /\ "renameName" \in Labels
    /\ "renameUp" \in Labels /\ "renameCheck" \in Labels /\ "renameState" \in Labels
    /\ "renameAdd" \in Labels /\ "load" \in Labels /\ "loaded" \in Labels
    /\ "getConfig" \in Labels /\ "loadFor" \in Labels /\ "loadedFor" \in Labels
    /\ "setBackend" \in Labels /\ "stateDone" \in Labels /\ "saveCheck" \in Labels
    /\ "saveWrite" \in Labels /\ "configDone" \in Labels /\ "refreshApply" \in Labels
    /\ "enumerate" \in Labels /\ "tunnelsLoaded" \in Labels /\ "restore" \in Labels
    /\ "restoring" \in Labels
  BY Zenon DEF Labels

\* Idle is a coroutine that holds nothing.
LEMMA IdleFacts ==
    /\ Idle \in Coroutine
    /\ Idle.pc = "idle" /\ Idle.tunnel = None /\ Idle.name = None /\ Idle.config = None /\ Idle.seen = {}
    /\ Idle.restored = FALSE /\ Idle.failed = FALSE
  BY Zenon DEF Idle, Coroutine, Labels, States

\* What assigning all local variables of one coroutine leaves.
LEMMA SetFacts ==
  ASSUME TypeOK, NEW j \in Jobs, NEW r \in Coroutine, job' = [job EXCEPT ![j] = r]
  PROVE  /\ job' \in [Jobs -> Coroutine] /\ job'[j] = r
         /\ \A i \in Jobs \ {j} : job'[i] = job[i]
  BY Zenon DEF TypeOK

\* A coroutine that returns leaves the others where they are.
LEMMA EndFacts ==
  ASSUME TypeOK, NEW j \in Jobs, End(j)
  PROVE  /\ job' \in [Jobs -> Coroutine] /\ job'[j] = Idle
         /\ \A i \in Jobs \ {j} : job'[i] = job[i]
  BY IdleFacts, Zenon DEF TypeOK, End

\* Goto changes the label only.
LEMMA GotoFacts ==
  ASSUME TypeOK, NEW j \in Jobs, NEW l \in Labels, Goto(j, l)
  PROVE  /\ job' \in [Jobs -> Coroutine]
         /\ \A i \in Jobs \ {j} : job'[i] = job[i]
         /\ job'[j].pc = l
         /\ job'[j].tunnel = job[j].tunnel /\ job'[j].name = job[j].name /\ job'[j].config = job[j].config
         /\ job'[j].want = job[j].want /\ job'[j].orig = job[j].orig /\ job'[j].last = job[j].last
         /\ job'[j].failed = job[j].failed /\ job'[j].seen = job[j].seen /\ job'[j].restored = job[j].restored
  BY ZenonT(60) DEF TypeOK, Goto, Coroutine

\* PutBack keeps the tunnel and whether it was the last used one.
LEMMA PutBackFacts ==
  ASSUME TypeOK, NEW j \in Jobs, NEW l \in Labels, PutBack(j, l)
  PROVE  /\ job' \in [Jobs -> Coroutine]
         /\ \A i \in Jobs \ {j} : job'[i] = job[i]
         /\ job'[j].pc = l /\ job'[j].tunnel = job[j].tunnel /\ job'[j].last = job[j].last
         /\ job'[j].name = None /\ job'[j].config = None /\ job'[j].seen = {} /\ job'[j].restored = FALSE
  BY Zenon DEF TypeOK, PutBack, Coroutine, Idle, States

\* Report keeps the tunnel and whether restoreState asked for it.
LEMMA ReportFacts ==
  ASSUME TypeOK, NEW j \in Jobs, NEW s \in States, NEW f \in BOOLEAN, Report(j, s, f)
  PROVE  /\ job' \in [Jobs -> Coroutine]
         /\ \A i \in Jobs \ {j} : job'[i] = job[i]
         /\ job'[j].pc = "stateDone" /\ job'[j].tunnel = job[j].tunnel /\ job'[j].orig = s
         /\ job'[j].failed = f /\ job'[j].restored = job[j].restored
         /\ job'[j].name = None /\ job'[j].config = None /\ job'[j].seen = {}
  BY Zenon DEF TypeOK, Report, Coroutine, Idle, States, Labels

\* What the coroutine i may do in a step that writes no file, lists nothing,
\* unlists nothing and renames nothing.
Moves(i) ==
    /\ LocalOK(i)'
    /\ Out(i)' <=> Out(i)
    /\ Out(i) => job'[i].tunnel = job[i].tunnel /\ Key(i)' = Key(i)
    /\ Reserves(i)' <=> Reserves(i)
    /\ Reserves(i) => job'[i].pc = job[i].pc /\ job'[i].name = job[i].name /\ job'[i].config = job[i].config
    /\ Creating(i)' => Creating(i) \/ completed \/ overlap = "early"
    /\ Loader(i)' => Loader(i) \/ completed
    /\ Loader(i) => Loader(i)' \/ completed'
    /\ job'[i].pc \in {"enumerate", "tunnelsLoaded", "restore"} => job'[i].pc = job[i].pc /\ job'[i].seen = job[i].seen
    /\ job[i].pc \in {"enumerate", "tunnelsLoaded"} => job'[i].pc = job[i].pc
    /\ job[i].pc = "configDone" => job'[i].pc = "configDone" /\ job'[i].tunnel = job[i].tunnel
    /\ job'[i].pc = "configDone" =>
          job[i].pc = "configDone" /\ job'[i].tunnel = job[i].tunnel /\ job'[i].name = job[i].name /\ job'[i].config = job[i].config
    /\ job'[i].pc \in {"loaded", "loadedFor"} =>
          job'[i].config \in Configs /\ files[name[job'[i].tunnel]] = job'[i].config
    /\ job'[i].pc = "saveWrite" => job'[i].name = name[job'[i].tunnel]

\* A coroutine that does not move in such a step satisfies Moves.
LEMMA Stays ==
  ASSUME StoreInv, NEW i \in Jobs, job'[i] = job[i], UNCHANGED <<tunnelMap, name, files, completed>>
  PROVE  Moves(i)
  <1>1. LocalOK(i) /\ LocalOK(i)'
    BY Zenon DEF StoreInv, LocalOK, Out, In, Creating
  <1>2. Key(i)' = Key(i)
    BY Zenon DEF Key
  <1> QED
    BY <1>1, <1>2, Zenon DEF StoreInv, CachedOK, JobCacheOK, Moves, Out, Reserves, Creating, Loader

\* Such a step keeps names keys.
LEMMA LightKeys ==
  ASSUME StoreInv, UNCHANGED <<tunnelMap, name, files, overlap>>, \A i \in Jobs : Moves(i), Exclusive'
  PROVE  KeysOK'
  <1>1. \A i \in Jobs : Reserves(i) => (Creating(i)' <=> Creating(i))
    BY Zenon DEF Moves, Creating
  <1> QED
    BY <1>1 DEF StoreInv, KeysOK, Moves

\* Such a step keeps every file in its place.
LEMMA LightFiles ==
  ASSUME StoreInv, UNCHANGED <<tunnelMap, name, files, overlap>>, \A i \in Jobs : Moves(i)
  PROVE  FilesOK'
  BY DEF StoreInv, FilesOK, FileOK, Moves, Reserves

\* What the coroutine i may do to the order in which the list is loaded.
LoadMoves(i) ==
    /\ Out(i)' => Out(i) \/ completed
    /\ Creating(i)' => Creating(i) \/ completed \/ overlap = "early"
    /\ Loader(i)' => Loader(i) \/ completed
    /\ Loader(i) => Loader(i)' \/ completed
    /\ job'[i].pc \in {"enumerate", "tunnelsLoaded", "restore"} => job'[i].pc = job[i].pc

\* LoadingOK is about LoadMoves only.
LEMMA LoadingStep ==
  ASSUME StoreInv, UNCHANGED <<completed, overlap>>, tunnelMap' = tunnelMap \/ completed \/ overlap = "early",
         \A i \in Jobs : LoadMoves(i)
  PROVE  LoadingOK'
  BY Zenon DEF StoreInv, LoadingOK, LoadMoves

\* Moves implies LoadMoves, so such a step keeps LoadingOK.
LEMMA LightLoading ==
  ASSUME StoreInv, UNCHANGED <<tunnelMap, completed, overlap>>, \A i \in Jobs : Moves(i)
  PROVE  LoadingOK'
  <1>1. \A i \in Jobs : LoadMoves(i)
    BY Zenon DEF Moves, LoadMoves
  <1> QED
    BY <1>1, LoadingStep, Zenon

\* Such a step forgets no file.
LEMMA LightAccounts ==
  ASSUME StoreInv, UNCHANGED <<tunnelMap, name, files, completed>>, \A i \in Jobs : Moves(i)
  PROVE  AccountsOK'
  <1>1. \A n \in Names : Accounted(n) => Accounted(n)'
    BY ZenonT(60) DEF Accounted, Moves, containsKey
  <1>2. \A n \in Names : Kept(n)' => Kept(n)
    BY Zenon DEF Kept
  <1>3. completed' \/ (\E j \in Jobs : Loader(j)') => completed \/ (\E j \in Jobs : Loader(j))
    BY Zenon DEF Moves
  <1> QED
    BY <1>1, <1>2, <1>3, Zenon DEF StoreInv, AccountsOK

\* Such a step makes no cached configuration stale.
LEMMA LightCached ==
  ASSUME StoreInv, UNCHANGED <<tunnelMap, name, files, config>>, \A i \in Jobs : Moves(i)
  PROVE  CachedOK'
  <1>1. \A i \in Jobs : job'[i].pc = "createWrite" => job[i].pc = "createWrite" /\ job'[i].name = job[i].name
    BY Zenon DEF Moves, Reserves
  <1>2. \A t \in tunnelMap : CacheOK(t)'
    BY <1>1 DEF StoreInv, CachedOK, CacheOK, Moves
  <1>3. \A i \in Jobs : JobCacheOK(i)'
    BY ZenonT(60) DEF StoreInv, CachedOK, JobCacheOK, Moves
  <1> QED
    BY <1>2, <1>3, Zenon DEF CachedOK

\* A step in which every coroutine Moves preserves the invariant.
LEMMA LightStep ==
  ASSUME StoreInv, UNCHANGED <<tunnelMap, name, config, files, completed, overlap>>,
         \A i \in Jobs : Moves(i), Exclusive', TypeOK', LastUsedOK'
  PROVE  StoreInv'
  <1>1. \A j \in Jobs : LocalOK(j)'
    BY Zenon DEF Moves
  <1>2. overlap' \in {"none", "early", "other"}
    BY Zenon DEF StoreInv
  <1> QED
    BY <1>1, <1>2, LightKeys, LightFiles, LightLoading, LightAccounts, LightCached, Zenon DEF StoreInv

\* Backend.setState, whether it returns or throws, leaves a running tunnel
\* and states of their types.
LEMMA BackendTypes ==
  ASSUME TypeOK, NEW t \in Objects, NEW s, NEW c \in Configs \cup {None},
         setState(t, s, c) \/ setStateFails(t, s, c)
  PROVE  running' \in [tunnel: Objects, config: Configs] \cup {Nothing} /\ state' \in [Objects -> States]
  <1>1. CASE Raised(t, c)
    BY <1>1, ZenonT(60) DEF TypeOK, Raised, States, Nothing
  <1>2. CASE Lowered(t)
    BY <1>2, Zenon DEF TypeOK, Lowered, States, Nothing
  <1>3. CASE setStateFails(t, s, c)
    BY <1>3, Zenon DEF TypeOK, setStateFails, States, Nothing
  <1> QED
    BY <1>1, <1>2, <1>3, Zenon DEF setState

\* A step of one coroutine that Moves preserves the invariant when no other
\* works on the tunnel it takes up.
LEMMA OneMoves ==
  ASSUME StoreInv, NEW j \in Jobs,
         UNCHANGED <<list, name, config, files, savedRunning, completed, overlap>>,
         running' \in [tunnel: Objects, config: Configs] \cup {Nothing}, state' \in [Objects -> States],
         job' \in [Jobs -> Coroutine], \A i \in Jobs \ {j} : job'[i] = job[i],
         Moves(j),
         \/ job'[j].tunnel \in {None, job[j].tunnel}
         \/ \A i \in Jobs : job[i].tunnel # job'[j].tunnel
  PROVE  StoreInv'
  <1>1. \A i \in Jobs : Moves(i)
    BY Stays, Zenon DEF list
  <1>2. Exclusive'
    BY DEF StoreInv, KeysOK, Exclusive
  <1>3. TypeOK'
    BY Zenon DEF StoreInv, TypeOK, list
  <1>4. LastUsedOK'
    BY Zenon DEF StoreInv, LastUsedOK, list
  <1> QED
    BY <1>1, <1>2, <1>3, <1>4, LightStep, Zenon DEF list

\* delete and setTunnelName on their way, before and after they touch files.
LEMMA OutMoves ==
  ASSUME StoreInv, NEW j \in Jobs, UNCHANGED <<tunnelMap, name, files, completed>>,
         Out(j), job[j].pc \notin {"renameMove", "renameName"},
         Out(j)', job'[j].pc \notin {"renameMove", "renameName"},
         job'[j].tunnel = job[j].tunnel,
         job'[j].pc \in {"renameDown", "renameMark"} => job'[j].name \in Names
  PROVE  Moves(j)
  <1>1. Key(j)' = Key(j)
    BY Zenon DEF Key
  <1>2. ~In(j) /\ ~In(j)' /\ ~Creating(j) /\ ~Creating(j)' /\ ~Reserves(j) /\ ~Reserves(j)' /\ ~Loader(j) /\ ~Loader(j)'
    BY Zenon DEF Out, In, Creating, Reserves, Loader
  <1>3. LocalOK(j)'
    BY <1>2, Zenon DEF StoreInv, LocalOK, Out
  <1>4. /\ job[j].pc \notin {"enumerate", "tunnelsLoaded", "configDone"}
        /\ job'[j].pc \notin {"enumerate", "tunnelsLoaded", "restore", "configDone", "loaded", "loadedFor", "saveWrite"}
    BY Zenon DEF Out
  <1> QED
    BY <1>1, <1>2, <1>3, <1>4, Zenon DEF Moves

\* Such a step of delete or setTunnelName preserves the invariant.
LEMMA OutStep ==
  ASSUME StoreInv, NEW j \in Jobs, Out(j), job[j].pc \notin {"renameMove", "renameName"},
         UNCHANGED <<list, name, config, disk, completed, overlap>>,
         running' \in [tunnel: Objects, config: Configs] \cup {Nothing}, state' \in [Objects -> States],
         job' \in [Jobs -> Coroutine], \A i \in Jobs \ {j} : job'[i] = job[i],
         NEW l \in {"deleteFile", "deleteUndo", "deletePutBack", "renameMark", "renameCheck", "renameState", "renameAdd"},
         job'[j].pc = l, job'[j].tunnel = job[j].tunnel, l = "renameMark" => job'[j].name \in Names
  PROVE  StoreInv'
  <1>1. Out(j)' /\ job'[j].pc \notin {"renameMove", "renameName", "renameDown"}
    BY Zenon DEF Out
  <1>2. Moves(j)
    BY <1>1, OutMoves, Zenon DEF list, disk
  <1> QED
    BY <1>2, OneMoves, Zenon DEF disk

\* The calls of the backend in delete and setTunnelName, with their catch
\* blocks, preserve the invariant.
LEMMA OutKeeps ==
  ASSUME StoreInv, NEW j \in Jobs, UNCHANGED overlap,
         \/ DeleteDown(j) \/ DeleteUndo(j) \/ RenameDown(j)
         \/ RenameUp(j) \/ RenameCheck(j) \/ RenameState(j)
  PROVE  StoreInv'
  <1> DEFINE t == job[j].tunnel
  <1>1. Out(j) /\ job[j].pc \notin {"renameMove", "renameName"}
    BY Zenon DEF Out, DeleteDown, DeleteUndo, RenameDown, RenameUp, RenameCheck, RenameState, At
  <1>2. /\ TypeOK /\ t \in Objects /\ config[t] \in Configs \cup {None}
        /\ (At(j, "renameDown") => job[j].name \in Names)
    BY <1>1, Zenon DEF StoreInv, LocalOK, TypeOK, At
  <1>3. CASE DeleteDown(j)
    <2>1. PICK l \in {"deleteFile", "deletePutBack"} : Goto(j, l) \/ PutBack(j, l)
      BY <1>3, Zenon DEF DeleteDown
    <2>2. /\ job' \in [Jobs -> Coroutine] /\ \A i \in Jobs \ {j} : job'[i] = job[i]
          /\ job'[j].pc = l /\ job'[j].tunnel = t
      BY <1>2, <2>1, GotoFacts, PutBackFacts, LabelFacts, Zenon
    <2>3. running' \in [tunnel: Objects, config: Configs] \cup {Nothing} /\ state' \in [Objects -> States]
      BY <1>2, <1>3, BackendTypes, Zenon DEF DeleteDown
    <2> QED
      BY <1>1, <1>3, <2>2, <2>3, OutStep, Zenon DEF DeleteDown
  <1>4. CASE DeleteUndo(j)
    <2>1. PutBack(j, "deletePutBack")
      BY <1>4, Zenon DEF DeleteUndo
    <2>2. /\ job' \in [Jobs -> Coroutine] /\ \A i \in Jobs \ {j} : job'[i] = job[i]
          /\ job'[j].pc = "deletePutBack" /\ job'[j].tunnel = t
      BY <1>2, <2>1, PutBackFacts, LabelFacts, Zenon
    <2>3. running' \in [tunnel: Objects, config: Configs] \cup {Nothing} /\ state' \in [Objects -> States]
      BY <1>2, <1>4, BackendTypes, Zenon DEF DeleteUndo
    <2> QED
      BY <1>1, <1>4, <2>2, <2>3, OutStep, Zenon DEF DeleteUndo
  <1>5. CASE RenameDown(j)
    <2>1. PICK l \in {"renameMark", "renameCheck"} : Goto(j, l)
      BY <1>5, Zenon DEF RenameDown
    <2>2. /\ job' \in [Jobs -> Coroutine] /\ \A i \in Jobs \ {j} : job'[i] = job[i]
          /\ job'[j].pc = l /\ job'[j].tunnel = t /\ job'[j].name = job[j].name
      BY <1>2, <2>1, GotoFacts, LabelFacts, Zenon
    <2>3. running' \in [tunnel: Objects, config: Configs] \cup {Nothing} /\ state' \in [Objects -> States]
      BY <1>2, <1>5, BackendTypes, Zenon DEF RenameDown
    <2> QED
      BY <1>1, <1>2, <1>5, <2>2, <2>3, OutStep, Zenon DEF RenameDown
  <1>6. CASE RenameUp(j)
    <2>1. PICK l \in {"renameAdd", "renameCheck"} : Goto(j, l) \/ PutBack(j, l)
      BY <1>6, Zenon DEF RenameUp
    <2>2. /\ job' \in [Jobs -> Coroutine] /\ \A i \in Jobs \ {j} : job'[i] = job[i]
          /\ job'[j].pc = l /\ job'[j].tunnel = t
      BY <1>2, <2>1, GotoFacts, PutBackFacts, LabelFacts, Zenon
    <2>3. running' \in [tunnel: Objects, config: Configs] \cup {Nothing} /\ state' \in [Objects -> States]
      BY <1>2, <1>6, BackendTypes, Zenon DEF RenameUp
    <2> QED
      BY <1>1, <1>6, <2>2, <2>3, OutStep, Zenon DEF RenameUp
  <1>7. CASE RenameCheck(j)
    <2>1. /\ job' \in [Jobs -> Coroutine] /\ \A i \in Jobs \ {j} : job'[i] = job[i]
          /\ job'[j].pc = "renameState" /\ job'[j].tunnel = t
      <3> DEFINE r == [job[j] EXCEPT !.pc = "renameState", !.orig = getState(j)]
      <3>1. r \in Coroutine /\ r.pc = "renameState" /\ r.tunnel = t
        <4>1. job[j] \in Coroutine /\ getState(j) \in States
          BY <1>2, Zenon DEF TypeOK, getState, States
        <4> QED
          BY <4>1, Zenon DEF Coroutine, Labels
      <3>2. job' = [job EXCEPT ![j] = r]
        BY <1>7, Zenon DEF RenameCheck
      <3> QED
        BY <1>2, <3>1, <3>2, SetFacts, Zenon
    <2>2. running' \in [tunnel: Objects, config: Configs] \cup {Nothing} /\ state' \in [Objects -> States]
      BY <1>2, <1>7, Zenon DEF TypeOK, RenameCheck, objects
    <2> QED
      BY <1>1, <1>7, <2>1, <2>2, OutStep, Zenon DEF RenameCheck, objects
  <1>8. CASE RenameState(j)
    <2>1. PutBack(j, "renameAdd")
      BY <1>8, Zenon DEF RenameState
    <2>2. /\ job' \in [Jobs -> Coroutine] /\ \A i \in Jobs \ {j} : job'[i] = job[i]
          /\ job'[j].pc = "renameAdd" /\ job'[j].tunnel = t
      BY <1>2, <2>1, PutBackFacts, LabelFacts, Zenon
    <2>3. job[j].orig \in States
      BY <1>2, Zenon DEF TypeOK, Coroutine
    <2>4. running' \in [tunnel: Objects, config: Configs] \cup {Nothing} /\ state' \in [Objects -> States]
      BY <1>2, <1>8, <2>3, Zenon DEF TypeOK, RenameState
    <2> QED
      BY <1>1, <1>8, <2>2, <2>4, OutStep, Zenon DEF RenameState
  <1> QED
    BY <1>3, <1>4, <1>5, <1>6, <1>7, <1>8, Zenon

\* Steps between the first ones of create and those of the operations on a
\* tunnel that stays listed.
LEMMA PlainMoves ==
  ASSUME StoreInv, NEW j \in Jobs, UNCHANGED <<tunnelMap, name, files, completed>>,
         job[j].pc \in {"idle", "createFile", "load", "getConfig", "loadFor", "setBackend", "stateDone",
                        "saveCheck", "refreshApply"},
         job'[j].pc \in {"idle", "createFile", "load", "loaded", "getConfig", "loadFor", "loadedFor", "setBackend",
                         "stateDone", "saveCheck", "saveWrite", "refreshApply"},
         LocalOK(j)',
         job'[j].pc = "createFile" => completed \/ overlap = "early",
         job'[j].pc \in {"loaded", "loadedFor"} =>
           job'[j].config \in Configs /\ files[name[job'[j].tunnel]] = job'[j].config,
         job'[j].pc = "saveWrite" => job'[j].name = name[job'[j].tunnel]
  PROVE  Moves(j)
  <1>1. ~Out(j) /\ ~Out(j)' /\ ~Reserves(j) /\ ~Reserves(j)' /\ ~Loader(j) /\ ~Loader(j)'
    BY Zenon DEF Out, Reserves, Loader
  <1>2. Creating(j)' => completed \/ overlap = "early"
    BY Zenon DEF Creating
  <1> QED
    BY <1>1, <1>2, Zenon DEF Moves

\* The same for an operation on a listed tunnel.
LEMMA InMoves ==
  ASSUME StoreInv, NEW j \in Jobs, UNCHANGED <<tunnelMap, name, files, completed>>,
         job[j].pc \in {"idle", "load", "getConfig", "loadFor", "setBackend", "saveCheck"},
         job'[j].pc \in {"load", "loaded", "getConfig", "loadFor", "loadedFor", "setBackend",
                         "stateDone", "saveCheck", "saveWrite"},
         job'[j].tunnel \in tunnelMap,
         job'[j].pc \in {"saveCheck", "saveWrite"} => job'[j].config \in Configs,
         job'[j].pc \in {"loaded", "loadedFor"} =>
           job'[j].config \in Configs /\ files[name[job'[j].tunnel]] = job'[j].config,
         job'[j].pc = "saveWrite" => job'[j].name = name[job'[j].tunnel]
  PROVE  Moves(j)
  <1>1. LocalOK(j)'
    BY Zenon DEF LocalOK, Out, In, Creating
  <1> QED
    BY <1>1, PlainMoves, Zenon

\* An operation that ends without having changed the files.
LEMMA Ends ==
  ASSUME StoreInv, NEW j \in Jobs, UNCHANGED <<tunnelMap, name, files, completed>>,
         job[j].pc \in {"createFile", "load", "loadFor", "stateDone", "saveCheck", "refreshApply"},
         job'[j].pc = "idle", job'[j].tunnel = None
  PROVE  Moves(j)
  <1>1. LocalOK(j)'
    BY Zenon DEF LocalOK, Out, In, Creating
  <1> QED
    BY <1>1, PlainMoves, Zenon

\* An operation on t begins when no other works on t or is about to
\* (the callers await each operation, or at least those on the same tunnel).
LEMMA BeginFacts ==
  ASSUME StoreInv, NEW j \in Jobs, NEW t, Begin(j, t)
  PROVE  /\ job[j].pc = "idle" /\ completed /\ (overlap # "other" => Quiet)
         /\ t \in Objects => \A i \in Jobs : job[i].tunnel # t /\ (job[i].pc = "restoring" => t \notin job[i].seen)
  <1>1. job[j].pc = "idle" /\ completed /\ (overlap # "other" => Quiet)
    BY Zenon DEF Begin, At, Allowed, StoreInv
  <1>2. ASSUME t \in Objects, NEW i \in Jobs
        PROVE  job[i].tunnel # t /\ (job[i].pc = "restoring" => t \notin job[i].seen)
    <2>1. t # None
      BY <1>2, TunnelManagerAssumption, Zenon
    <2>2. CASE Quiet
      BY <2>1, <2>2, <1>2, Zenon DEF Quiet, At, StoreInv, LocalOK, Out, In
    <2>3. CASE \A k \in Jobs : t \notin Uses(k)
      BY <2>3, <1>2, Zenon DEF Uses
    <2> QED
      BY <2>1, <2>2, <2>3, Zenon DEF Begin, Allowed, StoreInv
  <1> QED
    BY <1>1, <1>2, Zenon

\* getTunnelConfig, setTunnelState and setTunnelConfig up to the point where
\* they cache or write preserve the invariant.
LEMMA InKeeps ==
  ASSUME StoreInv, NEW j \in Jobs, UNCHANGED overlap,
         \/ GetConfig(j) \/ Load(j) \/ SetBackend(j) \/ SaveCheck(j)
  PROVE  StoreInv'
  <1> DEFINE t == job[j].tunnel
  <1>1. TypeOK /\ job[j] \in Coroutine
    BY Zenon DEF StoreInv, TypeOK
  <1>2. job[j].pc \in {"getConfig", "load", "loadFor", "setBackend", "saveCheck"}
    BY Zenon DEF GetConfig, Load, SetBackend, SaveCheck, At
  <1>3. t \in tunnelMap /\ t \in Objects /\ name[t] \in Names /\ (job[j].pc = "saveCheck" => job[j].config \in Configs)
    BY <1>1, <1>2, Zenon DEF StoreInv, LocalOK, In, KeysOK, TypeOK
  <1>4. running \in [tunnel: Objects, config: Configs] \cup {Nothing} /\ state \in [Objects -> States]
    BY <1>1, Zenon DEF TypeOK
  <1>5. CASE GetConfig(j)
    <2> DEFINE l == IF config[t] = None THEN "loadFor" ELSE "setBackend"
               r == [job[j] EXCEPT !.pc = l, !.config = config[t]]
    <2>1. r \in Coroutine /\ r.pc = l /\ r.tunnel = t
      <3>1. l \in Labels /\ config[t] \in Configs \cup {None}
        BY <1>1, <1>3, Zenon DEF TypeOK, Labels
      <3> HIDE DEF l
      <3> QED
        BY <1>1, <3>1, Zenon DEF Coroutine
    <2>2. job' = [job EXCEPT ![j] = r]
      BY <1>5, Zenon DEF GetConfig
    <2>3. job' \in [Jobs -> Coroutine] /\ job'[j] = r /\ \A i \in Jobs \ {j} : job'[i] = job[i]
      <3> HIDE DEF r
      <3> QED
        BY <1>1, <2>1, <2>2, SetFacts, Zenon
    <2>4. UNCHANGED <<list, objects, disk, completed, running, overlap>>
      BY <1>5, Zenon DEF GetConfig
    <2>5. job'[j].pc \in {"loadFor", "setBackend"} /\ job'[j].tunnel = t
      BY <2>1, <2>3, Zenon
    <2>6. Moves(j)
      BY <1>2, <1>3, <2>4, <2>5, InMoves, Zenon DEF list, objects, disk
    <2> QED
      BY <1>4, <2>3, <2>4, <2>5, <2>6, OneMoves, Zenon DEF objects, disk
  <1>6. CASE Load(j)
    <2>1. UNCHANGED <<list, objects, disk, completed, running, overlap>>
      BY <1>6, Zenon DEF Load
    <2>2. CASE LoadFails(j)
      <3>1. CASE End(j)
        <4>1. /\ job' \in [Jobs -> Coroutine] /\ \A i \in Jobs \ {j} : job'[i] = job[i]
              /\ job'[j].pc = "idle" /\ job'[j].tunnel = None
          BY <1>1, <3>1, EndFacts, IdleFacts, Zenon
        <4>2. Moves(j)
          BY <1>6, <2>1, <4>1, Ends, Zenon DEF Load, list, objects, disk
        <4> QED
          BY <1>4, <2>1, <4>1, <4>2, OneMoves, Zenon DEF objects, disk
      <3>2. CASE Report(j, job[j].orig, TRUE)
        <4>1. job[j].orig \in States
          BY <1>1, Zenon DEF Coroutine
        <4>2. /\ job' \in [Jobs -> Coroutine] /\ \A i \in Jobs \ {j} : job'[i] = job[i]
              /\ job'[j].pc = "stateDone" /\ job'[j].tunnel = t
          BY <1>1, <3>2, <4>1, ReportFacts, Zenon
        <4>3. Moves(j)
          BY <1>2, <1>3, <2>1, <4>2, InMoves, Zenon DEF list, objects, disk
        <4> QED
          BY <1>4, <2>1, <4>2, <4>3, OneMoves, Zenon DEF objects, disk
      <3> QED
        BY <2>2, <3>1, <3>2, Zenon DEF LoadFails
    <2>3. CASE ~LoadFails(j)
      <3> DEFINE c == files[name[t]]
                 l == IF job[j].pc = "load" THEN "loaded" ELSE "loadedFor"
                 r == [job[j] EXCEPT !.pc = l, !.config = c]
      <3>1. c \in Configs /\ job' = [job EXCEPT ![j] = r]
        BY <1>6, <2>3, Zenon DEF Load, At
      <3>2. r \in Coroutine /\ r.pc = l /\ r.tunnel = t /\ r.config = c
        <4>1. l \in Labels
          BY Zenon DEF Labels
        <4> HIDE DEF l, c
        <4> QED
          BY <1>1, <3>1, <4>1, Zenon DEF Coroutine
      <3>3. job' \in [Jobs -> Coroutine] /\ job'[j] = r /\ \A i \in Jobs \ {j} : job'[i] = job[i]
        <4> HIDE DEF r
        <4> QED
          BY <1>1, <3>1, <3>2, SetFacts, Zenon
      <3>4. job'[j].pc \in {"loaded", "loadedFor"} /\ job'[j].tunnel = t /\ job'[j].config = files[name[t]]
        BY <3>2, <3>3, Zenon
      <3>5. Moves(j)
        BY <1>2, <1>3, <2>1, <3>1, <3>4, InMoves, Zenon DEF list, objects, disk
      <3> QED
        BY <1>4, <2>1, <3>3, <3>4, <3>5, OneMoves, Zenon DEF objects, disk
    <2> QED
      BY <2>2, <2>3, Zenon
  <1>7. CASE SetBackend(j)
    <2>1. PICK s \in States, f \in BOOLEAN : Report(j, s, f)
      BY <1>1, <1>7, Zenon DEF SetBackend, Coroutine, NewState, States
    <2>2. /\ job' \in [Jobs -> Coroutine] /\ \A i \in Jobs \ {j} : job'[i] = job[i]
          /\ job'[j].pc = "stateDone" /\ job'[j].tunnel = t
      BY <1>1, <2>1, ReportFacts, ZenonT(60)
    <2>3. running' \in [tunnel: Objects, config: Configs] \cup {Nothing} /\ state' \in [Objects -> States]
      <3>1. job[j].config \in Configs \cup {None}
        BY <1>1, Zenon DEF Coroutine
      <3> QED
        BY <1>1, <1>3, <1>7, <3>1, BackendTypes, Zenon DEF SetBackend
    <2>4. UNCHANGED <<list, completed, name, config, disk>>
      BY <1>7, Zenon DEF SetBackend
    <2>5. Moves(j)
      BY <1>2, <1>3, <2>2, <2>4, InMoves, Zenon DEF list, disk
    <2> QED
      BY <2>2, <2>3, <2>4, <2>5, OneMoves, Zenon DEF disk
  <1>8. CASE SaveCheck(j)
    <2>1. UNCHANGED <<list, objects, disk, completed, running, overlap>>
      BY <1>8, Zenon DEF SaveCheck
    <2>2. CASE SaveFails(j)
      <3>1. /\ job' \in [Jobs -> Coroutine] /\ \A i \in Jobs \ {j} : job'[i] = job[i]
            /\ job'[j].pc = "idle" /\ job'[j].tunnel = None
        BY <1>1, <2>2, EndFacts, IdleFacts, Zenon DEF SaveFails
      <3>2. Moves(j)
        BY <1>8, <2>1, <3>1, Ends, Zenon DEF SaveCheck, At, list, objects, disk
      <3> QED
        BY <1>4, <2>1, <3>1, <3>2, OneMoves, Zenon DEF objects, disk
    <2>3. CASE ~SaveFails(j)
      <3> DEFINE r == [job[j] EXCEPT !.pc = "saveWrite", !.name = name[t]]
      <3>1. job' = [job EXCEPT ![j] = r] /\ job[j].pc = "saveCheck"
        BY <1>8, <2>3, Zenon DEF SaveCheck, At
      <3>2. r \in Coroutine /\ r.pc = "saveWrite" /\ r.tunnel = t /\ r.config = job[j].config /\ r.name = name[t]
        BY <1>1, <1>3, Zenon DEF Coroutine, Labels
      <3>3. job' \in [Jobs -> Coroutine] /\ job'[j] = r /\ \A i \in Jobs \ {j} : job'[i] = job[i]
        <4> HIDE DEF r
        <4> QED
          BY <1>1, <3>1, <3>2, SetFacts, Zenon
      <3>4. /\ job'[j].pc = "saveWrite" /\ job'[j].tunnel = t /\ job'[j].config \in Configs
            /\ job'[j].name = name[t]
        BY <1>3, <3>1, <3>2, <3>3, Zenon
      <3>5. Moves(j)
        BY <1>2, <1>3, <2>1, <3>4, InMoves, Zenon DEF list, objects, disk
      <3> QED
        BY <1>4, <2>1, <3>3, <3>4, <3>5, OneMoves, Zenon DEF objects, disk
    <2> QED
      BY <2>2, <2>3, Zenon
  <1> QED
    BY <1>5, <1>6, <1>7, <1>8, Zenon

\* A coroutine that begins or goes on with restoreState.
LEMMA RestoringMoves ==
  ASSUME StoreInv, NEW j \in Jobs, UNCHANGED <<tunnelMap, name, files, completed>>,
         (job[j].pc = "idle" /\ completed) \/ job[j].pc \in {"restore", "restoring"},
         job'[j].pc = "restoring", job'[j].tunnel = None, job'[j].seen \subseteq tunnelMap
  PROVE  Moves(j)
  <1>1. ~Out(j) /\ ~Out(j)' /\ ~Reserves(j) /\ ~Reserves(j)' /\ ~Creating(j)' /\ Loader(j)'
    BY Zenon DEF Out, Reserves, Creating, Loader
  <1>2. LocalOK(j)'
    BY <1>1, Zenon DEF LocalOK, In
  <1>3. Loader(j) \/ completed
    BY Zenon DEF Loader
  <1> QED
    BY <1>1, <1>2, <1>3, Zenon DEF Moves

\* Beginning an operation on a listed tunnel preserves the invariant,
\* setTunnelConfig with its first call of the backend.
LEMMA BeginKeeps ==
  ASSUME StoreInv, NEW j \in Jobs, NEW t \in Objects, UNCHANGED overlap,
         \/ getTunnelConfig(j, t)
         \/ \E s \in States \cup {"TOGGLE"} : setTunnelState(j, t, s)
         \/ \E c \in Configs : setTunnelConfig(j, t, c)
  PROVE  StoreInv'
  <1>1. TypeOK /\ t \in tunnelMap /\ Begin(j, t)
    BY Zenon DEF StoreInv, getTunnelConfig, setTunnelState, setTunnelConfig
  <1>2. job[j].pc = "idle" /\ \A i \in Jobs : job[i].tunnel # t
    BY <1>1, BeginFacts, Zenon
  <1>3. running \in [tunnel: Objects, config: Configs] \cup {Nothing} /\ state \in [Objects -> States]
    BY <1>1, Zenon DEF TypeOK
  <1>4. CASE getTunnelConfig(j, t)
    <2> DEFINE r == [Idle EXCEPT !.pc = "load", !.tunnel = t]
    <2>1. r \in Coroutine /\ r.pc = "load" /\ r.tunnel = t
      BY Zenon DEF Idle, Coroutine, Labels, States
    <2>2. job' = [job EXCEPT ![j] = r] /\ UNCHANGED <<list, completed, objects, disk, running>>
      BY <1>4, Zenon DEF getTunnelConfig
    <2>3. job' \in [Jobs -> Coroutine] /\ job'[j] = r /\ \A i \in Jobs \ {j} : job'[i] = job[i]
      <3> HIDE DEF r
      <3> QED
        BY <1>1, <2>1, <2>2, SetFacts, Zenon
    <2>4. job'[j].pc = "load" /\ job'[j].tunnel = t
      BY <2>1, <2>3, Zenon
    <2>5. Moves(j)
      BY <1>1, <1>2, <2>2, <2>4, InMoves, Zenon DEF list, objects, disk
    <2> QED
      BY <1>2, <1>3, <2>2, <2>3, <2>4, <2>5, OneMoves, Zenon DEF objects, disk
  <1>5. ASSUME NEW s \in States \cup {"TOGGLE"}, setTunnelState(j, t, s) PROVE StoreInv'
    <2> DEFINE r == [Idle EXCEPT !.pc = "getConfig", !.tunnel = t, !.want = s, !.orig = state[t]]
    <2>1. r \in Coroutine /\ r.pc = "getConfig" /\ r.tunnel = t
      <3>1. state[t] \in States
        BY <1>3, Zenon
      <3> QED
        BY <3>1, Zenon DEF Idle, Coroutine, Labels
    <2>2. job' = [job EXCEPT ![j] = r] /\ UNCHANGED <<list, completed, objects, disk, running>>
      BY <1>5, Zenon DEF setTunnelState
    <2>3. job' \in [Jobs -> Coroutine] /\ job'[j] = r /\ \A i \in Jobs \ {j} : job'[i] = job[i]
      <3> HIDE DEF r
      <3> QED
        BY <1>1, <2>1, <2>2, SetFacts, Zenon
    <2>4. job'[j].pc = "getConfig" /\ job'[j].tunnel = t
      BY <2>1, <2>3, Zenon
    <2>5. Moves(j)
      BY <1>1, <1>2, <2>2, <2>4, InMoves, Zenon DEF list, objects, disk
    <2> QED
      BY <1>2, <1>3, <2>2, <2>3, <2>4, <2>5, OneMoves, Zenon DEF objects, disk
  <1>6. ASSUME NEW c \in Configs, setTunnelConfig(j, t, c) PROVE StoreInv'
    <2> DEFINE r == [Idle EXCEPT !.pc = "saveCheck", !.tunnel = t, !.config = c]
    <2>1. UNCHANGED <<list, completed, name, config, disk>>
      BY <1>6, Zenon DEF setTunnelConfig
    <2>2. running' \in [tunnel: Objects, config: Configs] \cup {Nothing} /\ state' \in [Objects -> States]
      BY <1>1, <1>6, BackendTypes, Zenon DEF setTunnelConfig
    <2>3. CASE job' = [job EXCEPT ![j] = r]
      <3>1. r \in Coroutine /\ r.pc = "saveCheck" /\ r.tunnel = t /\ r.config = c
        BY <1>6, Zenon DEF Idle, Coroutine, Labels, States
      <3>2. job' \in [Jobs -> Coroutine] /\ job'[j] = r /\ \A i \in Jobs \ {j} : job'[i] = job[i]
        <4> HIDE DEF r
        <4> QED
          BY <1>1, <2>3, <3>1, SetFacts, Zenon
      <3>3. job'[j].pc = "saveCheck" /\ job'[j].tunnel = t /\ job'[j].config \in Configs
        BY <3>1, <3>2, <1>6, Zenon
      <3>4. Moves(j)
        BY <1>1, <1>2, <2>1, <3>3, InMoves, Zenon DEF list, disk
      <3> QED
        BY <1>2, <2>1, <2>2, <3>2, <3>3, <3>4, OneMoves, Zenon DEF disk
    <2>4. CASE UNCHANGED job
      <3>1. job' \in [Jobs -> Coroutine]
        BY <1>1, <2>4, Zenon DEF TypeOK
      <3>2. Moves(j)
        BY <2>1, <2>4, Stays, Zenon DEF list, disk
      <3> QED
        BY <2>1, <2>2, <2>4, <3>1, <3>2, OneMoves, Zenon DEF disk
    <2> QED
      BY <1>6, <2>3, <2>4, Zenon DEF setTunnelConfig
  <1> QED
    BY <1>4, <1>5, <1>6, Zenon

\* Beginning create, refreshTunnelStates or restoreState, and applying the
\* answer of the backend, preserve the invariant.
LEMMA PlainKeeps ==
  ASSUME StoreInv, NEW j \in Jobs, UNCHANGED overlap,
         \/ \E n \in Names, c \in Configs : create(j, n, c)
         \/ refreshTunnelStates(j) \/ RefreshApply(j)
         \/ restoreState(j) \/ Restore(j)
  PROVE  StoreInv'
  <1>1. TypeOK /\ job[j] \in Coroutine
    BY Zenon DEF StoreInv, TypeOK
  <1>2. running \in [tunnel: Objects, config: Configs] \cup {Nothing} /\ state \in [Objects -> States]
    BY <1>1, Zenon DEF TypeOK
  <1>3. ASSUME NEW n \in Names, NEW c \in Configs, create(j, n, c) PROVE StoreInv'
    <2> DEFINE r == [Idle EXCEPT !.pc = "createFile", !.name = n, !.config = c]
    <2>1. r \in Coroutine /\ r.pc = "createFile" /\ r.tunnel = None /\ r.name = n /\ r.config = c
      BY Zenon DEF Idle, Coroutine, Labels, States
    <2>2. /\ job' = [job EXCEPT ![j] = r] /\ UNCHANGED <<list, completed, objects, disk, running>>
          /\ job[j].pc = "idle" /\ (completed \/ overlap = "early")
      BY <1>3, Zenon DEF create, Begin, At, StoreInv
    <2>3. job' \in [Jobs -> Coroutine] /\ job'[j] = r /\ \A i \in Jobs \ {j} : job'[i] = job[i]
      <3> HIDE DEF r
      <3> QED
        BY <1>1, <2>1, <2>2, SetFacts, Zenon
    <2>4. job'[j].pc = "createFile" /\ job'[j].tunnel = None /\ job'[j].name \in Names /\ job'[j].config \in Configs
      BY <2>1, <2>3, Zenon
    <2>5. LocalOK(j)'
      BY <2>4, Zenon DEF LocalOK, Out, In, Creating
    <2>6. Moves(j)
      BY <2>2, <2>4, <2>5, PlainMoves, Zenon DEF list, objects, disk
    <2> QED
      BY <1>2, <2>2, <2>3, <2>4, <2>6, OneMoves, Zenon DEF objects, disk
  <1>4. CASE refreshTunnelStates(j)
    <2> DEFINE r == [Idle EXCEPT !.pc = "refreshApply", !.seen = runningTunnelNames]
    <2>1. runningTunnelNames \subseteq Names \cup Objects \cup {None}
      BY <1>1, <1>2 DEF runningTunnelNames, TypeOK, Nothing
    <2>2. r \in Coroutine /\ r.pc = "refreshApply" /\ r.tunnel = None
      BY <2>1, Zenon DEF Idle, Coroutine, Labels, States
    <2>3. job' = [job EXCEPT ![j] = r] /\ UNCHANGED <<list, completed, objects, disk, running>> /\ job[j].pc = "idle"
      BY <1>4, Zenon DEF refreshTunnelStates, Begin, At
    <2>4. job' \in [Jobs -> Coroutine] /\ job'[j] = r /\ \A i \in Jobs \ {j} : job'[i] = job[i]
      <3> HIDE DEF r
      <3> QED
        BY <1>1, <2>2, <2>3, SetFacts, Zenon
    <2>5. job'[j].pc = "refreshApply" /\ job'[j].tunnel = None
      BY <2>2, <2>4, Zenon
    <2>6. LocalOK(j)'
      BY <2>5, Zenon DEF LocalOK, Out, In, Creating
    <2>7. Moves(j)
      BY <2>3, <2>5, <2>6, PlainMoves, Zenon DEF list, objects, disk
    <2> QED
      BY <1>2, <2>3, <2>4, <2>5, <2>7, OneMoves, Zenon DEF objects, disk
  <1>5. CASE RefreshApply(j)
    <2>1. End(j) /\ UNCHANGED <<list, completed, name, config, disk, running>> /\ job[j].pc = "refreshApply"
      BY <1>5, Zenon DEF RefreshApply, At
    <2>2. /\ job' \in [Jobs -> Coroutine] /\ \A i \in Jobs \ {j} : job'[i] = job[i]
          /\ job'[j].pc = "idle" /\ job'[j].tunnel = None
      BY <1>1, <2>1, EndFacts, IdleFacts, Zenon
    <2>3. state' \in [Objects -> States]
      BY <1>2, <1>5, Zenon DEF RefreshApply, States
    <2>4. Moves(j)
      BY <2>1, <2>2, Ends, Zenon DEF list, disk
    <2> QED
      BY <1>2, <2>1, <2>2, <2>3, <2>4, OneMoves, Zenon DEF disk
  <1>6. CASE restoreState(j) \/ Restore(j)
    <2>1. ToRestore \subseteq tunnelMap /\ ToRestore \subseteq Objects
      BY <1>1, Zenon DEF ToRestore, TypeOK
    <2>2. UNCHANGED <<list, completed, objects, disk, running>>
      BY <1>6, Zenon DEF restoreState, Restore
    <2>3. (job[j].pc = "idle" /\ completed) \/ job[j].pc = "restore"
      BY <1>6, Zenon DEF restoreState, Restore, Begin, At
    <2>4. PICK q \in Coroutine : /\ job' = [job EXCEPT ![j] = [q EXCEPT !.pc = "restoring", !.seen = ToRestore]]
                                 /\ q.tunnel = None
      <3>1. CASE restoreState(j)
        BY <3>1, IdleFacts, Zenon DEF restoreState
      <3>2. CASE Restore(j)
        <4>1. job[j].tunnel = None
          BY <3>2, Zenon DEF StoreInv, LocalOK, Out, In, Restore, At
        <4> QED
          BY <1>1, <3>2, <4>1, Zenon DEF Restore
      <3> QED
        BY <1>6, <3>1, <3>2, Zenon
    <2> DEFINE r == [q EXCEPT !.pc = "restoring", !.seen = ToRestore]
    <2>5. r \in Coroutine /\ r.pc = "restoring" /\ r.tunnel = None /\ r.seen = ToRestore
      <3>1. q.tunnel = None /\ ToRestore \in SUBSET (Names \cup Objects \cup {None}) /\ "restoring" \in Labels
        BY <2>1, <2>4, Zenon DEF Labels
      <3> QED
        BY <3>1, Zenon DEF Coroutine
    <2>6. job' \in [Jobs -> Coroutine] /\ job'[j] = r /\ \A i \in Jobs \ {j} : job'[i] = job[i]
      <3>1. job' = [job EXCEPT ![j] = r]
        BY <2>4, Zenon
      <3> HIDE DEF r
      <3> QED
        BY <1>1, <2>5, <3>1, SetFacts, Zenon
    <2>7. job'[j].pc = "restoring" /\ job'[j].tunnel = None /\ job'[j].seen \subseteq tunnelMap
      BY <2>1, <2>5, <2>6, Zenon
    <2>8. Moves(j)
      BY <2>2, <2>3, <2>7, RestoringMoves, Zenon DEF list, objects, disk
    <2> QED
      BY <1>2, <2>2, <2>6, <2>7, <2>8, OneMoves, Zenon DEF objects, disk
  <1> QED
    BY <1>3, <1>4, <1>5, <1>6, Zenon

\* restoreState starting setTunnelState for one tunnel preserves the invariant.
LEMMA RestoreOneKeeps ==
  ASSUME StoreInv, NEW j \in Jobs, NEW i \in Jobs, NEW t \in Objects, UNCHANGED overlap, RestoreOne(j, i, t)
  PROVE  StoreInv'
  <1> DEFINE q == [job[j] EXCEPT !.seen = job[j].seen \ {t}]
             r == [Idle EXCEPT !.pc = "getConfig", !.tunnel = t, !.want = "UP", !.orig = state[t], !.restored = TRUE]
  <1>1. /\ TypeOK /\ job \in [Jobs -> Coroutine] /\ state[t] \in States
        /\ job[j].pc = "restoring" /\ job[i].pc = "idle" /\ t \in job[j].seen
        /\ \A k \in Jobs : job[k].tunnel # t
        /\ UNCHANGED <<list, completed, objects, disk, running>>
    BY Zenon DEF StoreInv, TypeOK, RestoreOne, At
  <1>2. /\ job[j].tunnel = None /\ job[j].seen \subseteq tunnelMap
        /\ job[j].seen \in SUBSET (Names \cup Objects \cup {None}) /\ job[j] \in Coroutine
    BY <1>1, Zenon DEF StoreInv, LocalOK, Out, In, Coroutine
  <1>3. q \in Coroutine /\ q.pc = "restoring" /\ q.tunnel = None /\ q.seen \subseteq tunnelMap
    BY <1>1, <1>2, Zenon DEF Coroutine
  <1>4. r \in Coroutine /\ r.pc = "getConfig" /\ r.tunnel = t
    BY <1>1, Zenon DEF Idle, Coroutine, Labels, States
  <1>5. job' = [job EXCEPT ![j] = q, ![i] = r]
    BY Zenon DEF RestoreOne
  <1>6. /\ job' \in [Jobs -> Coroutine] /\ job'[j] = q /\ job'[i] = r
        /\ \A k \in Jobs \ {i, j} : job'[k] = job[k]
    <2> HIDE DEF q, r
    <2>1. i # j
      BY <1>1, Zenon
    <2> QED
      BY <1>1, <1>3, <1>4, <1>5, <2>1, Zenon
  <1>7. /\ job'[j].pc = "restoring" /\ job'[j].tunnel = None /\ job'[j].seen \subseteq tunnelMap
        /\ job'[i].pc = "getConfig" /\ job'[i].tunnel = t /\ t \in tunnelMap
    BY <1>1, <1>2, <1>3, <1>4, <1>6, Zenon
  <1> HIDE DEF q, r
  <1>8. Moves(j)
    BY <1>1, <1>7, RestoringMoves, Zenon DEF list, objects, disk
  <1>9. Moves(i)
    BY <1>1, <1>7, InMoves, Zenon DEF list, objects, disk
  <1>10. \A k \in Jobs \ {i, j} : Moves(k)
    BY <1>1, <1>6, Stays, Zenon DEF list, objects, disk
  <1>11. Exclusive'
    <2>1. \A k \in Jobs : k # i => job'[k].tunnel = job[k].tunnel
      BY <1>2, <1>6, <1>7, Zenon
    <2> QED
      BY <1>1, <1>7, <2>1 DEF StoreInv, KeysOK, Exclusive
  <1>12. TypeOK'
    BY <1>1, <1>6, Zenon DEF TypeOK, list, objects, disk
  <1>13. LastUsedOK'
    BY <1>1, Zenon DEF StoreInv, LastUsedOK, list, objects
  <1> QED
    BY <1>1, <1>8, <1>9, <1>10, <1>11, <1>12, <1>13, LightStep, Zenon DEF list, objects, disk

\* The end of setTunnelState, with onStateChanged and saveState, preserves
\* the invariant.
LEMMA StateDoneKeeps ==
  ASSUME StoreInv, NEW j \in Jobs, UNCHANGED overlap, StateDone(j)
  PROVE  StoreInv'
  <1> DEFINE t == job[j].tunnel
  <1>1. /\ TypeOK /\ job \in [Jobs -> Coroutine] /\ job[j].pc = "stateDone" /\ t \in tunnelMap
        /\ UNCHANGED <<tunnelMap, completed, name, config, files, running>>
    BY Zenon DEF StoreInv, TypeOK, LocalOK, In, StateDone, At
  <1>2. /\ job' \in [Jobs -> Coroutine] /\ job'[j] = Idle
        /\ \A i \in Jobs \ {j} :
              \/ job'[i] = job[i]
              \/ At(i, "restoring") /\ job'[i] = [job[i] EXCEPT !.failed = TRUE]
    <2>1. \A i \in Jobs : [job[i] EXCEPT !.failed = TRUE] \in Coroutine
      <3> TAKE i \in Jobs
      <3>1. job[i] \in Coroutine
        BY <1>1, Zenon
      <3> QED
        BY <3>1, Zenon DEF Coroutine
    <2>2. job' = [i \in Jobs |-> IF i = j THEN Idle
                                 ELSE IF At(i, "restoring") /\ job[j].restored /\ job[j].failed
                                 THEN [job[i] EXCEPT !.failed = TRUE] ELSE job[i]]
      BY Zenon DEF StateDone
    <2> QED
      BY <1>1, <2>1, <2>2, IdleFacts, Zenon
  <1>3. Moves(j)
    BY <1>1, <1>2, IdleFacts, Ends, Zenon
  <1>4. \A i \in Jobs \ {j} : Moves(i) /\ job'[i].tunnel = job[i].tunnel
    <2> TAKE i \in Jobs \ {j}
    <2>1. CASE job'[i] = job[i]
      BY <1>1, <2>1, Stays, Zenon
    <2>2. CASE At(i, "restoring") /\ job'[i] = [job[i] EXCEPT !.failed = TRUE]
      <3>1. job[i] \in Coroutine
        BY <1>1, Zenon
      <3>2. job'[i].pc = "restoring" /\ job'[i].tunnel = job[i].tunnel /\ job'[i].seen = job[i].seen
        BY <2>2, <3>1, Zenon DEF Coroutine, At
      <3>3. job[i].pc = "restoring" /\ job[i].tunnel = None /\ job[i].seen \subseteq tunnelMap
        BY <2>2, Zenon DEF StoreInv, LocalOK, Out, In, At
      <3> QED
        BY <1>1, <3>2, <3>3, RestoringMoves, Zenon
    <2> QED
      BY <1>2, <2>1, <2>2, Zenon
  <1>5. Exclusive'
    BY <1>2, <1>4, IdleFacts DEF StoreInv, KeysOK, Exclusive
  <1>6. \/ lastUsedTunnel' = t /\ ((savedLast' = savedLast /\ lastUsedTunnel = t) \/ savedLast' = name[t])
        \/ UNCHANGED <<lastUsedTunnel, savedLast>>
    BY <1>1, TunnelManagerAssumption, Zenon DEF StateDone, SetLastUsed, TypeOK
  <1>7. LastUsedOK'
    BY <1>1, <1>6, Zenon DEF StoreInv, LastUsedOK
  <1>8. TypeOK'
    <2>1. t \in Objects /\ name[t] \in Names /\ job[j].orig \in States
      BY <1>1, Zenon DEF StoreInv, KeysOK, TypeOK, Coroutine
    <2>2. lastUsedTunnel' \in Objects \cup {None} /\ savedLast' \in Names \cup {None}
      BY <1>1, <1>6, <2>1, Zenon DEF TypeOK
    <2>3. state' \in [Objects -> States]
      BY <1>1, <2>1, Zenon DEF StateDone, TypeOK
    <2>4. savedRunning' \subseteq Names
      BY ZenonT(60) DEF StateDone, StoreInv, KeysOK
    <2> QED
      BY <1>1, <1>2, <2>2, <2>3, <2>4, Zenon DEF TypeOK
  <1>9. \A i \in Jobs : Moves(i)
    BY <1>3, <1>4, Zenon
  <1> QED
    BY <1>1, <1>5, <1>7, <1>8, <1>9, LightStep, Zenon

\* A tunnel the system turns off changes no file and no name.
LEMMA RevokeKeeps ==
  ASSUME StoreInv, UNCHANGED overlap, Revoke
  PROVE  StoreInv'
  <1>1. TypeOK /\ UNCHANGED <<list, completed, name, config, disk, job>>
    BY Zenon DEF StoreInv, Revoke
  <1>2. TypeOK'
    <2>1. running' = Nothing /\ state' \in [Objects -> States]
      BY <1>1, Zenon DEF Revoke, TypeOK, States
    <2> QED
      BY <1>1, <2>1, Zenon DEF TypeOK, list, disk
  <1>3. \A i \in Jobs : Moves(i)
    BY <1>1, Stays, Zenon DEF list, disk
  <1>4. Exclusive' /\ LastUsedOK'
    BY <1>1, Zenon DEF StoreInv, KeysOK, Exclusive, LastUsedOK, list
  <1> QED
    BY <1>1, <1>2, <1>3, <1>4, LightStep, Zenon DEF list, disk

\* createNewFile succeeds only for a name nobody uses.
LEMMA AbsentIsFree ==
  ASSUME StoreInv, NEW n, files[n] = "absent"
  PROVE  /\ \A t \in tunnelMap : name[t] # n
         /\ \A i \in Jobs : /\ Out(i) => Key(i) # n
                            /\ Reserves(i) => job[i].name # n
                            /\ job[i].pc = "tunnelsLoaded" => n \notin job[i].seen
  <1>1. \A i \in Jobs : Reserves(i) => files[job[i].name] # "absent"
    BY TunnelManagerAssumption, Zenon DEF StoreInv, FilesOK, FileOK, Reserves, LocalOK, Creating
  <1> QED
    BY <1>1, Zenon DEF StoreInv, FilesOK, FileOK

\* A coroutine that a step of another leaves as it was, with all it counts on.
Unmoved(i) ==
    /\ LocalOK(i)' /\ FileOK(i)' /\ JobCacheOK(i)'
    /\ (Out(i)' <=> Out(i)) /\ (Out(i) => Key(i)' = Key(i))
    /\ (Reserves(i)' <=> Reserves(i)) /\ (Creating(i)' <=> Creating(i))
    /\ LoadMoves(i)

\* A coroutine stays Unmoved when the files in N are not its own and its
\* tunnel is not touched.
LEMMA Bystander ==
  ASSUME StoreInv, NEW i \in Jobs, job'[i] = job[i], NEW N,
         \A m \in Names : m \notin N => files'[m] = files[m],
         job[i].tunnel # None => name'[job[i].tunnel] = name[job[i].tunnel] /\ config'[job[i].tunnel] = config[job[i].tunnel],
         Out(i) => Key(i) \notin N /\ job[i].tunnel \notin tunnelMap',
         In(i) => job[i].tunnel \in tunnelMap',
         job[i].pc = "restoring" => job[i].seen \subseteq tunnelMap',
         Reserves(i) => job[i].name \notin N,
         job[i].pc \in {"loaded", "loadedFor", "configDone"} => name[job[i].tunnel] \notin N,
         job[i].pc = "tunnelsLoaded" => \A n \in N : n \in job[i].seen => files'[n] # "absent"
  PROVE  Unmoved(i)
  <1>1. LocalOK(i) /\ FileOK(i) /\ JobCacheOK(i)
    BY Zenon DEF StoreInv, FilesOK, CachedOK
  <1>2. /\ (Out(i)' <=> Out(i)) /\ (In(i)' <=> In(i)) /\ (Reserves(i)' <=> Reserves(i))
        /\ (Creating(i)' <=> Creating(i)) /\ (Loader(i)' <=> Loader(i)) /\ LoadMoves(i)
    BY Zenon DEF Out, In, Reserves, Creating, Loader, LoadMoves
  <1>3. Out(i) \/ In(i) => job[i].tunnel \in Objects /\ job[i].tunnel # None
    BY <1>1, TunnelManagerAssumption, ZenonT(60) DEF LocalOK, StoreInv, TypeOK
  <1>4. Out(i) => Key(i)' = Key(i) /\ Key(i) \in Names
    BY <1>1, <1>3, Zenon DEF Key, LocalOK
  <1>5. LocalOK(i)'
    BY <1>1, <1>2, <1>3, Zenon DEF LocalOK
  <1>6. FileOK(i)'
    BY <1>1, <1>2, <1>4, Zenon DEF FileOK, LocalOK, Reserves, Creating
  <1>7. job[i].pc \in {"loaded", "loadedFor", "saveWrite", "configDone"} =>
           In(i) /\ name'[job[i].tunnel] = name[job[i].tunnel] /\ name[job[i].tunnel] \in Names
    BY <1>1, <1>3, Zenon DEF In, LocalOK, StoreInv, KeysOK
  <1>8. JobCacheOK(i)'
    BY <1>1, <1>2, <1>3, <1>4, <1>7, Zenon DEF JobCacheOK
  <1> QED
    BY <1>2, <1>4, <1>5, <1>6, <1>8, Zenon DEF Unmoved

\* No file but those of n and m changes.
OnlyFiles(n, m) == \A k \in Names : k # n /\ k # m => files'[k] = files[k]

\* The coroutine i does not count on the file of n.
Clear(i, n) ==
    /\ Out(i) => Key(i) # n
    /\ Reserves(i) => job[i].name # n
    /\ job[i].pc \in {"loaded", "loadedFor", "configDone"} => name[job[i].tunnel] # n
    /\ job[i].pc = "tunnelsLoaded" /\ n \in job[i].seen => files'[n] # "absent"

\* A step that changes two files only leaves a coroutine clear of both Unmoved.
LEMMA FileBystander ==
  ASSUME StoreInv, NEW i \in Jobs, job'[i] = job[i], UNCHANGED <<tunnelMap, name, config>>,
         NEW n, NEW m, OnlyFiles(n, m), Clear(i, n), Clear(i, m)
  PROVE  Unmoved(i)
  <1> DEFINE N == {n, m}
  <1>1. LocalOK(i)
    BY Zenon DEF StoreInv
  <1>2. /\ \A k \in Names : k \notin N => files'[k] = files[k]
        /\ Out(i) => Key(i) \notin N /\ job[i].tunnel \notin tunnelMap'
        /\ Reserves(i) => job[i].name \notin N
        /\ job[i].pc \in {"loaded", "loadedFor", "configDone"} => name[job[i].tunnel] \notin N
        /\ job[i].pc = "tunnelsLoaded" => \A k \in N : k \in job[i].seen => files'[k] # "absent"
    BY <1>1, Zenon DEF OnlyFiles, Clear, LocalOK
  <1>3. /\ In(i) => job[i].tunnel \in tunnelMap'
        /\ job[i].pc = "restoring" => job[i].seen \subseteq tunnelMap'
    BY <1>1, Zenon DEF LocalOK
  <1> HIDE DEF N
  <1> QED
    BY <1>2, <1>3, Bystander, Zenon

\* No file is forgotten when each one kept is accounted for again.
LEMMA AccountsStep ==
  ASSUME StoreInv, UNCHANGED completed, \A i \in Jobs : LoadMoves(i),
         \A m \in Names : Kept(m)' => Accounted(m)' \/ (Kept(m) /\ (Accounted(m) => Accounted(m)'))
  PROVE  AccountsOK'
  <1>1. completed' \/ (\E j \in Jobs : Loader(j)') => completed \/ (\E j \in Jobs : Loader(j))
    BY Zenon DEF LoadMoves
  <1> QED
    BY <1>1, Zenon DEF StoreInv, AccountsOK

\* The step leaves the tunnel of the coroutine i as it is, in or out of the list.
Apart(i) ==
    /\ job[i].tunnel # None => name'[job[i].tunnel] = name[job[i].tunnel] /\ config'[job[i].tunnel] = config[job[i].tunnel]
    /\ Out(i) => job[i].tunnel \notin tunnelMap'
    /\ In(i) => job[i].tunnel \in tunnelMap'
    /\ job[i].pc = "restoring" => job[i].seen \subseteq tunnelMap'

\* A step that changes no file leaves a coroutine Apart from it Unmoved.
LEMMA ListBystander ==
  ASSUME StoreInv, NEW i \in Jobs, job'[i] = job[i], UNCHANGED files, Apart(i)
  PROVE  Unmoved(i)
  <1> DEFINE N == {}
  <1>1. \A k : k \notin N
    BY Zenon
  <1> HIDE DEF N
  <1> QED
    BY <1>1, Bystander, Zenon DEF Apart

\* A step that changes one file and the list leaves a coroutine that is clear
\* of the file and Apart Unmoved.
LEMMA BothBystander ==
  ASSUME StoreInv, NEW i \in Jobs, job'[i] = job[i], NEW n, OnlyFiles(n, n), Clear(i, n), Apart(i)
  PROVE  Unmoved(i)
  <1> DEFINE N == {n}
  <1>1. \A k : k \in N <=> k = n
    BY Zenon
  <1> HIDE DEF N
  <1> QED
    BY <1>1, Bystander DEF Apart, OnlyFiles, Clear

\* The coroutine i takes up no new name.
KeepsKeys(i) ==
    /\ Out(i)' => Out(i) /\ Key(i)' = Key(i)
    /\ Reserves(i)' => Reserves(i) /\ job'[i].name = job[i].name /\ (Creating(i) => Creating(i)')

\* Names stay keys when nobody takes up a new one.
LEMMA KeysStep ==
  ASSUME StoreInv, UNCHANGED overlap, Exclusive', \A i \in Jobs : KeepsKeys(i),
         \A t \in tunnelMap' : t \in tunnelMap /\ name'[t] = name[t]
  PROVE  KeysOK'
  BY DEF StoreInv, KeysOK, KeepsKeys

\* The parts of the invariant, put together.
LEMMA Assemble ==
  ASSUME StoreInv, UNCHANGED <<completed, overlap>>, tunnelMap' = tunnelMap \/ completed \/ overlap = "early",
         \A i \in Jobs : LocalOK(i)' /\ FileOK(i)' /\ JobCacheOK(i)' /\ LoadMoves(i),
         TypeOK', KeysOK', LastUsedOK',
         \A t \in tunnelMap' : files'[name'[t]] # "absent" /\ CacheOK(t)',
         \A m \in Names : Kept(m)' => Accounted(m)' \/ (Kept(m) /\ (Accounted(m) => Accounted(m)'))
  PROVE  StoreInv'
  <1>1. LoadingOK' /\ AccountsOK'
    BY LoadingStep, AccountsStep, Zenon
  <1>2. FilesOK' /\ CachedOK'
    BY Zenon DEF FilesOK, CachedOK
  <1>3. overlap' \in {"none", "early", "other"}
    BY Zenon DEF StoreInv
  <1> QED
    BY <1>1, <1>2, <1>3, Zenon DEF StoreInv

-----------------------------------------------------------------------------
(* The steps that make, write or delete a file, or add a tunnel to the list. *)

\* create: createNewFile preserves the invariant.
LEMMA CreateFileKeeps ==
  ASSUME StoreInv, NEW j \in Jobs, UNCHANGED overlap, CreateFile(j)
  PROVE  StoreInv'
  <1>1. PICK n \in Names : n = job[j].name
    BY Zenon DEF StoreInv, LocalOK, Creating, CreateFile, At
  <1>2. /\ TypeOK /\ job[j].pc = "createFile" /\ job[j].config \in Configs /\ job[j].tunnel = None
        /\ UNCHANGED <<list, completed, objects, savedRunning, running>>
    BY Zenon DEF StoreInv, LocalOK, Creating, Out, In, CreateFile, At
  <1>3. CASE UNCHANGED files /\ End(j)
    <2>1. /\ job' \in [Jobs -> Coroutine] /\ \A i \in Jobs \ {j} : job'[i] = job[i]
          /\ job'[j].pc = "idle" /\ job'[j].tunnel = None
      BY <1>2, <1>3, EndFacts, IdleFacts, Zenon
    <2>2. Moves(j)
      BY <1>2, <1>3, <2>1, Ends, Zenon DEF list, objects
    <2>3. running' \in [tunnel: Objects, config: Configs] \cup {Nothing} /\ state' \in [Objects -> States]
      BY <1>2, Zenon DEF TypeOK, objects
    <2> QED
      BY <1>2, <1>3, <2>1, <2>2, <2>3, OneMoves, Zenon DEF objects
  <1>4. CASE createNewFile(n) /\ Goto(j, "createWrite")
    <2>1. /\ job' \in [Jobs -> Coroutine] /\ \A i \in Jobs : i # j => job'[i] = job[i]
          /\ job'[j].pc = "createWrite" /\ job'[j].tunnel = None /\ job'[j].name = n /\ job'[j].config = job[j].config
      BY <1>1, <1>2, <1>4, GotoFacts, LabelFacts, Zenon
    <2>2. /\ files[n] = "absent" /\ files' \in [Names -> Configs \cup {"empty", "absent"}]
          /\ files'[n] = "empty" /\ \A m \in Names : m # n => files'[m] = files[m]
      BY <1>2, <1>4, Zenon DEF createNewFile, TypeOK
    <2>3. UNCHANGED <<tunnelMap, name, config, completed>>
      BY <1>2, Zenon DEF list, objects
    <2>4. /\ \A t \in tunnelMap : name[t] # n
          /\ \A i \in Jobs : /\ Out(i) => Key(i) # n
                             /\ Reserves(i) => job[i].name # n
                             /\ job[i].pc = "tunnelsLoaded" => n \notin job[i].seen
      BY <2>2, AbsentIsFree, Zenon
    <2>5. /\ Reserves(j)' /\ ~Out(j) /\ ~Out(j)' /\ ~Reserves(j) /\ Creating(j)' /\ LocalOK(j)' /\ LoadMoves(j)
          /\ FileOK(j)' /\ JobCacheOK(j)'
      BY <1>1, <1>2, <2>1, <2>2, Zenon DEF LocalOK, FileOK, JobCacheOK, LoadMoves, Out, In, Creating, Reserves, Loader
    <2>6. \A i \in Jobs : i # j => Unmoved(i)
      <3>1. OnlyFiles(n, n)
        BY <2>2, Zenon DEF OnlyFiles
      <3>2. \A i \in Jobs : Clear(i, n)
        BY <2>4, Zenon DEF Clear, StoreInv, LocalOK, In
      <3> QED
        BY <2>1, <2>3, <3>1, <3>2, FileBystander, Zenon
    <2>7. TypeOK'
      BY <1>2, <2>1, <2>2, Zenon DEF TypeOK, list, objects
    <2>8. KeysOK'
      <3>1. Exclusive'
        BY <1>2, <2>1 DEF StoreInv, KeysOK, Exclusive
      <3> QED
        BY <2>1, <2>3, <2>4, <2>5, <2>6, <3>1 DEF StoreInv, KeysOK, Unmoved
    <2>9. \A t \in tunnelMap : files'[name[t]] # "absent" /\ CacheOK(t)'
      BY <1>2, <2>1, <2>2, <2>3, <2>4 DEF StoreInv, FilesOK, KeysOK, CachedOK, CacheOK
    <2>10. \A m \in Names : Kept(m)' => Accounted(m)' \/ (Kept(m) /\ (Accounted(m) => Accounted(m)'))
      <3>1. \A m \in Names : Accounted(m) => Accounted(m)'
        BY <1>2, <2>1, <2>3, <2>5, <2>6, Zenon DEF Accounted, containsKey, Unmoved
      <3>2. Accounted(n)'
        BY <2>1, <2>5, Zenon DEF Accounted
      <3>3. \A m \in Names : m # n /\ Kept(m)' => Kept(m)
        BY <2>2, Zenon DEF Kept
      <3> QED
        BY <3>1, <3>2, <3>3, Zenon
    <2>11. LastUsedOK'
      BY <1>2, Zenon DEF StoreInv, LastUsedOK, list, objects
    <2>12. \A i \in Jobs : LocalOK(i)' /\ FileOK(i)' /\ JobCacheOK(i)' /\ LoadMoves(i)
      BY <2>5, <2>6, Zenon DEF Unmoved
    <2> QED
      BY <2>3, <2>7, <2>8, <2>9, <2>10, <2>11, <2>12, Assemble, Zenon
  <1> QED
    BY <1>1, <1>3, <1>4, Zenon DEF CreateFile

\* create: writing the file, or failing to, preserves the invariant.
LEMMA CreateWriteKeeps ==
  ASSUME StoreInv, NEW j \in Jobs, UNCHANGED overlap, CreateWrite(j)
  PROVE  StoreInv'
  <1>1. PICK n \in Names : n = job[j].name
    BY Zenon DEF StoreInv, LocalOK, Creating, CreateWrite, At
  <1>2. PICK c \in Configs : c = job[j].config
    BY Zenon DEF StoreInv, LocalOK, Creating, CreateWrite, At
  <1>3. /\ TypeOK /\ job[j].pc = "createWrite" /\ job[j].tunnel = None
        /\ Reserves(j) /\ Creating(j) /\ ~Out(j) /\ files[n] = "empty"
    BY <1>1, Zenon DEF StoreInv, LocalOK, FilesOK, FileOK, Creating, Reserves, Out, In, CreateWrite, At
  <1>4. UNCHANGED <<tunnelMap, lastUsedTunnel, savedLast, name, state, config, completed, savedRunning, running>>
    BY Zenon DEF CreateWrite, list, objects
  <1>5. /\ files' \in [Names -> Configs \cup {"empty", "absent"}]
        /\ files'[n] \in {c, "empty"} /\ \A m \in Names : m # n => files'[m] = files[m]
    BY <1>1, <1>2, <1>3, Zenon DEF CreateWrite, TypeOK
  <1>6. /\ job' \in [Jobs -> Coroutine] /\ \A i \in Jobs : i # j => job'[i] = job[i]
        /\ job'[j].tunnel = None
        /\ \/ files'[n] = c /\ job'[j].pc = "createAdd" /\ job'[j].name = n /\ job'[j].config = c
           \/ files'[n] = "empty" /\ WritesFail /\ job'[j].pc = "idle"
    <2>1. CASE Goto(j, "createAdd") /\ files' = [files EXCEPT ![job[j].name] = job[j].config]
      BY <1>1, <1>2, <1>3, <2>1, GotoFacts, LabelFacts DEF TypeOK
    <2>2. CASE WritesFail /\ files' = [files EXCEPT ![job[j].name] = "empty"] /\ End(j)
      BY <1>1, <1>3, <2>2, EndFacts, IdleFacts, Zenon DEF TypeOK
    <2> QED
      BY <2>1, <2>2, Zenon DEF CreateWrite
  <1>7. c \notin {"empty", "absent"}
    BY TunnelManagerAssumption, Zenon
  <1>8. /\ \A i \in Jobs : Out(i) => Key(i) # n
        /\ \A i \in Jobs : i # j /\ Reserves(i) => job[i].name # n
        /\ \A i \in Jobs : job[i].pc \in {"loaded", "loadedFor", "configDone"} => name[job[i].tunnel] # n
    <2>1. \A i \in Jobs : Out(i) => Key(i) # n
      BY <1>1, <1>3, Zenon DEF StoreInv, KeysOK
    <2>2. \A i \in Jobs : i # j /\ Reserves(i) => job[i].name # n
      BY <1>1, <1>3, Zenon DEF StoreInv, KeysOK
    <2>3. \A i \in Jobs : job[i].pc \in {"loaded", "loadedFor", "configDone"} => files[name[job[i].tunnel]] \in Configs
      BY Zenon DEF StoreInv, CachedOK, JobCacheOK, LocalOK
    <2> QED
      BY <1>3, <2>1, <2>2, <2>3, TunnelManagerAssumption, Zenon
  <1>9. \A i \in Jobs : i # j => Unmoved(i)
    <2>1. OnlyFiles(n, n)
      BY <1>5, Zenon DEF OnlyFiles
    <2>2. \A i \in Jobs : i # j => Clear(i, n)
      BY <1>5, <1>7, <1>8, Zenon DEF Clear
    <2> QED
      BY <1>4, <1>6, <2>1, <2>2, FileBystander, Zenon
  <1>10. /\ ~Out(j)' /\ LocalOK(j)' /\ LoadMoves(j) /\ FileOK(j)' /\ JobCacheOK(j)'
         /\ (Reserves(j)' => job'[j].name = n /\ Creating(j)')
         /\ (files'[n] = c => Reserves(j)' /\ job'[j].name = n)
    BY <1>3, <1>5, <1>6, <1>7, Zenon DEF LocalOK, FileOK, JobCacheOK, LoadMoves, Out, In, Creating, Reserves, Loader
  <1>11. TypeOK'
    BY <1>3, <1>4, <1>5, <1>6, Zenon DEF TypeOK
  <1>12. KeysOK'
    <2>1. Exclusive'
      BY <1>3, <1>6 DEF StoreInv, KeysOK, Exclusive
    <2> QED
      BY <1>1, <1>3, <1>4, <1>6, <1>8, <1>9, <1>10, <2>1 DEF StoreInv, KeysOK, Unmoved
  <1>13. ASSUME NEW t \in tunnelMap PROVE files'[name[t]] # "absent" /\ CacheOK(t)'
    <2>1. name[t] \in Names /\ files[name[t]] # "absent" /\ CacheOK(t)
      BY <1>13, Zenon DEF StoreInv, KeysOK, FilesOK, CachedOK
    <2>2. CASE name[t] = n
      <3>1. config[t] = None
        <4>1. config[t] \in Configs \cup {None}
          BY <1>3, <1>13, Zenon DEF TypeOK
        <4>2. ~\E i \in Jobs : job[i].pc = "configDone" /\ job[i].tunnel = t
          BY <1>8, <2>2, Zenon
        <4> QED
          BY <1>1, <1>3, <2>1, <2>2, <4>1, <4>2, TunnelManagerAssumption, Zenon DEF CacheOK
      <3> QED
        BY <1>4, <1>5, <1>7, <2>2, <3>1, Zenon DEF CacheOK
    <2>3. CASE name[t] # n
      BY <1>3, <1>4, <1>5, <1>6, <2>1, <2>3, Zenon DEF CacheOK
    <2> QED
      BY <2>2, <2>3, Zenon
  <1>14. \A m \in Names : Kept(m)' => Accounted(m)' \/ (Kept(m) /\ (Accounted(m) => Accounted(m)'))
    <2>1. \A m \in Names : m # n /\ Accounted(m) => Accounted(m)'
      BY <1>1, <1>3, <1>4, <1>6, <1>9, <1>10, Zenon DEF Accounted, containsKey, Unmoved
    <2>2. Kept(n)' => Accounted(n)'
      BY <1>6, <1>7, <1>10, TunnelManagerAssumption, Zenon DEF Kept, Accounted
    <2>3. \A m \in Names : m # n /\ Kept(m)' => Kept(m)
      BY <1>5, Zenon DEF Kept
    <2> QED
      BY <2>1, <2>2, <2>3, Zenon
  <1>15. LastUsedOK'
    BY <1>4, Zenon DEF StoreInv, LastUsedOK
  <1>16. \A i \in Jobs : LocalOK(i)' /\ FileOK(i)' /\ JobCacheOK(i)' /\ LoadMoves(i)
    BY <1>9, <1>10, Zenon DEF Unmoved
  <1> QED
    BY <1>4, <1>11, <1>12, <1>13, <1>14, <1>15, <1>16, Assemble, Zenon

\* create: addToList, or its refusal of a name listed meanwhile, preserves
\* the invariant.
LEMMA CreateAddKeeps ==
  ASSUME StoreInv, NEW j \in Jobs, UNCHANGED overlap, CreateAdd(j)
  PROVE  StoreInv'
  <1>1. PICK n \in Names : n = job[j].name
    BY Zenon DEF StoreInv, LocalOK, Creating, CreateAdd, At
  <1>2. PICK c \in Configs : c = job[j].config
    BY Zenon DEF StoreInv, LocalOK, Creating, CreateAdd, At
  <1>3. /\ TypeOK /\ job[j].pc = "createAdd" /\ job[j].tunnel = None
        /\ Reserves(j) /\ Creating(j) /\ ~Out(j) /\ files[n] = c
    BY <1>1, <1>2, Zenon DEF StoreInv, LocalOK, FilesOK, FileOK, Creating, Reserves, Out, In, CreateAdd, At
  <1>4. UNCHANGED <<lastUsedTunnel, savedLast, files, completed, savedRunning, running>>
    BY Zenon DEF CreateAdd, disk
  <1>5. /\ job' \in [Jobs -> Coroutine] /\ \A i \in Jobs : i # j => job'[i] = job[i]
        /\ job'[j].pc = "idle" /\ job'[j].tunnel = None
    BY <1>3, EndFacts, IdleFacts, Zenon DEF CreateAdd
  <1>6. completed \/ overlap = "early"
    BY <1>3, Zenon DEF StoreInv, LoadingOK
  <1>7. c \notin {"empty", "absent"}
    BY TunnelManagerAssumption, Zenon
  <1>8. PICK t : /\ t \in Objects \cup {None} /\ tunnelMap' \ {t} = tunnelMap /\ t \notin tunnelMap
                 /\ \A i \in Jobs : job[i].tunnel = t => t = None
                 /\ \A u \in Objects : u # t => name'[u] = name[u] /\ state'[u] = state[u] /\ config'[u] = config[u]
                 /\ \/ t = None /\ containsKey(n)
                    \/ t \in tunnelMap' /\ name'[t] = n /\ config'[t] = c /\ ~containsKey(n)
                 /\ t \in tunnelMap' => t \in Objects
                 /\ tunnelMap' \subseteq Objects
                 /\ name' \in [Objects -> Names \cup {None}]
                 /\ state' \in [Objects -> States]
                 /\ config' \in [Objects -> Configs \cup {None}]
    <2>1. CASE containsKey(n)
      <3>1. UNCHANGED <<tunnelMap, name, state, config>> /\ None \notin tunnelMap
        BY <1>1, <1>3, <2>1, TunnelManagerAssumption, Zenon DEF CreateAdd, objects, TypeOK
      <3> QED
        BY <1>3, <2>1, <3>1, Zenon DEF TypeOK
    <2>2. CASE ~containsKey(n)
      <3>1. PICK u \in Fresh : /\ tunnelMap' = tunnelMap \cup {u}
                               /\ name' = [name EXCEPT ![u] = n]
                               /\ state' = [state EXCEPT ![u] = "DOWN"]
                               /\ config' = [config EXCEPT ![u] = c]
        BY <1>1, <1>2, <2>2, Zenon DEF CreateAdd
      <3>2. u \in Objects /\ u \notin tunnelMap /\ \A i \in Jobs : job[i].tunnel # u
        BY Zenon DEF Fresh, Uses
      <3> QED
        BY <1>3, <2>2, <3>1, <3>2, Zenon DEF TypeOK, States
    <2> QED
      BY <2>1, <2>2, Zenon
  <1>9. \A i \in Jobs : i # j => Unmoved(i)
    <2>1. \A i \in Jobs : job[i].tunnel # None => job[i].tunnel # t /\ job[i].tunnel \in Objects
      BY <1>3, <1>8, Zenon DEF TypeOK, Coroutine
    <2>2. \A i \in Jobs : Out(i) => job[i].tunnel # None /\ job[i].tunnel \notin tunnelMap
      BY TunnelManagerAssumption, Zenon DEF StoreInv, LocalOK
    <2>3. \A i \in Jobs : /\ In(i) => job[i].tunnel \in tunnelMap
                          /\ job[i].pc = "restoring" => job[i].seen \subseteq tunnelMap
      BY Zenon DEF StoreInv, LocalOK
    <2>4. tunnelMap \subseteq tunnelMap' /\ \A u \in tunnelMap' : u \notin tunnelMap => u = t
      BY <1>8, Zenon
    <2>5. \A i \in Jobs : Apart(i)
      BY <1>8, <2>1, <2>2, <2>3, <2>4, Zenon DEF Apart
    <2> QED
      BY <1>4, <1>5, <2>5, ListBystander, Zenon
  <1>10. /\ ~Out(j)' /\ ~Reserves(j)' /\ LocalOK(j)' /\ LoadMoves(j) /\ FileOK(j)' /\ JobCacheOK(j)'
    BY <1>3, <1>5, Zenon DEF LocalOK, FileOK, JobCacheOK, LoadMoves, Out, In, Creating, Reserves, Loader
  <1>11. TypeOK'
    BY <1>3, <1>4, <1>5, <1>8, Zenon DEF TypeOK
  <1>12. /\ \A u \in tunnelMap : u # t /\ u \in Objects /\ u \in tunnelMap' /\ name'[u] = name[u] /\ config'[u] = config[u]
         /\ \A u \in tunnelMap' : u \in tunnelMap \/ (u = t /\ name'[u] = n /\ config'[u] = c)
         /\ t \in tunnelMap' => ~containsKey(n)
    <2>1. \A u \in tunnelMap : u # t /\ u \in Objects /\ u \in tunnelMap' /\ name'[u] = name[u] /\ config'[u] = config[u]
      BY <1>3, <1>8, Zenon DEF TypeOK
    <2>2. \A u \in tunnelMap' : u \in tunnelMap \/ u = t
      BY <1>8, Zenon
    <2>3. t \in tunnelMap' => name'[t] = n /\ config'[t] = c /\ ~containsKey(n)
      <3>1. tunnelMap' \subseteq Objects /\ None \notin Objects
        BY <1>8, TunnelManagerAssumption, Zenon
      <3> QED
        BY <1>8, <3>1, Zenon
    <2> QED
      BY <2>1, <2>2, <2>3, Zenon
  <1>13. KeysOK'
    <2>1. Exclusive'
      BY <1>3, <1>5 DEF StoreInv, KeysOK, Exclusive
    <2>2. /\ \A u \in tunnelMap' : name'[u] \in Names
          /\ \A u, v \in tunnelMap' : name'[u] = name'[v] => u = v
      BY <1>12 DEF StoreInv, KeysOK, containsKey
    <2>3. /\ \A i \in Jobs : Out(i) => Key(i) # n
          /\ \A i \in Jobs : i # j /\ Reserves(i) => job[i].name # n
      BY <1>1, <1>3, Zenon DEF StoreInv, KeysOK
    <2>4. \A i \in Jobs, u \in tunnelMap' : Out(i)' => Key(i)' # name'[u]
      BY <1>9, <1>10, <1>12, <2>3 DEF StoreInv, KeysOK, Unmoved
    <2>5. \A i \in Jobs, u \in tunnelMap' : Reserves(i)' /\ name'[u] = job'[i].name => overlap' = "early" /\ Creating(i)'
      BY <1>5, <1>9, <1>10, <1>12, <2>3, ZenonT(60) DEF StoreInv, KeysOK, Unmoved
    <2> QED
      BY <1>5, <1>9, <1>10, <2>1, <2>2, <2>4, <2>5 DEF StoreInv, KeysOK, Unmoved
  <1>14. ASSUME NEW u \in tunnelMap' PROVE files'[name'[u]] # "absent" /\ CacheOK(u)'
    <2>1. CASE u \in tunnelMap
      BY <1>3, <1>4, <1>5, <1>12, <2>1 DEF StoreInv, FilesOK, CachedOK, CacheOK
    <2>2. CASE u \notin tunnelMap
      BY <1>3, <1>4, <1>7, <1>12, <1>14, <2>2, Zenon DEF CacheOK
    <2> QED
      BY <2>1, <2>2, Zenon
  <1>15. \A m \in Names : Kept(m)' => Accounted(m)' \/ (Kept(m) /\ (Accounted(m) => Accounted(m)'))
    <2>1. containsKey(n)'
      BY <1>8, <1>12, Zenon DEF containsKey
    <2>2. \A m \in Names : containsKey(m) => containsKey(m)'
      BY <1>12, Zenon DEF containsKey
    <2>3. \A m \in Names : Accounted(m) => Accounted(m)'
      BY <1>1, <1>3, <1>5, <1>9, <2>1, <2>2, Zenon DEF Accounted, Unmoved
    <2>4. \A m \in Names : Kept(m)' => Kept(m)
      BY <1>4, Zenon DEF Kept
    <2> QED
      BY <2>3, <2>4, Zenon
  <1>16. LastUsedOK'
    BY <1>4, <1>12, Zenon DEF StoreInv, LastUsedOK
  <1>17. \A i \in Jobs : LocalOK(i)' /\ FileOK(i)' /\ JobCacheOK(i)' /\ LoadMoves(i)
    BY <1>9, <1>10, Zenon DEF Unmoved
  <1> QED
    BY <1>4, <1>6, <1>11, <1>13, <1>14, <1>15, <1>16, <1>17, Assemble, Zenon

\* FileConfigStore.rename: reserving the new name preserves the invariant.
LEMMA RenameMarkKeeps ==
  ASSUME StoreInv, NEW j \in Jobs, UNCHANGED overlap, RenameMark(j)
  PROVE  StoreInv'
  <1>1. PICK n \in Names : n = job[j].name
    BY Zenon DEF StoreInv, LocalOK, Out, RenameMark, At
  <1>2. /\ TypeOK /\ job[j].pc = "renameMark" /\ Out(j) /\ job[j].tunnel \in Objects
        /\ LocalOK(j) /\ FileOK(j) /\ JobCacheOK(j)
        /\ UNCHANGED <<list, completed, objects, savedRunning, running>>
    BY Zenon DEF StoreInv, LocalOK, FilesOK, CachedOK, Out, RenameMark, At
  <1>3. CASE UNCHANGED files /\ Goto(j, "renameCheck")
    <2>1. /\ job' \in [Jobs -> Coroutine] /\ \A i \in Jobs \ {j} : job'[i] = job[i]
          /\ job'[j].pc = "renameCheck" /\ job'[j].tunnel = job[j].tunnel
      BY <1>2, <1>3, GotoFacts, LabelFacts, Zenon
    <2>2. running' \in [tunnel: Objects, config: Configs] \cup {Nothing} /\ state' \in [Objects -> States]
      BY <1>2, Zenon DEF TypeOK, objects
    <2> QED
      BY <1>2, <1>3, <2>1, <2>2, OutStep, Zenon DEF objects, disk
  <1>4. CASE createNewFile(n) /\ Goto(j, "renameMove")
    <2>1. /\ job' \in [Jobs -> Coroutine] /\ \A i \in Jobs : i # j => job'[i] = job[i]
          /\ job'[j].pc = "renameMove" /\ job'[j].tunnel = job[j].tunnel /\ job'[j].name = n
      BY <1>1, <1>2, <1>4, GotoFacts, LabelFacts, Zenon
    <2>2. /\ files[n] = "absent" /\ files' \in [Names -> Configs \cup {"empty", "absent"}]
          /\ files'[n] = "empty" /\ \A m \in Names : m # n => files'[m] = files[m]
      BY <1>2, <1>4, Zenon DEF createNewFile, TypeOK
    <2>3. UNCHANGED <<tunnelMap, name, config, completed>>
      BY <1>2, Zenon DEF list, objects
    <2>4. /\ \A t \in tunnelMap : name[t] # n
          /\ \A i \in Jobs : /\ Out(i) => Key(i) # n
                             /\ Reserves(i) => job[i].name # n
                             /\ job[i].pc = "tunnelsLoaded" => n \notin job[i].seen
      BY <2>2, AbsentIsFree, Zenon
    <2>5. /\ Reserves(j)' /\ Out(j)' /\ ~Reserves(j) /\ ~In(j) /\ ~In(j)' /\ ~Creating(j) /\ ~Creating(j)' /\ ~Loader(j) /\ ~Loader(j)'
          /\ Key(j)' = Key(j) /\ Key(j) = name[job[j].tunnel] /\ Key(j) \in Names
      BY <1>2, <2>1, <2>3, Zenon DEF LocalOK, Out, In, Creating, Reserves, Loader, Key
    <2>6. LocalOK(j)' /\ LoadMoves(j) /\ FileOK(j)' /\ JobCacheOK(j)'
      BY <1>1, <1>2, <2>1, <2>2, <2>3, <2>4, <2>5, ZenonT(60) DEF LocalOK, FileOK, JobCacheOK, LoadMoves
    <2>7. \A i \in Jobs : i # j => Unmoved(i)
      <3>1. OnlyFiles(n, n)
        BY <2>2, Zenon DEF OnlyFiles
      <3>2. \A i \in Jobs : Clear(i, n)
        BY <2>4, Zenon DEF Clear, StoreInv, LocalOK, In
      <3> QED
        BY <2>1, <2>3, <3>1, <3>2, FileBystander, Zenon
    <2>8. TypeOK'
      BY <1>2, <2>1, <2>2, Zenon DEF TypeOK, list, objects
    <2>9. KeysOK'
      <3>1. Exclusive'
        BY <1>2, <2>1 DEF StoreInv, KeysOK, Exclusive
      <3> QED
        BY <1>2, <2>1, <2>3, <2>4, <2>5, <2>7, <3>1 DEF StoreInv, KeysOK, Unmoved
    <2>10. \A t \in tunnelMap : files'[name[t]] # "absent" /\ CacheOK(t)'
      BY <1>2, <2>1, <2>2, <2>3, <2>4 DEF StoreInv, FilesOK, KeysOK, CachedOK, CacheOK
    <2>11. \A m \in Names : Kept(m)' => Accounted(m)' \/ (Kept(m) /\ (Accounted(m) => Accounted(m)'))
      <3>1. \A m \in Names : Accounted(m) => Accounted(m)'
        BY <1>2, <2>1, <2>3, <2>5, <2>7, Zenon DEF Accounted, containsKey, Unmoved
      <3>2. Accounted(n)'
        BY <2>1, <2>5, Zenon DEF Accounted
      <3>3. \A m \in Names : m # n /\ Kept(m)' => Kept(m)
        BY <2>2, Zenon DEF Kept
      <3> QED
        BY <3>1, <3>2, <3>3, Zenon
    <2>12. LastUsedOK'
      BY <1>2, Zenon DEF StoreInv, LastUsedOK, list, objects
    <2>13. \A i \in Jobs : LocalOK(i)' /\ FileOK(i)' /\ JobCacheOK(i)' /\ LoadMoves(i)
      BY <2>6, <2>7, Zenon DEF Unmoved
    <2> QED
      BY <2>3, <2>8, <2>9, <2>10, <2>11, <2>12, <2>13, Assemble, Zenon
  <1> QED
    BY <1>1, <1>3, <1>4, Zenon DEF RenameMark

\* setTunnelConfig: writing the file, or failing to, preserves the invariant.
\* The file is never one that a create is about to write (SavesAlone).
LEMMA SaveWriteKeeps ==
  ASSUME StoreInv, SavesAlone, NEW j \in Jobs, UNCHANGED overlap, SaveWrite(j)
  PROVE  StoreInv'
  <1>1. PICK t \in tunnelMap : t = job[j].tunnel
    BY Zenon DEF StoreInv, LocalOK, In, SaveWrite, At
  <1>2. PICK c \in Configs : c = job[j].config
    BY Zenon DEF StoreInv, LocalOK, SaveWrite, At
  <1>3. PICK n \in Names : n = job[j].name /\ n = name[t]
    BY <1>1, Zenon DEF StoreInv, CachedOK, JobCacheOK, KeysOK, SaveWrite, At
  <1>4. /\ TypeOK /\ job[j].pc = "saveWrite" /\ Saving(j) /\ ~Reserves(j) /\ ~Out(j) /\ ~Creating(j) /\ ~Loader(j)
    BY Zenon DEF StoreInv, Saving, Creating, Reserves, Out, Loader, SaveWrite, At
  <1>5. UNCHANGED <<tunnelMap, lastUsedTunnel, savedLast, name, state, config, completed, savedRunning, running>>
    BY Zenon DEF SaveWrite, list, objects
  <1>6. /\ files' \in [Names -> Configs \cup {"empty", "absent"}]
        /\ files'[n] \in {c, "empty"} /\ \A m \in Names : m # n => files'[m] = files[m]
    BY <1>2, <1>3, <1>4, Zenon DEF SaveWrite, TypeOK
  <1>7. /\ job' \in [Jobs -> Coroutine] /\ \A i \in Jobs : i # j => job'[i] = job[i]
        /\ \/ files'[n] = c /\ job'[j].pc = "configDone" /\ job'[j].tunnel = t /\ job'[j].name = n /\ job'[j].config = c
           \/ files'[n] = "empty" /\ WritesFail /\ job'[j].pc = "idle" /\ job'[j].tunnel = None
    <2>1. CASE Goto(j, "configDone") /\ files' = [files EXCEPT ![job[j].name] = job[j].config]
      <3>1. files'[n] = c
        BY <1>2, <1>3, <1>4, <2>1, Zenon DEF TypeOK
      <3> QED
        BY <1>1, <1>2, <1>3, <1>4, <2>1, <3>1, GotoFacts, LabelFacts, ZenonT(60)
    <2>2. CASE WritesFail /\ files' = [files EXCEPT ![job[j].name] = "empty"] /\ End(j)
      BY <1>3, <1>4, <2>2, EndFacts, IdleFacts, Zenon DEF TypeOK
    <2> QED
      BY <2>1, <2>2, Zenon DEF SaveWrite
  <1>8. c \notin {"empty", "absent"}
    BY TunnelManagerAssumption, Zenon
  <1>9. /\ \A i \in Jobs : Out(i) => Key(i) # n
        /\ \A i \in Jobs : Reserves(i) => job[i].name # n
        /\ \A u \in tunnelMap : u # t => name[u] # n
        /\ \A i \in Jobs : i # j => job[i].tunnel # t
    <2>1. \A i \in Jobs : Out(i) => Key(i) # n
      BY <1>3, Zenon DEF StoreInv, KeysOK
    <2>2. \A i \in Jobs : Reserves(i) => job[i].name # n
      BY <1>3, <1>4, Zenon DEF StoreInv, KeysOK, SavesAlone
    <2>3. \A u \in tunnelMap : u # t => name[u] # n
      BY <1>3, Zenon DEF StoreInv, KeysOK
    <2>4. t # None
      BY <1>1, TunnelManagerAssumption, Zenon DEF StoreInv, TypeOK
    <2>5. \A i \in Jobs : i # j => job[i].tunnel # t
      BY <1>1, <2>4, Zenon DEF StoreInv, KeysOK, Exclusive
    <2> QED
      BY <2>1, <2>2, <2>3, <2>5, Zenon
  <1>10. \A i \in Jobs : i # j => Unmoved(i)
    <2>1. OnlyFiles(n, n)
      BY <1>6, Zenon DEF OnlyFiles
    <2>2. \A i \in Jobs : i # j => Clear(i, n)
      BY <1>6, <1>8, <1>9, Zenon DEF Clear, StoreInv, LocalOK, In
    <2> QED
      BY <1>5, <1>7, <2>1, <2>2, FileBystander, Zenon
  <1>11. ~Out(j)' /\ ~Reserves(j)' /\ LocalOK(j)' /\ LoadMoves(j) /\ FileOK(j)' /\ JobCacheOK(j)'
    BY <1>1, <1>3, <1>4, <1>5, <1>7, Zenon DEF LocalOK, FileOK, JobCacheOK, LoadMoves, Out, In, Creating, Reserves, Loader
  <1>12. TypeOK'
    BY <1>4, <1>5, <1>6, <1>7, Zenon DEF TypeOK
  <1>13. KeysOK'
    <2>1. Exclusive'
      BY <1>1, <1>7 DEF StoreInv, KeysOK, Exclusive
    <2>2. \A i \in Jobs : KeepsKeys(i)
      BY <1>7, <1>10, <1>11, Zenon DEF KeepsKeys, Unmoved
    <2> QED
      BY <1>5, <2>1, <2>2, KeysStep, Zenon
  <1>14. ASSUME NEW u \in tunnelMap PROVE files'[name[u]] # "absent" /\ CacheOK(u)'
    <2>1. name[u] \in Names /\ files[name[u]] # "absent" /\ CacheOK(u)
      BY <1>14, Zenon DEF StoreInv, KeysOK, FilesOK, CachedOK
    <2>2. CASE u = t
      <3>1. \A i \in Jobs : job'[i].pc = "createWrite" => job'[i].name # n
        BY <1>7, <1>9, Zenon DEF Reserves
      <3> QED
        BY <1>3, <1>5, <1>7, <1>8, <2>2, <3>1, Zenon DEF CacheOK
    <2>3. CASE u # t
      BY <1>1, <1>4, <1>5, <1>6, <1>7, <1>9, <1>14, <2>1, <2>3, Zenon DEF CacheOK
    <2> QED
      BY <2>2, <2>3, Zenon
  <1>15. \A m \in Names : Kept(m)' => Accounted(m)' \/ (Kept(m) /\ (Accounted(m) => Accounted(m)'))
    <2>1. \A m \in Names : Accounted(m) => Accounted(m)'
      BY <1>4, <1>5, <1>7, <1>10, Zenon DEF Accounted, containsKey, Unmoved
    <2>2. Accounted(n)'
      BY <1>3, <1>5, Zenon DEF Accounted, containsKey
    <2>3. \A m \in Names : m # n /\ Kept(m)' => Kept(m)
      BY <1>6, Zenon DEF Kept
    <2> QED
      BY <2>1, <2>2, <2>3, Zenon
  <1>16. LastUsedOK'
    BY <1>5, Zenon DEF StoreInv, LastUsedOK
  <1>17. \A i \in Jobs : LocalOK(i)' /\ FileOK(i)' /\ JobCacheOK(i)' /\ LoadMoves(i)
    BY <1>10, <1>11, Zenon DEF Unmoved
  <1> QED
    BY <1>5, <1>12, <1>13, <1>14, <1>15, <1>16, <1>17, Assemble, Zenon

\* delete: deleting the file, or failing to, preserves the invariant.
LEMMA DeleteFileKeeps ==
  ASSUME StoreInv, NEW j \in Jobs, UNCHANGED overlap, DeleteFile(j)
  PROVE  StoreInv'
  <1>1. PICK t \in Objects : t = job[j].tunnel
    BY Zenon DEF StoreInv, LocalOK, Out, DeleteFile, At
  <1>2. /\ TypeOK /\ job[j].pc = "deleteFile" /\ Out(j) /\ t \notin tunnelMap /\ name[t] \in Names /\ t # None
        /\ ~Reserves(j) /\ ~Creating(j) /\ ~Loader(j) /\ Key(j) = name[t]
        /\ UNCHANGED <<list, completed, savedRunning, running>>
    BY <1>1, TunnelManagerAssumption, Zenon DEF StoreInv, LocalOK, Out, Reserves, Creating, Loader, Key, DeleteFile, At
  <1>3. CASE UNCHANGED <<files, objects>> /\ Goto(j, IF job[j].orig = "UP" THEN "deleteUndo" ELSE "deletePutBack")
    <2>1. PICK l \in {"deleteUndo", "deletePutBack"} : Goto(j, l)
      BY <1>3, Zenon
    <2>2. /\ job' \in [Jobs -> Coroutine] /\ \A i \in Jobs \ {j} : job'[i] = job[i]
          /\ job'[j].pc = l /\ job'[j].tunnel = job[j].tunnel
      BY <1>2, <2>1, GotoFacts, LabelFacts, Zenon
    <2>3. running' \in [tunnel: Objects, config: Configs] \cup {Nothing} /\ state' \in [Objects -> States]
      BY <1>2, <1>3, Zenon DEF TypeOK, objects
    <2> QED
      BY <1>2, <1>3, <2>2, <2>3, OutStep, Zenon DEF objects, disk
  <1>4. CASE /\ files[name[t]] # "absent" /\ files' = [files EXCEPT ![name[t]] = "absent"]
             /\ Collect(j, t) /\ End(j)
    <2>1. PICK n \in Names : n = name[t]
      BY <1>2, Zenon
    <2>2. /\ job' \in [Jobs -> Coroutine] /\ \A i \in Jobs : i # j => job'[i] = job[i]
          /\ job'[j].pc = "idle" /\ job'[j].tunnel = None
      BY <1>2, <1>4, EndFacts, IdleFacts, Zenon
    <2>3. /\ files' \in [Names -> Configs \cup {"empty", "absent"}]
          /\ files'[n] = "absent" /\ \A m \in Names : m # n => files'[m] = files[m]
      BY <1>2, <1>4, <2>1, Zenon DEF TypeOK
    <2>4. UNCHANGED <<tunnelMap, lastUsedTunnel, savedLast, completed, savedRunning, running>>
      BY <1>2, Zenon DEF list
    <2>5. /\ name' \in [Objects -> Names \cup {None}] /\ state' \in [Objects -> States] /\ config' \in [Objects -> Configs \cup {None}]
          /\ \A u \in Objects : u # t => name'[u] = name[u] /\ config'[u] = config[u]
      BY <1>1, <1>2, <1>4, Zenon DEF Collect, TypeOK, States, objects
    <2>6. \A u \in tunnelMap : u \in Objects /\ name'[u] = name[u] /\ config'[u] = config[u]
      BY <1>2, <2>5, Zenon DEF TypeOK
    <2>7. /\ \A u \in tunnelMap : name[u] # n
          /\ \A i \in Jobs : i # j => (Out(i) => Key(i) # n) /\ job[i].tunnel # t
          /\ \A i \in Jobs : Reserves(i) => job[i].name # n
          /\ \A i \in Jobs : job[i].pc # "tunnelsLoaded"
      <3>1. \A i \in Jobs : i # j => job[i].tunnel # t
        BY <1>1, <1>2, Zenon DEF StoreInv, KeysOK, Exclusive
      <3>2. \A i \in Jobs : job[i].pc # "tunnelsLoaded"
        BY <1>2, Zenon DEF StoreInv, LoadingOK
      <3> QED
        BY <1>2, <2>1, <3>1, <3>2, Zenon DEF StoreInv, KeysOK
    <2>8. \A i \in Jobs : i # j => Unmoved(i)
      <3>1. OnlyFiles(n, n)
        BY <2>3, Zenon DEF OnlyFiles
      <3>2. \A i \in Jobs : i # j => Clear(i, n)
        BY <2>7, Zenon DEF Clear, StoreInv, LocalOK, In
      <3>3. \A i \in Jobs : i # j => Apart(i)
        <4>1. \A i \in Jobs : job[i].tunnel \in Objects \cup {None}
          BY <1>2, Zenon DEF TypeOK, Coroutine
        <4> QED
          BY <2>4, <2>5, <2>7, <4>1, Zenon DEF Apart, StoreInv, LocalOK
      <3> QED
        BY <2>2, <3>1, <3>2, <3>3, BothBystander, Zenon
    <2>9. ~Out(j)' /\ ~Reserves(j)' /\ LocalOK(j)' /\ LoadMoves(j) /\ FileOK(j)' /\ JobCacheOK(j)'
      BY <1>2, <2>2, Zenon DEF LocalOK, FileOK, JobCacheOK, LoadMoves, Out, In, Creating, Reserves, Loader
    <2>10. TypeOK'
      BY <1>2, <2>2, <2>3, <2>4, <2>5, Zenon DEF TypeOK
    <2>11. KeysOK'
      <3>1. Exclusive'
        BY <2>2, ZenonT(60) DEF StoreInv, KeysOK, Exclusive
      <3>2. \A i \in Jobs : KeepsKeys(i)
        BY <2>2, <2>8, <2>9, Zenon DEF KeepsKeys, Unmoved
      <3> QED
        BY <2>4, <2>6, <3>1, <3>2, KeysStep, Zenon
    <2>12. \A u \in tunnelMap : files'[name'[u]] # "absent" /\ CacheOK(u)'
      <3>1. \A u \in tunnelMap : name[u] \in Names /\ files[name[u]] # "absent" /\ CacheOK(u)
        BY Zenon DEF StoreInv, KeysOK, FilesOK, CachedOK
      <3> QED
        BY <1>2, <2>2, <2>3, <2>6, <2>7, <3>1 DEF CacheOK
    <2>13. \A m \in Names : Kept(m)' => Accounted(m)' \/ (Kept(m) /\ (Accounted(m) => Accounted(m)'))
      <3>1. ~Kept(n)'
        BY <2>3, TunnelManagerAssumption, Zenon DEF Kept
      <3>2. \A m \in Names : containsKey(m) => containsKey(m)'
        BY <2>4, <2>6, Zenon DEF containsKey
      <3>3. \A m \in Names : m # n /\ Accounted(m) => Accounted(m)'
        BY <1>2, <2>1, <2>2, <2>8, <3>2, Zenon DEF Accounted, Unmoved
      <3>4. \A m \in Names : m # n /\ Kept(m)' => Kept(m)
        BY <2>3, Zenon DEF Kept
      <3> QED
        BY <3>1, <3>3, <3>4, Zenon
    <2>14. LastUsedOK'
      BY <2>4, <2>6, Zenon DEF StoreInv, LastUsedOK
    <2>15. \A i \in Jobs : LocalOK(i)' /\ FileOK(i)' /\ JobCacheOK(i)' /\ LoadMoves(i)
      BY <2>8, <2>9, Zenon DEF Unmoved
    <2> QED
      BY <2>4, <2>10, <2>11, <2>12, <2>13, <2>14, <2>15, Assemble, Zenon
  <1> QED
    BY <1>1, <1>3, <1>4, Zenon DEF DeleteFile

\* The finally blocks of delete and setTunnelName: the name they add the
\* tunnel back under has stayed free.
LEMMA AddBackKeeps ==
  ASSUME StoreInv, NEW j \in Jobs, UNCHANGED overlap, DeletePutBack(j) \/ RenameAdd(j)
  PROVE  StoreInv'
  <1>1. PICK t \in Objects : t = job[j].tunnel
    BY Zenon DEF StoreInv, LocalOK, Out, DeletePutBack, RenameAdd, At
  <1>2. /\ TypeOK /\ job[j].pc \in {"deletePutBack", "renameAdd"} /\ Out(j) /\ t \notin tunnelMap /\ t # None
        /\ ~Reserves(j) /\ ~Creating(j) /\ ~Loader(j) /\ Key(j) = name[t] /\ files[name[t]] # "absent" /\ JobCacheOK(j)
    BY <1>1, TunnelManagerAssumption, Zenon
       DEF StoreInv, FilesOK, FileOK, CachedOK, LocalOK, Out, Reserves, Creating, Loader, Key, DeletePutBack, RenameAdd, At
  <1>3. PICK n \in Names : n = name[t]
    BY <1>1, <1>2, Zenon DEF StoreInv, LocalOK
  <1>4. UNCHANGED <<name, state, config, files, savedRunning, running, completed>> /\ completed
    BY <1>2, Zenon DEF StoreInv, LoadingOK, DeletePutBack, RenameAdd, objects, disk
  <1>5. /\ job' \in [Jobs -> Coroutine] /\ \A i \in Jobs : i # j => job'[i] = job[i]
        /\ job'[j].pc = "idle" /\ job'[j].tunnel = None
    BY <1>2, EndFacts, IdleFacts, Zenon DEF DeletePutBack, RenameAdd
  <1>6. /\ \A u \in tunnelMap : name[u] # n
        /\ \A i \in Jobs : i # j => (Out(i) => Key(i) # n) /\ job[i].tunnel # t
        /\ \A i \in Jobs : Reserves(i) => job[i].name # n
    <2>1. \A i \in Jobs : i # j => job[i].tunnel # t
      BY <1>1, <1>2, Zenon DEF StoreInv, KeysOK, Exclusive
    <2> QED
      BY <1>2, <1>3, <2>1, Zenon DEF StoreInv, KeysOK
  <1>7. /\ tunnelMap' = tunnelMap \cup {t}
        /\ lastUsedTunnel' \in {t, lastUsedTunnel}
        /\ lastUsedTunnel' = lastUsedTunnel => savedLast' = savedLast
        /\ lastUsedTunnel' # lastUsedTunnel => savedLast' = n
    <2>1. ~containsKey(n)
      BY <1>6, Zenon DEF containsKey
    <2>2. AddBack(t, job[j].last)
      BY <1>1, Zenon DEF DeletePutBack, RenameAdd
    <2> QED
      BY <1>2, <1>3, <2>1, <2>2, Zenon DEF AddBack, SetLastUsed
  <1>8. \A i \in Jobs : i # j => Unmoved(i)
    <2>1. \A i \in Jobs : i # j => Apart(i)
      BY <1>4, <1>6, <1>7, Zenon DEF Apart, StoreInv, LocalOK
    <2> QED
      BY <1>4, <1>5, <2>1, ListBystander, Zenon
  <1>9. ~Out(j)' /\ ~Reserves(j)' /\ LocalOK(j)' /\ LoadMoves(j) /\ FileOK(j)' /\ JobCacheOK(j)'
    BY <1>2, <1>5, Zenon DEF LocalOK, FileOK, JobCacheOK, LoadMoves, Out, In, Creating, Reserves, Loader
  <1>10. TypeOK'
    BY <1>2, <1>4, <1>5, <1>7, Zenon DEF TypeOK
  <1>11. KeysOK'
    <2>1. Exclusive'
      BY <1>5, ZenonT(60) DEF StoreInv, KeysOK, Exclusive
    <2>2. /\ \A u \in tunnelMap' : name'[u] \in Names
          /\ \A u, v \in tunnelMap' : name'[u] = name'[v] => u = v
      BY <1>3, <1>4, <1>6, <1>7, Zenon DEF StoreInv, KeysOK
    <2>3. \A i \in Jobs, u \in tunnelMap' : Out(i)' => Key(i)' # name'[u]
      BY <1>3, <1>4, <1>6, <1>7, <1>8, <1>9, Zenon DEF StoreInv, KeysOK, Unmoved
    <2>4. \A i \in Jobs, u \in tunnelMap' : Reserves(i)' /\ name'[u] = job'[i].name => overlap' = "early" /\ Creating(i)'
      BY <1>3, <1>4, <1>5, <1>6, <1>7, <1>8, <1>9, Zenon DEF StoreInv, KeysOK, Unmoved
    <2> QED
      BY <1>5, <1>8, <1>9, <2>1, <2>2, <2>3, <2>4 DEF StoreInv, KeysOK, Unmoved
  <1>12. \A u \in tunnelMap' : files'[name'[u]] # "absent" /\ CacheOK(u)'
    <2>1. \A u \in tunnelMap : files[name[u]] # "absent" /\ CacheOK(u)
      BY Zenon DEF StoreInv, FilesOK, CachedOK
    <2>2. \A u \in tunnelMap : CacheOK(u)'
      BY <1>2, <1>4, <1>5, <2>1 DEF CacheOK
    <2>3. CacheOK(t)'
      BY <1>1, <1>2, <1>3, <1>4, <1>5, <1>6, Zenon DEF CacheOK, JobCacheOK, Reserves
    <2> QED
      BY <1>2, <1>4, <1>7, <2>1, <2>2, <2>3, Zenon
  <1>13. \A m \in Names : Kept(m)' => Accounted(m)' \/ (Kept(m) /\ (Accounted(m) => Accounted(m)'))
    <2>1. containsKey(n)' /\ \A m \in Names : containsKey(m) => containsKey(m)'
      BY <1>3, <1>4, <1>7, Zenon DEF containsKey
    <2>2. \A m \in Names : Accounted(m) => Accounted(m)'
      BY <1>2, <1>3, <1>5, <1>8, <2>1, Zenon DEF Accounted, Unmoved
    <2>3. \A m \in Names : Kept(m)' => Kept(m)
      BY <1>4, Zenon DEF Kept
    <2> QED
      BY <2>2, <2>3, Zenon
  <1>14. LastUsedOK'
    BY <1>3, <1>4, <1>7, Zenon DEF StoreInv, LastUsedOK
  <1>15. \A i \in Jobs : LocalOK(i)' /\ FileOK(i)' /\ JobCacheOK(i)' /\ LoadMoves(i)
    BY <1>8, <1>9, Zenon DEF Unmoved
  <1> QED
    BY <1>4, <1>10, <1>11, <1>12, <1>13, <1>14, <1>15, Assemble, Zenon

-----------------------------------------------------------------------------
(* The steps that take a tunnel out of the list, move its file, rename it or
   cache a configuration, and the start of the process with the loading of the
   list. *)

\* delete and setTunnelName taking the tunnel out of the list preserve the
\* invariant.
LEMMA TakeOutKeeps ==
  ASSUME StoreInv, NEW j \in Jobs, NEW t \in Objects, UNCHANGED overlap,
         delete(j, t) \/ \E m \in Names : setTunnelName(j, t, m)
  PROVE  StoreInv'
  <1>1. /\ TypeOK /\ t \in tunnelMap /\ Begin(j, t) /\ TakeOut(t) /\ t # None
        /\ UNCHANGED <<name, state, config, files, savedRunning, running, completed>>
    BY TunnelManagerAssumption, Zenon DEF StoreInv, delete, setTunnelName, objects, disk
  <1>2. /\ job[j].pc = "idle" /\ completed /\ (overlap # "other" => Quiet)
        /\ \A i \in Jobs : job[i].tunnel # t /\ (job[i].pc = "restoring" => t \notin job[i].seen)
    BY <1>1, BeginFacts, Zenon
  <1>3. PICK n \in Names : n = name[t]
    BY <1>1, Zenon DEF StoreInv, KeysOK
  <1>4. /\ job' \in [Jobs -> Coroutine] /\ \A i \in Jobs : i # j => job'[i] = job[i]
        /\ job'[j].tunnel = t /\ job'[j].pc \in {"deleteDown", "deleteFile", "renameDown", "renameMark"}
        /\ job'[j].pc \in {"renameDown", "renameMark"} => job'[j].name \in Names
    <2>1. state[t] \in States /\ (t = lastUsedTunnel) \in BOOLEAN
      BY <1>1, Zenon DEF TypeOK
    <2>2. CASE delete(j, t)
      <3> DEFINE r == [Idle EXCEPT !.pc = IF state[t] = "UP" THEN "deleteDown" ELSE "deleteFile",
                                   !.tunnel = t, !.orig = state[t], !.last = (t = lastUsedTunnel)]
      <3>1. r \in Coroutine /\ r.tunnel = t /\ r.pc \in {"deleteDown", "deleteFile"}
        BY <2>1, Zenon DEF Idle, Coroutine, Labels, States
      <3>2. job' = [job EXCEPT ![j] = r]
        BY <2>2, Zenon DEF delete
      <3> HIDE DEF r
      <3> QED
        BY <1>1, <3>1, <3>2, SetFacts, Zenon
    <2>3. CASE \E m \in Names : setTunnelName(j, t, m)
      <3>1. PICK m \in Names : setTunnelName(j, t, m)
        BY <2>3, Zenon
      <3> DEFINE r == [Idle EXCEPT !.pc = IF state[t] = "UP" THEN "renameDown" ELSE "renameMark",
                                   !.tunnel = t, !.name = m, !.orig = state[t], !.last = (t = lastUsedTunnel)]
      <3>2. r \in Coroutine /\ r.tunnel = t /\ r.pc \in {"renameDown", "renameMark"} /\ r.name = m
        BY <2>1, Zenon DEF Idle, Coroutine, Labels, States
      <3>3. job' = [job EXCEPT ![j] = r]
        BY <3>1, Zenon DEF setTunnelName
      <3> HIDE DEF r
      <3> QED
        BY <1>1, <3>2, <3>3, SetFacts, Zenon
    <2> QED
      BY <2>2, <2>3, Zenon
  <1>5. tunnelMap' = tunnelMap \ {t}
    BY <1>1, Zenon DEF TakeOut
  <1>6. /\ \A u \in tunnelMap' : name[u] # n
        /\ \A i \in Jobs : Out(i) => Key(i) # n
        /\ \A i \in Jobs : Reserves(i) => job[i].name # n
    <2>1. /\ \A u \in tunnelMap' : name[u] # n
          /\ \A i \in Jobs : Out(i) => Key(i) # n
      BY <1>1, <1>3, <1>5, Zenon DEF StoreInv, KeysOK
    <2>2. \A i \in Jobs : Reserves(i) => job[i].name # n
      BY <1>1, <1>2, <1>3, Zenon DEF StoreInv, KeysOK, Quiet, At, Creating
    <2> QED
      BY <2>1, <2>2, Zenon
  <1>7. \A i \in Jobs : i # j => Unmoved(i)
    <2>1. \A i \in Jobs : i # j => Apart(i)
      BY <1>1, <1>2, <1>5, Zenon DEF Apart, StoreInv, LocalOK
    <2> QED
      BY <1>1, <1>4, <2>1, ListBystander, Zenon
  <1>8. /\ Out(j)' /\ ~In(j)' /\ ~Creating(j)' /\ ~Reserves(j)' /\ ~Loader(j) /\ ~Loader(j)' /\ Key(j)' = n
        /\ ~Out(j) /\ ~Reserves(j)
    BY <1>1, <1>2, <1>3, <1>4, Zenon DEF Out, In, Creating, Reserves, Loader, Key
  <1>9. files[n] # "absent" /\ CacheOK(t)
    BY <1>1, <1>3, Zenon DEF StoreInv, FilesOK, CachedOK
  <1>10. LocalOK(j)' /\ LoadMoves(j) /\ FileOK(j)'
    BY <1>1, <1>2, <1>3, <1>4, <1>5, <1>8, <1>9, Zenon DEF LocalOK, FileOK, LoadMoves
  <1>11. JobCacheOK(j)'
    BY <1>1, <1>2, <1>3, <1>4, <1>8, <1>9, Zenon DEF JobCacheOK, CacheOK
  <1>12. TypeOK'
    BY <1>1, <1>4, Zenon DEF TypeOK, TakeOut, SetLastUsed
  <1>13. KeysOK'
    <2>1. Exclusive'
      BY <1>2, <1>4 DEF StoreInv, KeysOK, Exclusive
    <2>2. \A i, h \in Jobs : i # h /\ Out(i)' /\ Out(h)' => Key(i)' # Key(h)'
      BY <1>6, <1>7, <1>8, Zenon DEF StoreInv, KeysOK, Unmoved
    <2>3. \A i \in Jobs, u \in tunnelMap' : Out(i)' => Key(i)' # name'[u]
      BY <1>1, <1>5, <1>6, <1>7, <1>8, Zenon DEF StoreInv, KeysOK, Unmoved
    <2>4. \A i, h \in Jobs : Reserves(i)' /\ Out(h)' => job'[i].name # Key(h)'
      BY <1>4, <1>6, <1>7, <1>8 DEF StoreInv, KeysOK, Unmoved
    <2>5. \A u \in tunnelMap' : u \in tunnelMap /\ name'[u] = name[u]
      BY <1>1, <1>5, Zenon
    <2> QED
      BY <1>4, <1>7, <1>8, <2>1, <2>2, <2>3, <2>4, <2>5 DEF StoreInv, KeysOK, Unmoved
  <1>14. \A u \in tunnelMap' : files'[name'[u]] # "absent" /\ CacheOK(u)'
    BY <1>1, <1>2, <1>4, <1>5 DEF StoreInv, FilesOK, CachedOK, CacheOK
  <1>15. \A m \in Names : Kept(m)' => Accounted(m)' \/ (Kept(m) /\ (Accounted(m) => Accounted(m)'))
    <2>1. \A m \in Names : containsKey(m) => m = n \/ containsKey(m)'
      BY <1>1, <1>3, <1>5, Zenon DEF containsKey
    <2>2. Accounted(n)'
      BY <1>8, Zenon DEF Accounted
    <2>3. \A m \in Names : Accounted(m) => Accounted(m)'
      BY <1>2, <1>4, <1>7, <1>8, <2>1, <2>2, Zenon DEF Accounted, Unmoved
    <2>4. \A m \in Names : Kept(m)' => Kept(m)
      BY <1>1, Zenon DEF Kept
    <2> QED
      BY <2>3, <2>4, Zenon
  <1>16. LastUsedOK'
    BY <1>1, <1>5, Zenon DEF StoreInv, LastUsedOK, TakeOut, SetLastUsed
  <1>17. \A i \in Jobs : LocalOK(i)' /\ FileOK(i)' /\ JobCacheOK(i)' /\ LoadMoves(i)
    BY <1>7, <1>10, <1>11, Zenon DEF Unmoved
  <1> QED
    BY <1>1, <1>2, <1>12, <1>13, <1>14, <1>15, <1>16, <1>17, Assemble, Zenon

\* FileConfigStore.rename: renameTo, or the removal of the reservation when it
\* fails, preserves the invariant.
LEMMA RenameMoveKeeps ==
  ASSUME StoreInv, NEW j \in Jobs, UNCHANGED overlap, RenameMove(j)
  PROVE  StoreInv'
  <1>1. PICK t \in Objects : t = job[j].tunnel
    BY Zenon DEF StoreInv, LocalOK, Out, RenameMove, At
  <1>2. PICK old \in Names : old = name[t]
    BY <1>1, Zenon DEF StoreInv, LocalOK, Out, RenameMove, At
  <1>3. PICK new \in Names : new = job[j].name
    BY Zenon DEF StoreInv, LocalOK, RenameMove, At
  <1>4. /\ TypeOK /\ job[j].pc = "renameMove" /\ Out(j) /\ Reserves(j) /\ ~Creating(j) /\ ~Loader(j) /\ ~In(j)
        /\ LocalOK(j) /\ FileOK(j) /\ JobCacheOK(j) /\ Key(j) = old /\ files[old] # "absent" /\ files[new] = "empty"
    BY <1>1, <1>2, <1>3, Zenon
       DEF StoreInv, FilesOK, FileOK, CachedOK, Out, In, Reserves, Creating, Loader, Key, RenameMove, At
  <1>5. UNCHANGED <<tunnelMap, lastUsedTunnel, savedLast, name, state, config, completed, savedRunning, running>>
    BY Zenon DEF RenameMove, list, objects
  <1>6. old # new
    BY <1>3, <1>4, Zenon DEF StoreInv, KeysOK
  <1>7. /\ files' \in [Names -> Configs \cup {"empty", "absent"}]
        /\ \A m \in Names : m # old /\ m # new => files'[m] = files[m]
        /\ job' \in [Jobs -> Coroutine] /\ \A i \in Jobs : i # j => job'[i] = job[i]
        /\ job'[j].tunnel = t /\ job'[j].name = new
        /\ \/ files'[old] = "absent" /\ files'[new] = files[old] /\ job'[j].pc = "renameName"
           \/ files'[old] = files[old] /\ files'[new] = "absent" /\ job'[j].pc = "renameCheck"
    <2>1. CASE files' = [files EXCEPT ![old] = "absent", ![new] = files[old]] /\ Goto(j, "renameName")
      <3>1. /\ files' \in [Names -> Configs \cup {"empty", "absent"}]
            /\ \A m \in Names : m # old /\ m # new => files'[m] = files[m]
            /\ files'[old] = "absent" /\ files'[new] = files[old]
        <4>1. files \in [Names -> Configs \cup {"empty", "absent"}]
          BY <1>4, Zenon DEF TypeOK
        <4> QED
          BY <1>6, <2>1, <4>1, Zenon
      <3> QED
        BY <1>1, <1>3, <1>4, <2>1, <3>1, GotoFacts, LabelFacts
    <2>2. CASE Unmark(new) /\ Goto(j, "renameCheck")
      <3>1. /\ files' \in [Names -> Configs \cup {"empty", "absent"}]
            /\ \A m \in Names : m # old /\ m # new => files'[m] = files[m]
            /\ files'[old] = files[old] /\ files'[new] = "absent"
        BY <1>4, <1>6, <2>2, Zenon DEF TypeOK, Unmark
      <3> QED
        BY <1>1, <1>3, <1>4, <2>2, <3>1, GotoFacts, LabelFacts, Zenon
    <2> QED
      BY <1>1, <1>2, <1>3, <2>1, <2>2, Zenon DEF RenameMove
  <1>8. /\ \A u \in tunnelMap : name[u] # old /\ name[u] # new
        /\ \A i \in Jobs : i # j /\ Out(i) => Key(i) # old /\ Key(i) # new
        /\ \A i \in Jobs : i # j /\ Reserves(i) => job[i].name # old /\ job[i].name # new
        /\ \A i \in Jobs : job[i].pc # "tunnelsLoaded"
    <2>1. \A i \in Jobs : job[i].pc # "tunnelsLoaded"
      BY <1>4, Zenon DEF StoreInv, LoadingOK
    <2>2. \A u \in tunnelMap : name[u] # old /\ name[u] # new
      BY <1>3, <1>4, Zenon DEF StoreInv, KeysOK
    <2>3. \A i \in Jobs : i # j /\ Out(i) => Key(i) # old /\ Key(i) # new
      BY <1>3, <1>4, Zenon DEF StoreInv, KeysOK
    <2>4. \A i \in Jobs : i # j /\ Reserves(i) => job[i].name # old /\ job[i].name # new
      BY <1>3, <1>4, Zenon DEF StoreInv, KeysOK
    <2> QED
      BY <2>1, <2>2, <2>3, <2>4, Zenon
  <1>9. \A i \in Jobs : i # j => Unmoved(i)
    <2>1. OnlyFiles(old, new)
      BY <1>7, Zenon DEF OnlyFiles
    <2>2. \A i \in Jobs : i # j => Clear(i, old) /\ Clear(i, new)
      BY <1>8, Zenon DEF Clear, StoreInv, LocalOK, In
    <2> QED
      BY <1>5, <1>7, <2>1, <2>2, FileBystander, Zenon
  <1>10. PICK k \in {old, new} :
           /\ k = Key(j)' /\ files'[k] = files[old]
           /\ Out(j)' /\ ~Reserves(j)' /\ ~Creating(j)' /\ ~Loader(j)' /\ ~In(j)'
           /\ \/ k = new /\ files'[old] = "absent" /\ job'[j].pc = "renameName"
              \/ k = old /\ files'[new] = "absent" /\ job'[j].pc = "renameCheck"
    <2>1. CASE job'[j].pc = "renameName"
      BY <1>3, <1>7, <2>1, Zenon DEF Out, In, Creating, Reserves, Loader, Key
    <2>2. CASE job'[j].pc = "renameCheck"
      BY <1>2, <1>5, <1>7, <2>2, Zenon DEF Out, In, Creating, Reserves, Loader, Key
    <2> QED
      BY <1>7, <2>1, <2>2, Zenon
  <1>11. LocalOK(j)' /\ LoadMoves(j)
    BY <1>1, <1>3, <1>4, <1>5, <1>7, <1>10, Zenon DEF LocalOK, LoadMoves, Out
  <1>12. FileOK(j)' /\ JobCacheOK(j)'
    <2>1. config'[job'[j].tunnel] = None \/ config'[job'[j].tunnel] = files'[Key(j)'] \/ (WritesFail /\ files'[Key(j)'] = "empty")
      BY <1>1, <1>4, <1>5, <1>7, <1>10, Zenon DEF JobCacheOK
    <2> QED
      BY <1>4, <1>7, <1>10, <2>1, Zenon DEF FileOK, JobCacheOK
  <1>13. TypeOK'
    BY <1>4, <1>5, <1>7, Zenon DEF TypeOK
  <1>14. KeysOK'
    <2>1. Exclusive'
      BY <1>1, <1>7 DEF StoreInv, KeysOK, Exclusive
    <2>2. \A i, h \in Jobs : i # h /\ Out(i)' /\ Out(h)' => Key(i)' # Key(h)'
      BY <1>8, <1>9, <1>10 DEF StoreInv, KeysOK, Unmoved
    <2>3. \A i \in Jobs, u \in tunnelMap' : Out(i)' => Key(i)' # name'[u]
      BY <1>5, <1>8, <1>9, <1>10, ZenonT(60) DEF StoreInv, KeysOK, Unmoved
    <2>4. \A i, h \in Jobs : Reserves(i)' /\ Out(h)' => job'[i].name # Key(h)'
      BY <1>7, <1>8, <1>9, <1>10 DEF StoreInv, KeysOK, Unmoved
    <2> QED
      BY <1>5, <1>7, <1>9, <1>10, <2>1, <2>2, <2>3, <2>4 DEF StoreInv, KeysOK, Unmoved
  <1>15. ASSUME NEW u \in tunnelMap PROVE files'[name[u]] # "absent" /\ CacheOK(u)'
    <2>1. name[u] \in Names /\ files[name[u]] # "absent" /\ CacheOK(u)
      BY <1>15, Zenon DEF StoreInv, KeysOK, FilesOK, CachedOK
    <2>2. files'[name[u]] = files[name[u]]
      BY <1>7, <1>8, <1>15, <2>1, Zenon
    <2>3. \A i \in Jobs : /\ job'[i].pc = "createWrite" => job[i].pc = "createWrite" /\ job'[i].name = job[i].name
                          /\ job[i].pc = "configDone" => job'[i].pc = "configDone" /\ job'[i].tunnel = job[i].tunnel
      BY <1>4, <1>7, Zenon
    <2> QED
      BY <1>5, <2>1, <2>2, <2>3, Zenon DEF CacheOK
  <1>16. \A m \in Names : Kept(m)' => Accounted(m)' \/ (Kept(m) /\ (Accounted(m) => Accounted(m)'))
    <2>1. \A m \in Names : m # old /\ m # new /\ Accounted(m) => Accounted(m)'
      BY <1>3, <1>4, <1>5, <1>7, <1>9, Zenon DEF Accounted, containsKey, Unmoved
    <2>2. \A m \in Names : m # old /\ m # new /\ Kept(m)' => Kept(m)
      BY <1>7, Zenon DEF Kept
    <2>3. Accounted(k)'
      BY <1>10, Zenon DEF Accounted
    <2>4. \A m \in {old, new} : Kept(m)' => m = k
      BY <1>10, TunnelManagerAssumption DEF Kept
    <2> QED
      BY <2>1, <2>2, <2>3, <2>4, Zenon
  <1>17. LastUsedOK'
    BY <1>5, Zenon DEF StoreInv, LastUsedOK
  <1>18. \A i \in Jobs : LocalOK(i)' /\ FileOK(i)' /\ JobCacheOK(i)' /\ LoadMoves(i)
    BY <1>9, <1>11, <1>12, Zenon DEF Unmoved
  <1> QED
    BY <1>5, <1>13, <1>14, <1>15, <1>16, <1>17, <1>18, Assemble, Zenon

\* setTunnelName: onNameChanged preserves the invariant.
LEMMA RenameNameKeeps ==
  ASSUME StoreInv, NEW j \in Jobs, UNCHANGED overlap, RenameName(j)
  PROVE  StoreInv'
  <1>1. PICK t \in Objects : t = job[j].tunnel
    BY Zenon DEF StoreInv, LocalOK, Out, RenameName, At
  <1>2. PICK n \in Names : n = job[j].name
    BY Zenon DEF StoreInv, LocalOK, RenameName, At
  <1>3. /\ TypeOK /\ job[j].pc = "renameName" /\ Out(j) /\ ~Reserves(j) /\ ~Creating(j) /\ ~Loader(j) /\ ~In(j)
        /\ t \notin tunnelMap /\ t # None /\ Key(j) = n /\ FileOK(j) /\ JobCacheOK(j)
    BY <1>1, <1>2, TunnelManagerAssumption, Zenon
       DEF StoreInv, LocalOK, FilesOK, CachedOK, Out, In, Reserves, Creating, Loader, Key, RenameName, At
  <1>4. /\ UNCHANGED <<tunnelMap, lastUsedTunnel, savedLast, state, config, files, completed, savedRunning, running>>
        /\ name' \in [Objects -> Names \cup {None}] /\ name'[t] = n /\ \A u \in Objects : u # t => name'[u] = name[u]
    BY <1>1, <1>2, <1>3, Zenon DEF RenameName, list, disk, TypeOK
  <1>5. /\ job' \in [Jobs -> Coroutine] /\ \A i \in Jobs : i # j => job'[i] = job[i]
        /\ job'[j].tunnel = t /\ job'[j].pc \in {"renameUp", "renameAdd"}
    <2>1. CASE Goto(j, "renameUp")
      BY <1>1, <1>3, <2>1, GotoFacts, LabelFacts, Zenon
    <2>2. CASE PutBack(j, "renameAdd")
      BY <1>1, <1>3, <2>2, PutBackFacts, LabelFacts, Zenon
    <2> QED
      BY <2>1, <2>2, Zenon DEF RenameName
  <1>6. \A u \in tunnelMap : u \in Objects /\ name'[u] = name[u]
    BY <1>3, <1>4, Zenon DEF TypeOK
  <1>7. \A i \in Jobs : i # j => Unmoved(i)
    <2>1. \A i \in Jobs : i # j => job[i].tunnel # t
      BY <1>1, <1>3, Zenon DEF StoreInv, KeysOK, Exclusive
    <2>2. \A i \in Jobs : job[i].tunnel \in Objects \cup {None}
      BY <1>3, Zenon DEF TypeOK, Coroutine
    <2>3. \A i \in Jobs : i # j => Apart(i)
      BY <1>4, <2>1, <2>2, Zenon DEF Apart, StoreInv, LocalOK
    <2> QED
      BY <1>4, <1>5, <2>3, ListBystander, Zenon
  <1>8. /\ Out(j)' /\ ~Reserves(j)' /\ ~Creating(j)' /\ ~Loader(j)' /\ ~In(j)' /\ Key(j)' = Key(j)
    BY <1>3, <1>4, <1>5, Zenon DEF Out, In, Creating, Reserves, Loader, Key
  <1>9. LocalOK(j)' /\ LoadMoves(j) /\ FileOK(j)' /\ JobCacheOK(j)'
    BY <1>1, <1>3, <1>4, <1>5, <1>8, Zenon DEF LocalOK, FileOK, JobCacheOK, LoadMoves
  <1>10. TypeOK'
    BY <1>3, <1>4, <1>5, Zenon DEF TypeOK
  <1>11. KeysOK'
    <2>1. Exclusive'
      BY <1>1, <1>5 DEF StoreInv, KeysOK, Exclusive
    <2>2. \A i \in Jobs : KeepsKeys(i)
      BY <1>3, <1>5, <1>7, <1>8, ZenonT(60) DEF KeepsKeys, Unmoved
    <2> QED
      BY <1>4, <1>6, <2>1, <2>2, KeysStep, Zenon
  <1>12. \A u \in tunnelMap : files'[name'[u]] # "absent" /\ CacheOK(u)'
    BY <1>3, <1>4, <1>5, <1>6 DEF StoreInv, FilesOK, CachedOK, CacheOK
  <1>13. \A m \in Names : Kept(m)' => Accounted(m)' \/ (Kept(m) /\ (Accounted(m) => Accounted(m)'))
    <2>1. \A m \in Names : containsKey(m) => containsKey(m)'
      BY <1>4, <1>6, Zenon DEF containsKey
    <2>2. \A m \in Names : Accounted(m) => Accounted(m)'
      BY <1>3, <1>5, <1>7, <1>8, <2>1, Zenon DEF Accounted, Unmoved
    <2>3. \A m \in Names : Kept(m)' => Kept(m)
      BY <1>4, Zenon DEF Kept
    <2> QED
      BY <2>2, <2>3, Zenon
  <1>14. LastUsedOK'
    BY <1>4, <1>6, Zenon DEF StoreInv, LastUsedOK
  <1>15. \A i \in Jobs : LocalOK(i)' /\ FileOK(i)' /\ JobCacheOK(i)' /\ LoadMoves(i)
    BY <1>7, <1>9, Zenon DEF Unmoved
  <1> QED
    BY <1>4, <1>10, <1>11, <1>12, <1>13, <1>14, <1>15, Assemble, Zenon

\* onConfigChanged, after a load and after a save, preserves the invariant.
LEMMA CacheKeeps ==
  ASSUME StoreInv, NEW j \in Jobs, UNCHANGED overlap, Loaded(j) \/ ConfigDone(j)
  PROVE  StoreInv'
  <1>1. PICK t \in Objects : t = job[j].tunnel /\ t \in tunnelMap
    BY Zenon DEF StoreInv, LocalOK, TypeOK, In, Loaded, ConfigDone, At
  <1>2. PICK c \in Configs : c = job[j].config /\ files[name[t]] = c
    BY <1>1, Zenon DEF StoreInv, LocalOK, CachedOK, JobCacheOK, Loaded, ConfigDone, At
  <1>3. /\ TypeOK /\ job[j].pc \in {"loaded", "loadedFor", "configDone"} /\ t # None
        /\ ~Out(j) /\ ~Reserves(j) /\ ~Creating(j) /\ ~Loader(j)
    BY <1>1, TunnelManagerAssumption, Zenon DEF StoreInv, Out, Reserves, Creating, Loader, Loaded, ConfigDone, At
  <1>4. /\ UNCHANGED <<tunnelMap, lastUsedTunnel, savedLast, name, state, files, completed, savedRunning, running>>
        /\ config' \in [Objects -> Configs \cup {None}] /\ config'[t] = c /\ \A u \in Objects : u # t => config'[u] = config[u]
    BY <1>1, <1>2, <1>3 DEF Loaded, ConfigDone, list, disk, TypeOK
  <1>5. /\ job' \in [Jobs -> Coroutine] /\ \A i \in Jobs : i # j => job'[i] = job[i]
        /\ \/ job'[j].pc = "idle" /\ job'[j].tunnel = None
           \/ job'[j].pc = "setBackend" /\ job'[j].tunnel = t
    <2>1. CASE Goto(j, "setBackend")
      BY <1>1, <1>3, <2>1, GotoFacts, LabelFacts, Zenon
    <2>2. CASE End(j)
      BY <1>3, <2>2, EndFacts, IdleFacts, Zenon
    <2> QED
      BY <2>1, <2>2, Zenon DEF Loaded, ConfigDone
  <1>6. \A i \in Jobs : i # j => job[i].tunnel # t
    BY <1>1, <1>3, Zenon DEF StoreInv, KeysOK, Exclusive
  <1>7. \A i \in Jobs : i # j => Unmoved(i)
    <2>1. \A i \in Jobs : job[i].tunnel \in Objects \cup {None}
      BY <1>3, Zenon DEF TypeOK, Coroutine
    <2>2. \A i \in Jobs : i # j => Apart(i)
      BY <1>4, <1>6, <2>1, Zenon DEF Apart, StoreInv, LocalOK
    <2> QED
      BY <1>4, <1>5, <2>2, ListBystander, Zenon
  <1>8. ~Out(j)' /\ ~Reserves(j)' /\ LocalOK(j)' /\ LoadMoves(j) /\ FileOK(j)' /\ JobCacheOK(j)'
    BY <1>1, <1>3, <1>4, <1>5, Zenon DEF LocalOK, FileOK, JobCacheOK, LoadMoves, Out, In, Creating, Reserves, Loader
  <1>9. TypeOK'
    BY <1>3, <1>4, <1>5, Zenon DEF TypeOK
  <1>10. KeysOK'
    <2>1. Exclusive'
      BY <1>1, <1>5 DEF StoreInv, KeysOK, Exclusive
    <2>2. \A i \in Jobs : KeepsKeys(i)
      BY <1>5, <1>7, <1>8, Zenon DEF KeepsKeys, Unmoved
    <2> QED
      BY <1>4, <2>1, <2>2, KeysStep, Zenon
  <1>11. ASSUME NEW u \in tunnelMap PROVE files'[name'[u]] # "absent" /\ CacheOK(u)'
    <2>1. files[name[u]] # "absent" /\ CacheOK(u) /\ u \in Objects
      BY <1>3, <1>11, Zenon DEF StoreInv, FilesOK, CachedOK, TypeOK
    <2>2. CASE u = t
      BY <1>2, <1>4, <2>1, <2>2, Zenon DEF CacheOK
    <2>3. CASE u # t
      BY <1>1, <1>3, <1>4, <1>5, <2>1, <2>3, Zenon DEF CacheOK
    <2> QED
      BY <2>2, <2>3, Zenon
  <1>12. \A m \in Names : Kept(m)' => Accounted(m)' \/ (Kept(m) /\ (Accounted(m) => Accounted(m)'))
    <2>1. \A m \in Names : Accounted(m) => Accounted(m)'
      BY <1>3, <1>4, <1>5, <1>7, ZenonT(60) DEF Accounted, containsKey, Unmoved
    <2>2. \A m \in Names : Kept(m)' => Kept(m)
      BY <1>4, Zenon DEF Kept
    <2> QED
      BY <2>1, <2>2, Zenon
  <1>13. LastUsedOK'
    BY <1>4, Zenon DEF StoreInv, LastUsedOK
  <1>14. \A i \in Jobs : LocalOK(i)' /\ FileOK(i)' /\ JobCacheOK(i)' /\ LoadMoves(i)
    BY <1>7, <1>8, Zenon DEF Unmoved
  <1> QED
    BY <1>4, <1>9, <1>10, <1>11, <1>12, <1>13, <1>14, Assemble, Zenon

\* A process that has just started, on the files and settings it finds.
Started ==
    /\ \E b \in Jobs : job = [j \in Jobs |-> [Idle EXCEPT !.pc = IF j = b THEN "enumerate" ELSE "idle"]]
    /\ tunnelMap = {} /\ lastUsedTunnel = None /\ completed = FALSE
    /\ name = [t \in Objects |-> None]
    /\ state = [t \in Objects |-> "DOWN"]
    /\ config = [t \in Objects |-> None]
    /\ running = Nothing
    /\ files \in [Names -> Configs \cup {"empty", "absent"}]
    /\ savedLast \in Names \cup {None} /\ savedRunning \subseteq Names
    /\ overlap \in {"none", "early", "other"}

\* The invariant holds then, whatever the files are.
LEMMA StartedInv == Started => StoreInv /\ SavesAlone /\ Uncached
  <1> SUFFICES ASSUME Started PROVE StoreInv /\ SavesAlone /\ Uncached
    BY Zenon
  <1>1. PICK b \in Jobs : job = [j \in Jobs |-> [Idle EXCEPT !.pc = IF j = b THEN "enumerate" ELSE "idle"]]
    BY Zenon DEF Started
  <1>2. /\ job \in [Jobs -> Coroutine] /\ job[b].pc = "enumerate" /\ \A i \in Jobs : i # b => job[i].pc = "idle"
        /\ \A i \in Jobs : job[i].tunnel = None /\ job[i].pc \in {"enumerate", "idle"}
    <2> DEFINE At1(l) == [Idle EXCEPT !.pc = l]
    <2>1. \A l \in Labels : At1(l) \in Coroutine /\ At1(l).pc = l /\ At1(l).tunnel = None
      BY Zenon DEF Idle, Coroutine, States
    <2>2. \A i \in Jobs : job[i] = At1(IF i = b THEN "enumerate" ELSE "idle")
      BY <1>1, Zenon
    <2>3. (IF TRUE THEN "enumerate" ELSE "idle") \in Labels /\ "enumerate" \in Labels /\ "idle" \in Labels
      BY Zenon DEF Labels
    <2> HIDE DEF At1
    <2>4. job = [j \in Jobs |-> At1(IF j = b THEN "enumerate" ELSE "idle")]
      BY <1>1, Zenon DEF At1
    <2> QED
      BY <2>1, <2>2, <2>3, <2>4, Zenon
  <1>3. \A i \in Jobs : ~Out(i) /\ ~In(i) /\ ~Creating(i) /\ ~Reserves(i) /\ ~Saving(i) /\ (Loader(i) => i = b)
    BY <1>2, Zenon DEF Out, In, Creating, Reserves, Saving, Loader
  <1>4. TypeOK
    BY <1>2, Zenon DEF Started, TypeOK, States
  <1>5. \A i \in Jobs : LocalOK(i) /\ FileOK(i) /\ JobCacheOK(i)
    BY <1>2, <1>3, Zenon DEF LocalOK, FileOK, JobCacheOK
  <1>6. KeysOK
    BY <1>2, <1>3, Zenon DEF Started, KeysOK, Exclusive
  <1>7. FilesOK /\ CachedOK
    BY <1>5, Zenon DEF Started, FilesOK, CachedOK
  <1>8. LoadingOK
    BY <1>2, <1>3, Zenon DEF Started, LoadingOK, Loader
  <1>9. AccountsOK
    BY <1>2, Zenon DEF AccountsOK, Accounted
  <1>10. LastUsedOK
    BY Zenon DEF Started, LastUsedOK
  <1>11. SavesAlone /\ Uncached
    BY <1>3, Zenon DEF Started, SavesAlone, Uncached
  <1> QED
    BY <1>4, <1>5, <1>6, <1>7, <1>8, <1>9, <1>10, <1>11, Zenon DEF Started, StoreInv

\* A crash between any two steps, and the start after it, preserve the
\* invariant.
LEMMA RestartKeeps ==
  ASSUME StoreInv, UNCHANGED overlap, Restart
  PROVE  StoreInv' /\ SavesAlone' /\ Uncached'
  <1>1. Started'
    BY Zenon DEF StoreInv, TypeOK, Restart, Started
  <1> QED
    BY <1>1, StartedInv, PTL

\* A step of j that only moves j from one line of onCreate to the next leaves
\* what the cached configurations say of the files.
LEMMA CachesStay ==
  ASSUME StoreInv, NEW j \in Jobs, \A i \in Jobs : i # j => job'[i] = job[i],
         job[j].pc \notin {"configDone", "createWrite"}, job'[j].pc \notin {"configDone", "createWrite"},
         files' = files, name' = name, config' = config
  PROVE  \A t \in tunnelMap : files[name[t]] # "absent" /\ CacheOK(t)'
  <1>1. \A t \in tunnelMap : files[name[t]] # "absent" /\ CacheOK(t)
    BY Zenon DEF StoreInv, FilesOK, CachedOK
  <1>2. \A i \in Jobs : /\ job[i].pc = "configDone" => job'[i] = job[i]
                        /\ job'[i].pc = "createWrite" => job'[i] = job[i]
    BY Zenon
  <1>3. \A t \in tunnelMap : CacheOK(t) => CacheOK(t)'
    BY <1>2, Zenon DEF CacheOK
  <1> QED
    BY <1>1, <1>3, Zenon

\* onCreate: enumerating the files preserves the invariant.
LEMMA EnumerateKeeps ==
  ASSUME StoreInv, NEW j \in Jobs, UNCHANGED overlap, Enumerate(j)
  PROVE  StoreInv'
  <1>1. /\ TypeOK /\ job[j].pc = "enumerate" /\ job[j].tunnel = None
        /\ ~Out(j) /\ ~Reserves(j) /\ ~Creating(j) /\ ~In(j) /\ Loader(j)
        /\ UNCHANGED <<tunnelMap, lastUsedTunnel, savedLast, completed, name, state, config, files, savedRunning, running>>
    BY Zenon DEF StoreInv, LocalOK, Out, In, Reserves, Creating, Loader, Enumerate, At, list, objects, disk
  <1>2. /\ job' \in [Jobs -> Coroutine] /\ \A i \in Jobs : i # j => job'[i] = job[i]
        /\ job'[j].pc = "tunnelsLoaded" /\ job'[j].tunnel = None /\ job'[j].seen = {n \in Names : files[n] # "absent"}
    <2>1. PICK q \in SUBSET Names : q = {n \in Names : files[n] # "absent"}
      BY Zenon
    <2> DEFINE r == [job[j] EXCEPT !.pc = "tunnelsLoaded", !.seen = q]
    <2>2. job[j] \in Coroutine
      BY <1>1, Zenon DEF TypeOK
    <2>3. r \in Coroutine /\ r.pc = "tunnelsLoaded" /\ r.tunnel = None /\ r.seen = q
      BY <1>1, <2>2, ZenonT(60) DEF Coroutine, Labels
    <2>4. job' = [job EXCEPT ![j] = r]
      BY <2>1, Zenon DEF Enumerate
    <2> HIDE DEF r
    <2> QED
      BY <1>1, <2>1, <2>3, <2>4, SetFacts, Zenon
  <1>3. \A i \in Jobs : i # j => Unmoved(i)
    <2>1. \A i \in Jobs : Apart(i)
      BY <1>1, Zenon DEF Apart, StoreInv, LocalOK
    <2> QED
      BY <1>1, <1>2, <2>1, ListBystander, Zenon
  <1>4. ~Out(j)' /\ ~Reserves(j)' /\ ~Creating(j)' /\ ~In(j)' /\ Loader(j)'
    BY <1>2, Zenon DEF Out, In, Creating, Reserves, Loader
  <1>5. LocalOK(j)' /\ FileOK(j)' /\ JobCacheOK(j)'
    BY <1>1, <1>2, <1>4, Zenon DEF LocalOK, FileOK, JobCacheOK
  <1>6. TypeOK'
    BY <1>1, <1>2, Zenon DEF TypeOK
  <1>7. KeysOK'
    <2>1. Exclusive'
      BY <1>2, ZenonT(60) DEF StoreInv, KeysOK, Exclusive
    <2>2. \A i \in Jobs : KeepsKeys(i)
      BY <1>2, <1>3, <1>4, Zenon DEF KeepsKeys, Unmoved
    <2> QED
      BY <1>1, <2>1, <2>2, KeysStep, Zenon
  <1>8. FilesOK' /\ CachedOK'
    <2>1. \A i \in Jobs : FileOK(i)' /\ JobCacheOK(i)'
      BY <1>3, <1>5, Zenon DEF Unmoved
    <2>2. \A t \in tunnelMap : files[name[t]] # "absent" /\ CacheOK(t)'
      BY <1>1, <1>2, CachesStay, Zenon
    <2> QED
      BY <1>1, <2>1, <2>2, Zenon DEF FilesOK, CachedOK
  <1>9. LoadingOK'
    <2>1. \A i \in Jobs : i # j => (Loader(i)' <=> Loader(i)) /\ job'[i].pc = job[i].pc
      BY <1>2, Zenon DEF Loader
    <2> QED
      BY <1>1, <1>2, <1>3, <1>4, <2>1, Zenon DEF StoreInv, LoadingOK, Unmoved
  <1>10. AccountsOK'
    BY <1>1, <1>2, TunnelManagerAssumption, Zenon DEF AccountsOK, Kept, Accounted
  <1>11. LastUsedOK'
    BY <1>1, Zenon DEF StoreInv, LastUsedOK
  <1>12. \A i \in Jobs : LocalOK(i)'
    BY <1>3, <1>5, ZenonT(60) DEF Unmoved
  <1> QED
    BY <1>6, <1>7, <1>8, <1>9, <1>10, <1>11, <1>12, Zenon DEF StoreInv

\* restoreState returning completes the list; nothing is forgotten then.
LEMMA RestoreDoneKeeps ==
  ASSUME StoreInv, NEW j \in Jobs, UNCHANGED overlap, RestoreDone(j)
  PROVE  StoreInv'
  <1>1. /\ TypeOK /\ job[j].pc = "restoring" /\ completed'
        /\ ~Out(j) /\ ~Reserves(j) /\ ~Creating(j) /\ ~In(j) /\ Loader(j)
        /\ UNCHANGED <<tunnelMap, lastUsedTunnel, savedLast, name, state, config, files, savedRunning, running>>
    BY Zenon DEF StoreInv, Out, In, Reserves, Creating, Loader, RestoreDone, At, list, objects, disk
  <1>2. /\ job' \in [Jobs -> Coroutine] /\ \A i \in Jobs : i # j => job'[i] = job[i]
        /\ job'[j].pc = "idle" /\ job'[j].tunnel = None
    BY <1>1, EndFacts, IdleFacts, Zenon DEF RestoreDone
  <1>3. \A i \in Jobs : i # j => Unmoved(i)
    <2>1. \A i \in Jobs : Apart(i)
      BY <1>1, Zenon DEF Apart, StoreInv, LocalOK
    <2> QED
      BY <1>1, <1>2, <2>1, ListBystander, Zenon
  <1>4. ~Out(j)' /\ ~Reserves(j)' /\ ~Creating(j)' /\ ~In(j)'
    BY <1>2, Zenon DEF Out, In, Creating, Reserves
  <1>5. LocalOK(j)' /\ FileOK(j)' /\ JobCacheOK(j)'
    BY <1>1, <1>2, <1>4, Zenon DEF LocalOK, FileOK, JobCacheOK
  <1>6. TypeOK'
    BY <1>1, <1>2, Zenon DEF TypeOK, RestoreDone
  <1>7. KeysOK'
    <2>1. Exclusive'
      BY <1>2, ZenonT(60) DEF StoreInv, KeysOK, Exclusive
    <2>2. \A i \in Jobs : KeepsKeys(i)
      BY <1>2, <1>3, <1>4, Zenon DEF KeepsKeys, Unmoved
    <2> QED
      BY <1>1, <2>1, <2>2, KeysStep, Zenon
  <1>8. FilesOK' /\ CachedOK'
    <2>1. \A i \in Jobs : FileOK(i)' /\ JobCacheOK(i)'
      BY <1>3, <1>5, Zenon DEF Unmoved
    <2>2. \A t \in tunnelMap : files[name[t]] # "absent" /\ CacheOK(t)'
      BY <1>1, <1>2, CachesStay, Zenon
    <2> QED
      BY <1>1, <2>1, <2>2, Zenon DEF FilesOK, CachedOK
  <1>9. LoadingOK'
    <2>1. \A i \in Jobs : i # j => job[i].pc \notin {"enumerate", "tunnelsLoaded", "restore"}
      BY <1>1, Zenon DEF StoreInv, LoadingOK, Loader
    <2>2. \A i \in Jobs : job'[i].pc \notin {"enumerate", "tunnelsLoaded", "restore"}
      BY <1>2, <2>1, Zenon
    <2> QED
      BY <1>1, <2>2, Zenon DEF LoadingOK
  <1>10. AccountsOK'
    <2>1. \A n \in Names : Kept(n) => Accounted(n)
      BY <1>1, Zenon DEF StoreInv, AccountsOK
    <2>2. \A n \in Names : Accounted(n) => Accounted(n)'
      BY <1>1, <1>2, <1>3, Zenon DEF Accounted, containsKey, Unmoved
    <2>3. \A n \in Names : Kept(n)' => Kept(n)
      BY <1>1, Zenon DEF Kept
    <2> QED
      BY <2>1, <2>2, <2>3, Zenon DEF AccountsOK
  <1>11. LastUsedOK'
    BY <1>1, Zenon DEF StoreInv, LastUsedOK
  <1>12. \A i \in Jobs : LocalOK(i)'
    BY <1>3, <1>5, Zenon DEF Unmoved
  <1> QED
    BY <1>6, <1>7, <1>8, <1>9, <1>10, <1>11, <1>12, Zenon DEF StoreInv

\* What onTunnelsLoaded does to the list: each name gets an object of its own,
\* or the first name that is listed already ends it.
LEMMA LoadedFacts ==
  ASSUME StoreInv, NEW j \in Jobs, onTunnelsLoaded(j)
  PROVE  \E added \in SUBSET job[j].seen :
           /\ \A n \in added : ~containsKey(n)
           /\ \A u \in tunnelMap : u \in tunnelMap' /\ name'[u] = name[u]
           /\ \A u \in tunnelMap' : u \notin tunnelMap => u \in Fresh /\ name'[u] \in added
           /\ \A u \in Objects : u \notin tunnelMap' => name'[u] = name[u]
           /\ \A n \in added : \E u \in tunnelMap' : name'[u] = n
           /\ \A u, v \in tunnelMap' : u \notin tunnelMap /\ v \notin tunnelMap /\ name'[u] = name'[v] => u = v
           /\ tunnelMap' \subseteq Objects /\ name' \in [Objects -> Names \cup {None}]
           /\ \/ /\ added = job[j].seen /\ Goto(j, "restore")
                 /\ \/ lastUsedTunnel' = lastUsedTunnel
                    \/ lastUsedTunnel' \in tunnelMap' /\ name'[lastUsedTunnel'] = savedLast
              \/ /\ End(j) /\ lastUsedTunnel' = lastUsedTunnel
                 /\ \E n \in job[j].seen : containsKey(n)
  <1> DEFINE new == {n \in job[j].seen : ~containsKey(n)}
  <1>1. PICK added \in IF new = job[j].seen THEN {new} ELSE SUBSET new :
        \E obj \in Injection(added, Fresh) :
          /\ tunnelMap' = tunnelMap \cup Range(obj)
          /\ name' = [t \in Objects |-> IF t \in Range(obj) THEN CHOOSE n \in added : obj[n] = t ELSE name[t]]
          /\ \/ /\ new = job[j].seen
                /\ lastUsedTunnel' = IF savedLast \in new THEN obj[savedLast] ELSE lastUsedTunnel
                /\ Goto(j, "restore")
             \/ new # job[j].seen /\ End(j) /\ UNCHANGED lastUsedTunnel
    BY Zenon DEF onTunnelsLoaded
  <1>2. PICK obj \in Injection(added, Fresh) :
          /\ tunnelMap' = tunnelMap \cup Range(obj)
          /\ name' = [t \in Objects |-> IF t \in Range(obj) THEN CHOOSE n \in added : obj[n] = t ELSE name[t]]
          /\ \/ /\ new = job[j].seen
                /\ lastUsedTunnel' = IF savedLast \in new THEN obj[savedLast] ELSE lastUsedTunnel
                /\ Goto(j, "restore")
             \/ new # job[j].seen /\ End(j) /\ UNCHANGED lastUsedTunnel
    BY <1>1, Zenon
  <1>3. /\ added \in SUBSET job[j].seen /\ \A n \in added : ~containsKey(n)
        /\ new = job[j].seen => added = job[j].seen
        /\ new # job[j].seen => \E n \in job[j].seen : containsKey(n)
    BY <1>1, Zenon
  <1>4. /\ obj \in [added -> Fresh] /\ \A n, m \in added : obj[n] = obj[m] => n = m
    BY <1>2, Zenon DEF Injection, IsInjective
  <1>5. /\ TypeOK /\ job[j].seen \subseteq Names /\ Fresh \subseteq Objects /\ \A u \in Fresh : u \notin tunnelMap
    BY Zenon DEF StoreInv, LocalOK, onTunnelsLoaded, At, Fresh
  <1>6. Range(obj) = {obj[n] : n \in added}
    BY <1>4, Zenon DEF Range
  <1>7. \A n \in added : obj[n] \in Range(obj) /\ obj[n] \in Fresh /\ name'[obj[n]] = n
    <2> TAKE n \in added
    <2>1. obj[n] \in Range(obj) /\ obj[n] \in Fresh /\ obj[n] \in Objects
      BY <1>4, <1>5, <1>6, Zenon
    <2>2. name'[obj[n]] = CHOOSE m \in added : obj[m] = obj[n]
      BY <1>2, <2>1, Zenon
    <2>3. \A m \in added : obj[m] = obj[n] => m = n
      BY <1>4, Zenon
    <2>4. (CHOOSE m \in added : obj[m] = obj[n]) = n
      BY <2>3, Zenon
    <2> QED
      BY <2>1, <2>2, <2>4, Zenon
  <1>8. \A u \in Range(obj) : \E n \in added : u = obj[n]
    BY <1>6, Zenon
  <1>9. \A u \in Objects : u \notin Range(obj) => name'[u] = name[u]
    BY <1>2, Zenon
  <1> HIDE DEF new
  <1>10. \A u \in tunnelMap : u \in tunnelMap' /\ u \in Objects /\ u \notin Range(obj)
    BY <1>2, <1>5, <1>7, <1>8 DEF TypeOK
  <1>11. \A u \in tunnelMap' : u \notin tunnelMap => u \in Range(obj)
    BY <1>2, Zenon
  <1>12. \A u \in tunnelMap' : u \notin tunnelMap => u \in Fresh /\ name'[u] \in added
    BY <1>7, <1>8, <1>11
  <1>13. \A n \in added : \E u \in tunnelMap' : name'[u] = n
    BY <1>2, <1>7, Zenon
  <1>14. \A u, v \in tunnelMap' : u \notin tunnelMap /\ v \notin tunnelMap /\ name'[u] = name'[v] => u = v
    BY <1>7, <1>8, <1>11
  <1>15. tunnelMap' \subseteq Objects
    BY <1>5, <1>12, Zenon DEF TypeOK
  <1>16. name' \in [Objects -> Names \cup {None}]
    <2>1. \A u \in Objects : name'[u] \in Names \cup {None}
      BY <1>3, <1>5, <1>7, <1>8, <1>9 DEF TypeOK
    <2>2. name' = [t \in Objects |-> name'[t]]
      BY <1>2
    <2> QED
      BY <2>1, <2>2, Zenon
  <1>17. \A u \in Objects : u \notin tunnelMap' => name'[u] = name[u]
    BY <1>2, <1>9, Zenon
  <1>18. new = job[j].seen /\ savedLast \in new => obj[savedLast] \in tunnelMap' /\ name'[obj[savedLast]] = savedLast
    BY <1>2, <1>3, <1>7, Zenon
  <1>19. \/ /\ added = job[j].seen /\ Goto(j, "restore")
            /\ \/ lastUsedTunnel' = lastUsedTunnel
               \/ lastUsedTunnel' \in tunnelMap' /\ name'[lastUsedTunnel'] = savedLast
         \/ /\ End(j) /\ lastUsedTunnel' = lastUsedTunnel
            /\ \E n \in job[j].seen : containsKey(n)
    BY <1>2, <1>3, <1>18, Zenon
  <1> QED
    BY <1>3, <1>9, <1>10, <1>12, <1>13, <1>14, <1>15, <1>16, <1>17, <1>19, ZenonT(60)

\* onTunnelsLoaded preserves the invariant.
LEMMA LoadedKeeps ==
  ASSUME StoreInv, Uncached, NEW j \in Jobs, UNCHANGED overlap, onTunnelsLoaded(j)
  PROVE  StoreInv'
  <1>1. PICK added \in SUBSET job[j].seen :
           /\ \A n \in added : ~containsKey(n)
           /\ \A u \in tunnelMap : u \in tunnelMap' /\ name'[u] = name[u]
           /\ \A u \in tunnelMap' : u \notin tunnelMap => u \in Fresh /\ name'[u] \in added
           /\ \A u \in Objects : u \notin tunnelMap' => name'[u] = name[u]
           /\ \A n \in added : \E u \in tunnelMap' : name'[u] = n
           /\ \A u, v \in tunnelMap' : u \notin tunnelMap /\ v \notin tunnelMap /\ name'[u] = name'[v] => u = v
           /\ tunnelMap' \subseteq Objects /\ name' \in [Objects -> Names \cup {None}]
           /\ \/ /\ added = job[j].seen /\ Goto(j, "restore")
                 /\ \/ lastUsedTunnel' = lastUsedTunnel
                    \/ lastUsedTunnel' \in tunnelMap' /\ name'[lastUsedTunnel'] = savedLast
              \/ /\ End(j) /\ lastUsedTunnel' = lastUsedTunnel
                 /\ \E n \in job[j].seen : containsKey(n)
    BY LoadedFacts, Zenon
  <1>2. /\ TypeOK /\ job[j].pc = "tunnelsLoaded" /\ job[j].tunnel = None /\ job[j].seen \subseteq Names
        /\ ~Out(j) /\ ~Reserves(j) /\ ~Creating(j) /\ ~In(j) /\ Loader(j)
        /\ UNCHANGED <<completed, state, config, savedLast, files, savedRunning, running>>
        /\ \A n \in added : n \in Names /\ files[n] # "absent"
    BY Zenon DEF StoreInv, LocalOK, FilesOK, FileOK, Out, In, Reserves, Creating, Loader, onTunnelsLoaded, At, disk
  <1>3. /\ ~completed /\ \A i \in Jobs : ~Out(i) /\ (Loader(i) => i = j)
        /\ \A i \in Jobs : Creating(i) => overlap = "early"
        /\ overlap # "early" => tunnelMap = {}
    BY <1>2, Zenon DEF StoreInv, LoadingOK
  <1>4. /\ job' \in [Jobs -> Coroutine] /\ \A i \in Jobs : i # j => job'[i] = job[i]
        /\ job'[j].tunnel = None
        /\ \/ job'[j].pc = "restore" /\ added = job[j].seen
           \/ job'[j].pc = "idle" /\ overlap = "early"
    <2>1. CASE Goto(j, "restore") /\ added = job[j].seen
      BY <1>2, <2>1, GotoFacts, LabelFacts, Zenon
    <2>2. CASE End(j) /\ \E n \in job[j].seen : containsKey(n)
      BY <1>2, <1>3, <2>2, EndFacts, IdleFacts, Zenon DEF containsKey
    <2> QED
      BY <1>1, <2>1, <2>2, Zenon
  <1>5. \A i \in Jobs : i # j => Unmoved(i)
    <2>1. \A i \in Jobs : job[i].tunnel # None => job[i].tunnel \in Objects /\ job[i].tunnel \notin Fresh
      BY <1>2, Zenon DEF TypeOK, Coroutine, Fresh, Uses
    <2>2. \A i \in Jobs : job[i].tunnel # None => name'[job[i].tunnel] = name[job[i].tunnel]
      BY <1>1, <2>1, Zenon
    <2>3. \A i \in Jobs : /\ In(i) => job[i].tunnel \in tunnelMap'
                          /\ job[i].pc = "restoring" => job[i].seen \subseteq tunnelMap'
      BY <1>1, Zenon DEF StoreInv, LocalOK
    <2>4. \A i \in Jobs : Apart(i)
      BY <1>2, <1>3, <2>2, <2>3, Zenon DEF Apart
    <2> QED
      BY <1>2, <1>4, <2>4, ListBystander, Zenon
  <1>6. ~Out(j)' /\ ~Reserves(j)' /\ ~Creating(j)' /\ ~In(j)'
    BY <1>4, Zenon DEF Out, In, Creating, Reserves
  <1>7. LocalOK(j)' /\ FileOK(j)' /\ JobCacheOK(j)'
    BY <1>4, <1>6, Zenon DEF LocalOK, FileOK, JobCacheOK
  <1>8. TypeOK'
    <2>1. lastUsedTunnel' \in Objects \cup {None}
      BY <1>1, <1>2, Zenon DEF TypeOK
    <2> QED
      BY <1>1, <1>2, <1>4, <2>1, Zenon DEF TypeOK
  <1>9. \A i \in Jobs : ~Out(i)'
    BY <1>3, <1>5, <1>6, Zenon DEF Unmoved
  <1>10. KeysOK'
    <2>1. Exclusive'
      BY <1>2, <1>4 DEF StoreInv, KeysOK, Exclusive
    <2>2. \A u \in tunnelMap : name[u] \in Names /\ name[u] \notin added
      BY <1>1, Zenon DEF StoreInv, KeysOK, containsKey
    <2>3. \A u \in tunnelMap' : name'[u] \in Names
      BY <1>1, <1>2, <2>2, Zenon
    <2>4. \A u, v \in tunnelMap' : name'[u] = name'[v] => u = v
      <3>1. \A u, v \in tunnelMap : name[u] = name[v] => u = v
        BY Zenon DEF StoreInv, KeysOK
      <3> QED
        BY <1>1, <2>2, <3>1, Zenon
    <2>5. \A i \in Jobs : Reserves(i)' => overlap' = "early" /\ Creating(i)'
      <3>1. \A i \in Jobs : Reserves(i)' => Creating(i)'
        BY <1>9, Zenon DEF Reserves, Creating, Out
      <3> QED
        BY <1>3, <1>5, <1>6, <3>1, Zenon DEF Unmoved
    <2>6. \A i, k \in Jobs : i # k /\ Reserves(i)' /\ Reserves(k)' => job'[i].name # job'[k].name
      BY <1>4, <1>5, <1>6, Zenon DEF StoreInv, KeysOK, Unmoved
    <2> QED
      BY <1>9, <2>1, <2>3, <2>4, <2>5, <2>6, ZenonT(60) DEF KeysOK
  <1>11. FilesOK' /\ CachedOK'
    <2>1. \A i \in Jobs : FileOK(i)' /\ JobCacheOK(i)'
      BY <1>5, <1>7, Zenon DEF Unmoved
    <2>2. \A u \in tunnelMap : files[name'[u]] # "absent" /\ CacheOK(u)'
      BY <1>1, <1>2, <1>4 DEF StoreInv, FilesOK, CachedOK, CacheOK
    <2>3. \A u \in tunnelMap' : u \notin tunnelMap => files[name'[u]] # "absent" /\ CacheOK(u)'
      BY <1>1, <1>2, <1>3, Zenon DEF Uncached, CacheOK
    <2> QED
      BY <1>2, <2>1, <2>2, <2>3, Zenon DEF FilesOK, CachedOK
  <1>12. \A i \in Jobs : i # j => ~Loader(i)' /\ job'[i].pc \notin {"enumerate", "tunnelsLoaded", "restore"}
    BY <1>3, <1>4, Zenon DEF Loader
  <1>13. LoadingOK'
    <2>1. job'[j].pc = "restore" => Loader(j)'
      BY Zenon DEF Loader
    <2>2. \A i \in Jobs : job'[i].pc \notin {"enumerate", "tunnelsLoaded"}
      BY <1>4, <1>12, Zenon
    <2>3. \A i \in Jobs : Creating(i)' => overlap = "early"
      BY <1>3, <1>5, <1>6, Zenon DEF Unmoved
    <2> QED
      BY <1>2, <1>3, <1>4, <1>9, <1>12, <2>1, <2>2, <2>3, Zenon DEF LoadingOK
  <1>14. AccountsOK'
    <2>1. SUFFICES ASSUME \E i \in Jobs : Loader(i)', NEW n \in Names, Kept(n)'
                   PROVE  Accounted(n)'
      BY <1>2, <1>3, Zenon DEF AccountsOK
    <2>2. added = job[j].seen
      <3>1. Loader(j)'
        BY <1>12, <2>1, Zenon
      <3> QED
        BY <1>4, <3>1, Zenon DEF Loader
    <2>3. Kept(n) /\ Accounted(n)
      BY <1>2, <2>1, Zenon DEF StoreInv, AccountsOK, Kept
    <2>4. containsKey(n) => containsKey(n)'
      BY <1>1, Zenon DEF containsKey
    <2>5. n \in added => containsKey(n)'
      BY <1>1, Zenon DEF containsKey
    <2>6. \A i \in Jobs : i # j => job[i].pc \notin {"enumerate", "tunnelsLoaded"}
      BY <1>3, Zenon DEF Loader
    <2> QED
      BY <1>2, <1>3, <1>4, <1>5, <2>2, <2>3, <2>4, <2>5, <2>6, Zenon DEF Accounted, Unmoved
  <1>15. LastUsedOK'
    BY <1>1, <1>2, Zenon DEF StoreInv, LastUsedOK
  <1>16. \A i \in Jobs : LocalOK(i)'
    BY <1>5, <1>7, Zenon DEF Unmoved
  <1> QED
    BY <1>8, <1>10, <1>11, <1>13, <1>14, <1>15, <1>16, Zenon DEF StoreInv

=============================================================================
