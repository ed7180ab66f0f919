------------------------- MODULE TunnelManagerProofs -------------------------
(***************************************************************************)
(* TunnelManager for any number of tunnels, names, configurations and      *)
(* coroutines.  First its list and its files agree: StoreIInv is an        *)
(* invariant, and the properties of the runs and the refinement of         *)
(* TunnelStore follow from it.  Then the state it shows is the backend's,  *)
(* when whoever calls it awaits each operation.                            *)
(***************************************************************************)
EXTENDS TunnelManagerInvariant

\* The coroutine i begins neither a save nor a create.
Calm(i) == (Saving(i)' => Saving(i)) /\ (Creating(i)' => Creating(i))

\* A step of j is calm when j is.
LEMMA StaysCalm ==
  ASSUME NEW j \in Jobs, \A i \in Jobs \ {j} : job'[i] = job[i],
         job'[j].pc \in {"createFile", "createWrite", "createAdd"} => Creating(j),
         job'[j].pc \in {"saveCheck", "saveWrite", "configDone"} => Saving(j)
  PROVE  \A i \in Jobs : Calm(i)
  BY Zenon DEF Calm, Saving, Creating

\* Only calls begin a save or a create.
LEMMA StepCalm ==
  ASSUME StoreInv, NEW j \in Jobs, Step(j)
  PROVE  (\A i \in Jobs : Calm(i)) /\ (completed => completed')
  <1>1. TypeOK
    BY Zenon DEF StoreInv
  <1>2. CASE CreateFile(j) \/ CreateWrite(j) \/ CreateAdd(j)
    <2>1. completed' = completed /\ Creating(j)
      BY <1>2, Zenon DEF CreateFile, CreateWrite, CreateAdd, At, Creating
    <2>2. Goto(j, "createWrite") \/ Goto(j, "createAdd") \/ End(j)
      BY <1>2, Zenon DEF CreateFile, CreateWrite, CreateAdd
    <2>3. /\ \A i \in Jobs \ {j} : job'[i] = job[i]
          /\ job'[j].pc \in {"createWrite", "createAdd", "idle"}
      BY <1>1, <2>2, GotoFacts, EndFacts, IdleFacts, LabelFacts, Zenon
    <2> QED
      BY <2>1, <2>3, StaysCalm, Zenon
  <1>3. CASE DeleteDown(j) \/ DeleteFile(j) \/ DeleteUndo(j) \/ DeletePutBack(j)
    <2>1. completed' = completed
      BY <1>3, Zenon DEF DeleteDown, DeleteFile, DeleteUndo, DeletePutBack
    <2>2. \/ Goto(j, "deleteFile") \/ Goto(j, "deleteUndo") \/ Goto(j, "deletePutBack")
          \/ PutBack(j, "deletePutBack") \/ End(j)
      BY <1>3, Zenon DEF DeleteDown, DeleteFile, DeleteUndo, DeletePutBack
    <2>3. /\ \A i \in Jobs \ {j} : job'[i] = job[i]
          /\ job'[j].pc \in {"deleteFile", "deleteUndo", "deletePutBack", "idle"}
      BY <1>1, <2>2, GotoFacts, PutBackFacts, EndFacts, IdleFacts, LabelFacts, Zenon
    <2> QED
      BY <2>1, <2>3, StaysCalm, Zenon
  <1>4. CASE \/ RenameDown(j) \/ RenameMark(j) \/ RenameMove(j) \/ RenameName(j) \/ RenameUp(j)
             \/ RenameState(j) \/ RenameAdd(j)
    <2>1. completed' = completed
      BY <1>4, Zenon DEF RenameDown, RenameMark, RenameMove, RenameName, RenameUp, RenameState, RenameAdd
    <2>2. \/ Goto(j, "renameMark") \/ Goto(j, "renameCheck") \/ Goto(j, "renameMove") \/ Goto(j, "renameName")
          \/ Goto(j, "renameUp") \/ PutBack(j, "renameAdd") \/ End(j)
      BY <1>4, Zenon DEF RenameDown, RenameMark, RenameMove, RenameName, RenameUp, RenameState, RenameAdd
    <2>3. /\ \A i \in Jobs \ {j} : job'[i] = job[i]
          /\ job'[j].pc \in {"renameMark", "renameCheck", "renameMove", "renameName", "renameUp", "renameAdd", "idle"}
      BY <1>1, <2>2, GotoFacts, PutBackFacts, EndFacts, IdleFacts, LabelFacts, Zenon
    <2> QED
      BY <2>1, <2>3, StaysCalm, Zenon
  <1>5. CASE RenameCheck(j)
    <2>1. completed' = completed /\ (\A i \in Jobs \ {j} : job'[i] = job[i]) /\ job'[j].pc = "renameState"
      BY <1>1, <1>5, Zenon DEF RenameCheck, TypeOK, Coroutine
    <2> QED
      BY <2>1, StaysCalm, Zenon
  <1>6. CASE GetConfig(j)
    <2>1. /\ completed' = completed /\ \A i \in Jobs \ {j} : job'[i] = job[i]
          /\ job'[j].pc \in {"loadFor", "setBackend"}
      BY <1>1, <1>6, ZenonT(60) DEF GetConfig, TypeOK, Coroutine
    <2> QED
      BY <2>1, StaysCalm, Zenon
  <1>7. CASE Load(j)
    <2>1. completed' = completed /\ \A i \in Jobs \ {j} : job'[i] = job[i]
      BY <1>1, <1>7, Zenon DEF Load, LoadFails, Report, End, TypeOK
    <2>2. job'[j].pc \in {"loaded", "loadedFor", "idle", "stateDone"}
      <3>1. CASE LoadFails(j)
        <4>1. Idle.pc = "idle" /\ [Idle EXCEPT !.pc = "stateDone", !.tunnel = job[j].tunnel, !.orig = job[j].orig,
                                           !.failed = TRUE, !.restored = job[j].restored].pc = "stateDone"
          BY Zenon DEF Idle
        <4> QED
          BY <1>1, <3>1, <4>1, Zenon DEF LoadFails, Report, End, TypeOK
      <3>2. CASE ~LoadFails(j)
        <4>1. PICK l \in {"loaded", "loadedFor"}, c \in Configs : job' = [job EXCEPT ![j] = [job[j] EXCEPT !.pc = l, !.config = c]]
          BY <1>7, <3>2, Zenon DEF Load
        <4>2. [job[j] EXCEPT !.pc = l, !.config = c].pc = l
          BY <1>1, Zenon DEF TypeOK, Coroutine
        <4> QED
          BY <1>1, <4>1, <4>2, Zenon DEF TypeOK
      <3> QED
        BY <3>1, <3>2, Zenon
    <2> QED
      BY <2>1, <2>2, StaysCalm, Zenon
  <1>8. CASE Loaded(j) \/ ConfigDone(j) \/ RefreshApply(j) \/ RestoreDone(j)
    <2>1. completed => completed'
      BY <1>8, Zenon DEF Loaded, ConfigDone, RefreshApply, RestoreDone
    <2>2. End(j) \/ Goto(j, "setBackend")
      BY <1>8, Zenon DEF Loaded, ConfigDone, RefreshApply, RestoreDone
    <2>3. /\ \A i \in Jobs \ {j} : job'[i] = job[i]
          /\ job'[j].pc \in {"idle", "setBackend"}
      BY <1>1, <2>2, GotoFacts, EndFacts, IdleFacts, LabelFacts, Zenon
    <2> QED
      BY <2>1, <2>3, StaysCalm, Zenon
  <1>9. CASE SetBackend(j)
    <2>1. completed' = completed /\ \E s, f : Report(j, s, f)
      BY <1>9, Zenon DEF SetBackend
    <2>2. (\A i \in Jobs \ {j} : job'[i] = job[i]) /\ job'[j].pc = "stateDone"
      BY <1>1, <2>1, ZenonT(60) DEF Report, TypeOK, Idle
    <2> QED
      BY <2>1, <2>2, StaysCalm, Zenon
  <1>10. CASE StateDone(j)
    <2>1. completed' = completed /\ \A i \in Jobs : job'[i].pc \in {job[i].pc, "idle"}
      BY <1>1, <1>10, IdleFacts, Zenon DEF StateDone, TypeOK, Coroutine
    <2> QED
      BY <2>1, Zenon DEF Calm, Saving, Creating
  <1>11. CASE SaveCheck(j)
    <2>1. completed' = completed /\ (\A i \in Jobs \ {j} : job'[i] = job[i]) /\ job'[j].pc \in {"saveWrite", "idle"}
      <3>1. CASE End(j)
        BY <1>1, <1>11, <3>1, EndFacts, IdleFacts, Zenon DEF SaveCheck
      <3>2. CASE job' = [job EXCEPT ![j] = [job[j] EXCEPT !.pc = "saveWrite", !.name = name[job[j].tunnel]]]
        BY <1>1, <1>11, <3>2, Zenon DEF SaveCheck, TypeOK, Coroutine
      <3> QED
        BY <1>11, <3>1, <3>2, Zenon DEF SaveCheck, SaveFails
    <2>2. Saving(j)
      BY <1>11, Zenon DEF SaveCheck, At, Saving
    <2> QED
      BY <2>1, <2>2, StaysCalm, Zenon
  <1>12. CASE SaveWrite(j)
    <2>1. completed' = completed /\ Saving(j) /\ (Goto(j, "configDone") \/ End(j))
      BY <1>12, Zenon DEF SaveWrite, At, Saving
    <2>2. (\A i \in Jobs \ {j} : job'[i] = job[i]) /\ job'[j].pc \in {"configDone", "idle"}
      BY <1>1, <2>1, GotoFacts, EndFacts, IdleFacts, LabelFacts, Zenon
    <2> QED
      BY <2>1, <2>2, StaysCalm, Zenon
  <1>13. CASE Enumerate(j) \/ Restore(j)
    <2>1. completed' = completed /\ (\A i \in Jobs \ {j} : job'[i] = job[i]) /\ job'[j].pc \in {"tunnelsLoaded", "restoring"}
      <3>1. CASE Enumerate(j)
        BY <1>1, <3>1, Zenon DEF Enumerate, TypeOK, Coroutine
      <3>2. CASE Restore(j)
        BY <1>1, <3>2, Zenon DEF Restore, TypeOK, Coroutine
      <3> QED
        BY <1>13, <3>1, <3>2, Zenon
    <2> QED
      BY <2>1, StaysCalm, Zenon
  <1>14. CASE onTunnelsLoaded(j)
    <2>1. completed' = completed /\ (End(j) \/ Goto(j, "restore"))
      BY <1>14, Zenon DEF onTunnelsLoaded
    <2>2. (\A i \in Jobs \ {j} : job'[i] = job[i]) /\ job'[j].pc \in {"restore", "idle"}
      BY <1>1, <2>1, GotoFacts, EndFacts, IdleFacts, LabelFacts, Zenon
    <2> QED
      BY <2>1, <2>2, StaysCalm, Zenon
  <1>15. CASE \E i \in Jobs, t \in Objects : RestoreOne(j, i, t)
    <2>1. PICK i \in Jobs, t \in Objects : RestoreOne(j, i, t)
      BY <1>15, Zenon
    <2>2. job[j].pc = "restoring" /\ job[i].pc = "idle" /\ i # j
      BY <2>1, Zenon DEF RestoreOne, At
    <2>3. \A k \in Jobs : job'[k].pc \in {job[k].pc, "getConfig"}
      BY <1>1, <2>1, <2>2, ZenonT(60) DEF RestoreOne, TypeOK, Coroutine, Idle
    <2> QED
      BY <2>1, <2>3, Zenon DEF RestoreOne, Calm, Saving, Creating
  <1> QED
    BY <1>2, <1>3, <1>4, <1>5, <1>6, <1>7, <1>8, <1>9, <1>10, <1>11, <1>12, <1>13, <1>14, <1>15, Zenon DEF Step

\* A call keeps SavesAlone: setTunnelConfig begins when create has ended.
LEMMA CallAlone ==
  ASSUME StoreInv, SavesAlone, NEW j \in Jobs, UNCHANGED overlap, Call(j)
  PROVE  SavesAlone' /\ completed' = completed
  <1>1. TypeOK /\ completed' = completed
    BY Zenon DEF StoreInv, Call, create, delete, getTunnelConfig, setTunnelName, setTunnelState, setTunnelConfig,
           refreshTunnelStates, restoreState
  <1>2. CASE \E n \in Names, c \in Configs : create(j, n, c)
    <2>1. PICK n \in Names, c \in Configs : create(j, n, c)
      BY <1>2, Zenon
    <2>2. (\A i \in Jobs \ {j} : job'[i] = job[i]) /\ job'[j].pc = "createFile"
      BY <1>1, <2>1, Zenon DEF create, TypeOK, Idle
    <2>3. ~completed \/ overlap = "other" \/ Quiet
      BY <2>1, Zenon DEF create, Begin, Allowed, StoreInv
    <2>4. overlap = "other" \/ \A i \in Jobs : ~Saving(i)
      BY <2>3, Zenon DEF SavesAlone, Quiet, At, Saving
    <2>5. \A i \in Jobs : Saving(i)' => Saving(i)
      BY <2>2, Zenon DEF Saving
    <2> QED
      BY <1>1, <2>4, <2>5, Zenon DEF SavesAlone
  <1>3. CASE \E t \in Objects, c \in Configs : setTunnelConfig(j, t, c)
    <2>1. PICK t \in Objects, c \in Configs : setTunnelConfig(j, t, c)
      BY <1>3, Zenon
    <2>2. \A i \in Jobs \ {j} : job'[i] = job[i]
      BY <1>1, <2>1, Zenon DEF setTunnelConfig, TypeOK
    <2>3. job'[j].pc \in {"saveCheck", "idle"}
      BY <1>1, <2>1, Zenon DEF setTunnelConfig, Begin, At, TypeOK, Idle
    <2>4. completed /\ (overlap = "other" \/ Quiet)
      BY <2>1, Zenon DEF setTunnelConfig, Begin, Allowed, StoreInv
    <2>5. overlap = "other" \/ \A i \in Jobs : ~Creating(i)
      BY <2>4, Zenon DEF Quiet, At, Creating
    <2>6. \A i \in Jobs : Creating(i)' => Creating(i)
      BY <2>2, <2>3, Zenon DEF Creating
    <2> QED
      BY <1>1, <2>4, <2>5, <2>6, Zenon DEF SavesAlone
  <1> DEFINE Others == {"deleteDown", "deleteFile", "renameDown", "renameMark", "load", "getConfig", "refreshApply", "restoring"}
  <1>4. ASSUME \A i \in Jobs \ {j} : job'[i] = job[i], job'[j].pc \in Others
        PROVE  SavesAlone'
    <2>1. \A i \in Jobs : Calm(i)
      BY <1>4, StaysCalm, Zenon
    <2> QED
      BY <1>1, <2>1, Zenon DEF SavesAlone, Calm
  <1>5. CASE \E t \in Objects : delete(j, t) \/ \E n \in Names : setTunnelName(j, t, n)
    <2>1. PICK t \in Objects : delete(j, t) \/ \E n \in Names : setTunnelName(j, t, n)
      BY <1>5, Zenon
    <2>2. CASE delete(j, t)
      <3>1. (\A i \in Jobs \ {j} : job'[i] = job[i]) /\ job'[j].pc \in Others
        BY <1>1, <2>2, Zenon DEF delete, TypeOK, Idle
      <3> QED
        BY <1>1, <1>4, <3>1, Zenon
    <2>3. CASE \E n \in Names : setTunnelName(j, t, n)
      <3>1. (\A i \in Jobs \ {j} : job'[i] = job[i]) /\ job'[j].pc \in Others
        BY <1>1, <2>3 DEF setTunnelName, TypeOK, Idle
      <3> QED
        BY <1>1, <1>4, <3>1, Zenon
    <2> QED
      BY <2>1, <2>2, <2>3, Zenon
  <1>6. CASE \E t \in Objects : getTunnelConfig(j, t) \/ \E s \in States \cup {"TOGGLE"} : setTunnelState(j, t, s)
    BY <1>1, <1>4, <1>6, ZenonT(60) DEF getTunnelConfig, setTunnelState, TypeOK, Idle
  <1>7. CASE refreshTunnelStates(j) \/ restoreState(j)
    BY <1>1, <1>4, <1>7, Zenon DEF refreshTunnelStates, restoreState, TypeOK, Idle
  <1> QED
    BY <1>1, <1>2, <1>3, <1>5, <1>6, <1>7, Zenon DEF Call

\* No operation caches a configuration before the list is complete, but for
\* the one create has written.
LEMMA UncachedStep ==
  ASSUME StoreInv, Uncached, NEW j \in Jobs, Call(j) \/ Step(j), completed => completed'
  PROVE  Uncached'
  <1>1. TypeOK
    BY Zenon DEF StoreInv
  <1>2. SUFFICES ASSUME ~completed, ~completed', NEW t \in Objects, t \notin tunnelMap' PROVE config'[t] = None
    BY Zenon DEF Uncached
  <1>3. CASE config' = config /\ tunnelMap \subseteq tunnelMap'
    BY <1>2, <1>3, Zenon DEF Uncached
  <1>4. CASE Loaded(j) \/ ConfigDone(j)
    <2>1. job[j].tunnel \in tunnelMap /\ tunnelMap' = tunnelMap
      BY <1>4, Zenon DEF StoreInv, LocalOK, In, Loaded, ConfigDone, At, list
    <2> QED
      BY <1>1, <1>2, <1>4, <2>1, Zenon DEF Uncached, Loaded, ConfigDone, TypeOK
  <1>5. CASE CreateAdd(j)
    BY <1>1, <1>2, <1>5, Zenon DEF Uncached, CreateAdd, TypeOK, objects
  <1>6. CASE DeleteFile(j)
    BY <1>1, <1>2, <1>6, Zenon DEF Uncached, DeleteFile, Collect, TypeOK, objects, list
  <1>7. CASE Call(j)
    <2>1. config' = config /\ tunnelMap \subseteq tunnelMap'
      BY <1>2, <1>7, Zenon DEF Call, create, delete, getTunnelConfig, setTunnelName, setTunnelState, setTunnelConfig,
                        refreshTunnelStates, restoreState, Begin, list, objects
    <2> QED
      BY <1>3, <2>1, Zenon
  <1>8. CASE DeletePutBack(j) \/ RenameAdd(j)
    BY <1>3, <1>8, Zenon DEF DeletePutBack, RenameAdd, AddBack, list, objects
  <1>9. CASE onTunnelsLoaded(j)
    <2>1. config' = config /\ tunnelMap \subseteq tunnelMap'
      BY <1>9, Zenon DEF onTunnelsLoaded
    <2> QED
      BY <1>3, <2>1, Zenon
  <1>10. CASE \/ CreateFile(j) \/ CreateWrite(j)
              \/ DeleteDown(j) \/ DeleteUndo(j)
              \/ RenameDown(j) \/ RenameMark(j) \/ RenameMove(j) \/ RenameName(j) \/ RenameUp(j)
              \/ RenameCheck(j) \/ RenameState(j)
    <2>1. config' = config /\ tunnelMap' = tunnelMap
      BY <1>10, Zenon DEF CreateFile, CreateWrite, DeleteDown, DeleteUndo, RenameDown, RenameMark, RenameMove, RenameName,
                   RenameUp, RenameCheck, RenameState, list, objects
    <2> QED
      BY <1>3, <2>1, Zenon
  <1>11. CASE \/ GetConfig(j) \/ Load(j) \/ SetBackend(j) \/ StateDone(j)
              \/ SaveCheck(j) \/ SaveWrite(j) \/ RefreshApply(j)
              \/ Enumerate(j) \/ Restore(j) \/ RestoreDone(j)
              \/ \E i \in Jobs, u \in Objects : RestoreOne(j, i, u)
    <2>1. config' = config /\ tunnelMap' = tunnelMap
      BY <1>11, Zenon DEF GetConfig, Load, SetBackend, StateDone, SaveCheck, SaveWrite, RefreshApply, Enumerate, Restore,
                   RestoreDone, RestoreOne, list, objects
    <2> QED
      BY <1>3, <2>1, Zenon
  <1> QED
    BY <1>4, <1>5, <1>6, <1>7, <1>8, <1>9, <1>10, <1>11, Zenon DEF Step

\* The first start.
LEMMA StoreInit ==
  ASSUME Init, "any" \notin Overlaps
  PROVE  StoreIInv
  <1>1. Started
    BY TunnelManagerAssumption, Zenon DEF Init, Started
  <1> QED
    BY <1>1, StartedInv, Zenon DEF StoreIInv

\* Every step preserves the inductive invariant.
LEMMA StoreStep ==
  ASSUME StoreIInv, [Next]_vars
  PROVE  StoreIInv'
  <1> USE DEF StoreIInv
  <1>1. CASE UNCHANGED vars
    <2>1. \A i \in Jobs : Moves(i)
      BY <1>1, Stays, Zenon DEF vars, list, objects, disk
    <2>2. Exclusive' /\ TypeOK' /\ LastUsedOK'
      BY <1>1, Zenon DEF StoreInv, KeysOK, Exclusive, TypeOK, LastUsedOK, vars, list, objects, disk
    <2>3. SavesAlone' /\ Uncached'
      BY <1>1, Zenon DEF SavesAlone, Saving, Creating, Uncached, vars, list, objects
    <2> QED
      BY <1>1, <2>1, <2>2, <2>3, LightStep, Zenon DEF vars, list, objects, disk
  <1>2. CASE Restart /\ UNCHANGED overlap
    BY <1>2, RestartKeeps, Zenon
  <1>3. CASE Revoke /\ UNCHANGED overlap
    <2>1. SavesAlone' /\ Uncached'
      BY <1>3, Zenon DEF Revoke, SavesAlone, Saving, Creating, Uncached, list
    <2> QED
      BY <1>3, <2>1, RevokeKeeps, Zenon
  <1>4. ASSUME NEW j \in Jobs, Call(j), UNCHANGED overlap PROVE StoreIInv'
    <2>1. StoreInv'
      BY <1>4, PlainKeeps, BeginKeeps, TakeOutKeeps, Zenon DEF Call
    <2>2. SavesAlone' /\ completed' = completed
      BY <1>4, CallAlone, Zenon
    <2>3. Uncached'
      BY <1>4, <2>2, UncachedStep, Zenon
    <2> QED
      BY <2>1, <2>2, <2>3, Zenon
  <1>5. ASSUME NEW j \in Jobs, Step(j), UNCHANGED overlap PROVE StoreIInv'
    <2>1. StoreInv'
      BY <1>5, CreateFileKeeps, CreateWriteKeeps, CreateAddKeeps, OutKeeps, DeleteFileKeeps, AddBackKeeps,
         RenameMarkKeeps, RenameMoveKeeps, RenameNameKeeps, InKeeps, CacheKeeps, StateDoneKeeps, SaveWriteKeeps,
         PlainKeeps, EnumerateKeeps, LoadedKeeps, RestoreDoneKeeps, RestoreOneKeeps, ZenonT(60) DEF Step
    <2>2. (\A i \in Jobs : Calm(i)) /\ (completed => completed')
      BY <1>5, StepCalm, Zenon
    <2>3. SavesAlone'
      BY <1>5, <2>2, Zenon DEF SavesAlone, Calm
    <2>4. Uncached'
      BY <1>5, <2>2, UncachedStep, Zenon
    <2> QED
      BY <2>1, <2>3, <2>4, Zenon
  <1> QED
    BY <1>1, <1>2, <1>3, <1>4, <1>5, Zenon DEF Next

\* The list, the files, the cached configurations and what every coroutine
\* counts on agree in every reachable state, whatever fails and whenever the
\* process dies (TunnelManager and FileConfigStore), when operations on the
\* same tunnel do not overlap.
THEOREM StoreInvariant ==
  ASSUME "any" \notin Overlaps
  PROVE  Spec => []StoreIInv
  <1>1. Init => StoreIInv
    BY StoreInit, Zenon
  <1>2. StoreIInv /\ [Next]_vars => StoreIInv'
    BY StoreStep, Zenon
  <1> QED
    BY <1>1, <1>2, PTL DEF Spec

\* TunnelManager, its files and settings and the backend hold values of their
\* types.
THEOREM TypeCorrect ==
  ASSUME "any" \notin Overlaps
  PROVE  Spec => []TypeOK
  <1>1. StoreIInv => TypeOK
    BY Zenon DEF StoreIInv, StoreInv
  <1> QED
    BY <1>1, StoreInvariant, PTL

\* Between operations no coroutine holds a tunnel or a name.
LEMMA QuietFacts ==
  ASSUME Quiet, NEW j \in Jobs
  PROVE  /\ ~Out(j) /\ ~Reserves(j) /\ ~Loader(j)
         /\ job[j].pc \notin {"enumerate", "tunnelsLoaded", "configDone", "createWrite"}
  BY Zenon DEF Quiet, At, Out, Reserves, Loader

\* Once loaded, between operations, the list and the files agree (create,
\* delete, setTunnelName, setTunnelConfig, onCreate), when writing to a file
\* that exists does not fail.
THEOREM StoreMatchesCorrect ==
  ASSUME "any" \notin Overlaps, ~WritesFail
  PROVE  Spec => []StoreMatches
  <1>1. StoreIInv => StoreMatches
    <2> SUFFICES ASSUME StoreInv, Quiet, completed
                 PROVE  /\ {name[t] : t \in tunnelMap} = {n \in Names : files[n] # "absent"}
                        /\ \A t \in tunnelMap : config[t] \in {None, files[name[t]]}
      BY Zenon DEF StoreIInv, StoreMatches
    <2>1. \A n \in Names : files[n] # "absent" => containsKey(n)
      BY QuietFacts, Zenon DEF StoreInv, AccountsOK, Accounted, Kept
    <2>2. \A t \in tunnelMap : name[t] \in Names /\ files[name[t]] # "absent"
      BY Zenon DEF StoreInv, KeysOK, FilesOK
    <2>3. \A t \in tunnelMap : config[t] \in {None, files[name[t]]}
      BY QuietFacts, Zenon DEF StoreInv, CachedOK, CacheOK
    <2> QED
      BY <2>1, <2>2, <2>3 DEF containsKey
  <1> QED
    BY <1>1, StoreInvariant, PTL

\* The last used tunnel is a listed one and the one whose name is stored (the
\* setter of lastUsedTunnel around delete and setTunnelName).
THEOREM LastUsedCorrect ==
  ASSUME "any" \notin Overlaps
  PROVE  Spec => []LastUsedMatches
  <1>1. StoreIInv => LastUsedMatches
    BY Zenon DEF StoreIInv, StoreInv, LastUsedOK, LastUsedMatches
  <1> QED
    BY <1>1, StoreInvariant, PTL

\* Even when writes fail, no stored configuration is unlisted between
\* operations, when nothing is created before the list is loaded (create,
\* setTunnelConfig, FileConfigStore.save).
THEOREM ConfigsListedCorrect ==
  ASSUME Overlaps \cap {"any", "early"} = {}
  PROVE  Spec => []ConfigsListed
  <1>1. "any" \notin Overlaps
    BY Zenon
  <1>2. Spec => []StoreIInv
    BY <1>1, StoreInvariant, Zenon
  <1> DEFINE Later == overlap # "early"
  <1>3. Init => Later
    BY Zenon DEF Init
  <1>4. Later /\ [Next]_vars => Later'
    BY Zenon DEF Next, vars
  <1>5. StoreIInv /\ Later => ConfigsListed
    <2> SUFFICES ASSUME StoreInv, overlap # "early", Quiet
                 PROVE  /\ \A n \in Names : files[n] \in Configs => containsKey(n)
                        /\ \A t \in tunnelMap : files[name[t]] # "absent"
                        /\ \A t \in tunnelMap : config[t] \in {None, files[name[t]]} \/ files[name[t]] = "empty"
      BY Zenon DEF StoreIInv, ConfigsListed
    <2>1. completed
      BY QuietFacts, Zenon DEF StoreInv, LoadingOK
    <2>2. \A n \in Names : files[n] \in Configs => containsKey(n)
      BY <2>1, QuietFacts, Zenon DEF StoreInv, AccountsOK, Accounted, Kept
    <2>3. \A t \in tunnelMap : files[name[t]] # "absent"
      BY Zenon DEF StoreInv, FilesOK
    <2>4. \A t \in tunnelMap : config[t] \in {None, files[name[t]]} \/ files[name[t]] = "empty"
      BY QuietFacts, Zenon DEF StoreInv, CachedOK, CacheOK
    <2> QED
      BY <2>2, <2>3, <2>4, Zenon
  <1> HIDE DEF Later
  <1> QED
    BY <1>2, <1>3, <1>4, <1>5, PTL DEF Spec

\* create and rename write into the empty file they made; save writes into a
\* file that exists.
LEMMA WritesReserved ==
  ASSUME StoreIInv, NEW j \in Jobs
  PROVE  /\ CreateWrite(j) \/ RenameMove(j) => files[job[j].name] = "empty"
         /\ SaveWrite(j) => files[job[j].name] # "absent"
  <1>1. CreateWrite(j) \/ RenameMove(j) => files[job[j].name] = "empty"
    BY Zenon DEF StoreIInv, StoreInv, FilesOK, FileOK, CreateWrite, RenameMove, At
  <1>2. SaveWrite(j) => files[job[j].name] # "absent"
    BY Zenon DEF StoreIInv, StoreInv, FilesOK, CachedOK, JobCacheOK, LocalOK, In, SaveWrite, At
  <1> QED
    BY <1>1, <1>2, Zenon

\* FileConfigStore.save never brings back a file that was deleted between its
\* check and its write.
THEOREM SavesExistingCorrect ==
  ASSUME "any" \notin Overlaps
  PROVE  Spec => SavesExisting
  <1>1. StoreIInv => (\A j \in Jobs : SaveWrite(j) => files[job[j].name] # "absent")
    BY WritesReserved, Zenon
  <1> QED
    BY <1>1, StoreInvariant, PTL DEF SavesExisting

\* A change of one file is a step of the abstract store, or none.
LEMMA OneFile ==
  ASSUME TypeOK, NEW n \in Names, NEW v \in Configs \cup {"empty", "absent"}, files' = [files EXCEPT ![n] = v]
  PROVE  [Store!Next]_Stored
  <1>1. /\ DOMAIN files = Names /\ \A m \in Names : files'[m] = IF m = n THEN v ELSE files[m]
    BY Zenon DEF TypeOK
  <1>2. Stored' = [Stored EXCEPT ![n] = IF v \in Configs THEN v ELSE None]
    BY <1>1, Zenon DEF Stored
  <1>3. Stored[n] = (IF files[n] \in Configs THEN files[n] ELSE None) /\ None \notin Configs
    BY TunnelManagerAssumption, Zenon DEF Stored
  <1>4. CASE v \in Configs /\ files[n] \in Configs
    <2>1. Store!Save(n, v)
      BY <1>2, <1>3, <1>4, Zenon DEF Store!Save
    <2> QED
      BY <1>4, <2>1, Zenon DEF Store!Next
  <1>5. CASE v \in Configs /\ files[n] \notin Configs
    <2>1. Store!Create(n, v)
      BY <1>2, <1>3, <1>5, Zenon DEF Store!Create
    <2> QED
      BY <1>5, <2>1, Zenon DEF Store!Next
  <1>6. CASE v \notin Configs /\ files[n] \in Configs
    <2>1. Store!Delete(n)
      BY <1>2, <1>3, <1>6, Zenon DEF Store!Delete
    <2> QED
      BY <2>1, Zenon DEF Store!Next
  <1>7. CASE v \notin Configs /\ files[n] \notin Configs
    <2>1. Stored' = Stored
      BY <1>2, <1>3, <1>7, Zenon DEF Stored
    <2> QED
      BY <2>1, Zenon
  <1> QED
    BY <1>4, <1>5, <1>6, <1>7, Zenon

\* Each step of TunnelManager is one step of the abstract store, or none.
LEMMA StoreSteps ==
  ASSUME StoreIInv, [Next]_vars
  PROVE  [Store!Next]_Stored
  <1>1. StoreInv /\ TypeOK /\ "empty" \notin Configs /\ "absent" \notin Configs
    BY TunnelManagerAssumption, Zenon DEF StoreIInv, StoreInv
  <1>2. CASE files' = files
    BY <1>2, Zenon DEF Stored
  <1>3. ASSUME NEW j \in Jobs, CreateFile(j) \/ RenameMark(j) PROVE [Store!Next]_Stored
    <2>1. job[j].name \in Names
      BY <1>1, <1>3, Zenon DEF StoreInv, LocalOK, CreateFile, RenameMark, At, Creating
    <2> QED
      BY <1>1, <1>2, <1>3, <2>1, OneFile, Zenon DEF CreateFile, RenameMark, createNewFile
  <1>4. ASSUME NEW j \in Jobs, CreateWrite(j) \/ SaveWrite(j) PROVE [Store!Next]_Stored
    <2>1. job[j].name \in Names /\ job[j].config \in Configs
      BY <1>1, <1>4, Zenon DEF StoreInv, LocalOK, KeysOK, CachedOK, JobCacheOK, CreateWrite, SaveWrite, At, Creating, In
    <2> QED
      BY <1>1, <1>4, <2>1, OneFile, Zenon DEF CreateWrite, SaveWrite
  <1>5. ASSUME NEW j \in Jobs, DeleteFile(j) PROVE [Store!Next]_Stored
    <2>1. name[job[j].tunnel] \in Names
      BY <1>1, <1>5, Zenon DEF StoreInv, LocalOK, DeleteFile, At, Out
    <2> QED
      BY <1>1, <1>2, <1>5, <2>1, OneFile, Zenon DEF DeleteFile
  <1>6. ASSUME NEW j \in Jobs, RenameMove(j) PROVE [Store!Next]_Stored
    <2>1. PICK old \in Names, new \in Names : old = name[job[j].tunnel] /\ new = job[j].name
      BY <1>1, <1>6, Zenon DEF StoreInv, LocalOK, RenameMove, At, Out
    <2>2. files[new] = "empty"
      BY <1>6, <2>1, WritesReserved, Zenon
    <2>3. CASE Unmark(new)
      BY <1>1, <2>3, OneFile, Zenon DEF Unmark
    <2>4. CASE files[old] # "absent" /\ files' = [files EXCEPT ![old] = "absent", ![new] = files[old]]
      <3>1. old # new
        BY <1>1, <1>6, <2>1, Zenon DEF StoreInv, KeysOK, RenameMove, At, Reserves, Out, Key
      <3>2. files \in [Names -> Configs \cup {"empty", "absent"}]
        BY <1>1, Zenon DEF TypeOK
      <3>3. \A m \in Names : files'[m] = IF m = old THEN "absent" ELSE IF m = new THEN files[old] ELSE files[m]
        BY <2>4, <3>1, <3>2, Zenon
      <3>4. CASE files[old] \in Configs
        <4>1. Stored[old] = files[old] /\ Stored[old] # None /\ Stored[new] = None
          BY <1>1, <2>2, <3>4, TunnelManagerAssumption, Zenon DEF Stored
        <4>2. Stored' = [Stored EXCEPT ![old] = None, ![new] = Stored[old]]
          BY <1>1, <3>1, <3>3, <3>4, <4>1, Zenon DEF Stored
        <4>3. Store!Rename(old, new)
          BY <4>1, <4>2, Zenon DEF Store!Rename
        <4> QED
          BY <4>3, Zenon DEF Store!Next
      <3>5. CASE files[old] \notin Configs
        <4>1. Stored' = Stored
          BY <1>1, <2>2, <3>1, <3>3, <3>5, Zenon DEF Stored
        <4> QED
          BY <4>1, Zenon
      <3> QED
        BY <3>4, <3>5, Zenon
    <2> QED
      BY <1>6, <2>1, <2>3, <2>4, Zenon DEF RenameMove
  <1>7. ASSUME NEW j \in Jobs, Call(j) PROVE files' = files
    BY <1>7, Zenon DEF Call, create, delete, getTunnelConfig, setTunnelName, setTunnelState, setTunnelConfig,
                refreshTunnelStates, restoreState, disk
  <1>8. ASSUME NEW j \in Jobs, Step(j) PROVE [Store!Next]_Stored
    <2>1. CASE CreateAdd(j) \/ DeleteDown(j) \/ DeleteUndo(j) \/ DeletePutBack(j) \/ RenameDown(j) \/ RenameName(j) \/ RenameUp(j)
               \/ RenameCheck(j) \/ RenameState(j) \/ RenameAdd(j) \/ GetConfig(j) \/ Load(j) \/ Loaded(j)
      <3>1. files' = files
        BY <2>1, Zenon DEF CreateAdd, DeleteDown, DeleteUndo, DeletePutBack, RenameDown, RenameName, RenameUp, RenameCheck,
                    RenameState, RenameAdd, GetConfig, Load, Loaded, disk
      <3> QED
        BY <1>2, <3>1, Zenon
    <2>2. CASE SetBackend(j) \/ StateDone(j) \/ SaveCheck(j) \/ ConfigDone(j) \/ RefreshApply(j) \/ Enumerate(j)
               \/ onTunnelsLoaded(j) \/ Restore(j) \/ RestoreDone(j) \/ \E i \in Jobs, t \in Objects : RestoreOne(j, i, t)
      <3>1. files' = files
        BY <2>2, Zenon DEF SetBackend, StateDone, SaveCheck, ConfigDone, RefreshApply, Enumerate, onTunnelsLoaded, Restore,
                    RestoreDone, RestoreOne, disk
      <3> QED
        BY <1>2, <3>1, Zenon
    <2> QED
      BY <1>3, <1>4, <1>5, <1>6, <1>8, <2>1, <2>2, Zenon DEF Step
  <1>9. CASE UNCHANGED vars \/ Restart \/ Revoke
    <2>1. files' = files
      BY <1>9, Zenon DEF vars, disk, Restart, Revoke
    <2> QED
      BY <1>2, <2>1, Zenon
  <1> QED
    BY <1>2, <1>7, <1>8, <1>9, Zenon DEF Next

\* The files behave as the abstract store that ConfigStore promises: create,
\* save, rename and delete each take effect at once, whatever runs meanwhile
\* and whenever the process dies.
THEOREM StoreRefined ==
  ASSUME "any" \notin Overlaps
  PROVE  Spec => StoreSpec
  <1>1. Init => Store!Init
    BY TunnelManagerAssumption DEF Init, Store!Init, Stored
  <1>2. StoreIInv /\ [Next]_vars => [Store!Next]_Stored
    BY StoreSteps, Zenon
  <1> QED
    BY <1>1, <1>2, StoreInvariant, PTL DEF Spec, StoreSpec, Store!Spec

-----------------------------------------------------------------------------
(* The state shown *)

\* The state shown of t is what the backend does.
Agree(t) == state[t] = "UP" <=> running.tunnel = t

\* j works on a tunnel, or is about to apply what the backend answered.
Busy(j) == Out(j) \/ In(j) \/ job[j].pc = "refreshApply"

\* What a coroutine knows of states is still so when it uses it: the state a
\* catch block found, the original state setTunnelState falls back to, the
\* answer refreshTunnelStates got, the tunnels restoreState is to raise.
JobStateOK(j) ==
    /\ Out(j) => Agree(job[j].tunnel)
    /\ job[j].pc \in {"renameState", "stateDone"} => (job[j].orig = "UP" <=> running.tunnel = job[j].tunnel)
    /\ job[j].pc = "deleteFile" => running.tunnel # job[j].tunnel
    /\ job[j].pc \in {"getConfig", "loadFor", "loadedFor", "setBackend"} =>
          job[j].orig = state[job[j].tunnel] /\ job[j].orig # job[j].want
    /\ job[j].pc = "refreshApply" => job[j].seen = runningTunnelNames
    /\ job[j].pc \in {"enumerate", "tunnelsLoaded"} => running = Nothing /\ \A t \in Objects : state[t] = "DOWN"
    /\ job[j].pc = "restoring" => /\ \A t \in job[j].seen : state[t] = "DOWN"
                                  /\ \A t, u \in job[j].seen : t = u

\* One operation at a time; the loading of the list comes first, and
\* restoreState raises its tunnel alone.
Serial ==
    /\ \A i, j \in Jobs : Busy(i) /\ Busy(j) => i = j
    /\ \A i, j \in Jobs : Loader(i) /\ Loader(j) => i = j
    /\ \A i, j \in Jobs : job[i].pc \in {"enumerate", "tunnelsLoaded", "restore"} => ~Busy(j)
    /\ \A i, j \in Jobs : job[i].pc = "restoring" /\ job[i].seen # {} => ~Busy(j)

\* The states shown, where the running tunnel is, and the running tunnel
\* saveState has stored: GoBackend runs one at most.
Shown ==
    /\ \A t \in tunnelMap : Agree(t)
    /\ \/ running.tunnel \in tunnelMap \cup {None}
       \/ \E j \in Jobs : Out(j) /\ running.tunnel = job[j].tunnel
    /\ \A n, m \in savedRunning : n = m

\* What the operations preserve when each is awaited.
StateCore == Serial /\ (\A j \in Jobs : JobStateOK(j)) /\ Shown

\* The inductive invariant.
StateIInv == overlap \in {"none", "early"} => StateCore

\* No other coroutine works on a tunnel.
Alone(j) == \A i \in Jobs : i # j => ~Busy(i) /\ (Loader(i) => job[i].pc = "restoring" /\ job[i].seen = {})

\* A coroutine that works on a tunnel does so alone.
LEMMA BusyAlone ==
  ASSUME Serial, NEW j \in Jobs, Busy(j)
  PROVE  Alone(j)
  BY Zenon DEF Serial, Alone, Loader

\* So does one that begins an operation.
LEMMA QuietAlone ==
  ASSUME Quiet, NEW j \in Jobs
  PROVE  Alone(j)
  BY Zenon DEF Quiet, At, Alone, Busy, Out, In, Loader

\* A step of a coroutine that is alone has only its own state to account for.
LEMMA BusyStep ==
  ASSUME Serial, NEW j \in Jobs, Alone(j),
         \A i \in Jobs : i # j => job'[i].pc = job[i].pc /\ job'[i].seen = job[i].seen,
         ~Loader(j)', JobStateOK(j)', Shown'
  PROVE  Serial' /\ (\A i \in Jobs : JobStateOK(i)') /\ Shown'
  <1>1. \A i \in Jobs : i # j => ~Busy(i)' /\ (Loader(i)' <=> Loader(i)) /\ (Loader(i)' => job'[i].pc = "restoring" /\ job'[i].seen = {})
    BY Zenon DEF Alone, Busy, Out, In, Loader
  <1>2. Serial'
    <2>1. \A i, k \in Jobs : Loader(i)' /\ Loader(k)' => i = k
      BY <1>1, Zenon DEF Serial
    <2>2. \A i \in Jobs : job'[i].pc \notin {"enumerate", "tunnelsLoaded", "restore"}
      BY <1>1, Zenon DEF Loader
    <2>3. \A i \in Jobs : job'[i].pc = "restoring" => job'[i].seen = {}
      BY <1>1, Zenon DEF Loader
    <2> QED
      BY <1>1, <2>1, <2>2, <2>3, Zenon DEF Serial
  <1>3. ASSUME NEW i \in Jobs, i # j PROVE JobStateOK(i)'
    <2>1. ~Out(i)' /\ ~In(i)' /\ job'[i].pc # "refreshApply"
      BY <1>1, <1>3, Zenon DEF Busy
    <2>2. job'[i].pc \notin {"renameState", "stateDone", "deleteFile", "getConfig", "loadFor", "loadedFor", "setBackend"}
      BY <2>1, Zenon DEF Out, In
    <2>3. /\ job'[i].pc \notin {"enumerate", "tunnelsLoaded"}
          /\ job'[i].pc = "restoring" => job'[i].seen = {}
      BY <1>1, <1>3, Zenon DEF Loader
    <2> QED
      BY <2>1, <2>2, <2>3, Zenon DEF JobStateOK
  <1> QED
    BY <1>2, <1>3, Zenon

\* Backend.setState, whether it returns or throws, leaves no tunnel with a
\* state that is not its own, and runs t, nothing or what ran before.
LEMMA BackendAgrees ==
  ASSUME TypeOK, NEW t \in Objects, NEW s \in States \cup {"TOGGLE"}, NEW c \in Configs \cup {None},
         setState(t, s, c) \/ setStateFails(t, s, c), NEW u \in Objects, Agree(u)
  PROVE  Agree(u)' /\ running'.tunnel \in {t, None, running.tunnel}
  <1>1. /\ state \in [Objects -> States] /\ running.tunnel \in Objects \cup {None} /\ None \notin Objects
        /\ Nothing.tunnel = None
    BY TunnelManagerAssumption DEF TypeOK, Nothing
  <1>2. CASE Raised(t, c)
    <2>1. running'.tunnel = t
      BY <1>2, Zenon DEF Raised
    <2>2. CASE running' = running
      BY <1>2, <2>1, <2>2, Zenon DEF Raised, Agree
    <2>3. CASE running' # running
      <3>1. state'[u] = IF u = t THEN "UP" ELSE IF u = running.tunnel THEN "DOWN" ELSE state[u]
        BY <1>2, <2>3, Zenon DEF Raised
      <3> QED
        BY <2>1, <3>1, Zenon DEF Agree
    <2> QED
      BY <2>2, <2>3, Zenon
  <1>3. CASE Lowered(t)
    BY <1>1, <1>3, Zenon DEF Lowered, Agree
  <1>4. CASE setStateFails(t, s, c)
    BY <1>1, <1>4, Zenon DEF setStateFails, Agree
  <1> QED
    BY <1>2, <1>3, <1>4, Zenon DEF setState

\* The other coroutines stay where they are.
Still(j) == \A i \in Jobs : i # j => job'[i].pc = job[i].pc /\ job'[i].seen = job[i].seen

\* The step makes the state shown of no tunnel wrong.
Agreeing == \A u \in Objects : Agree(u) => Agree(u)'

\* A step of delete or setTunnelName that keeps hold of its tunnel.
LEMMA OutHeld ==
  ASSUME StoreInv, StateCore, NEW j \in Jobs, NEW t \in Objects, Out(j), job[j].tunnel = t, Out(j)', job'[j].tunnel = t,
         Still(j), UNCHANGED <<tunnelMap, savedRunning>>, Agreeing, running'.tunnel \in {t, None, running.tunnel},
         job'[j].pc = "renameState" => (job'[j].orig = "UP" <=> running'.tunnel = t),
         job'[j].pc = "deleteFile" => running'.tunnel # t
  PROVE  StateCore'
  <1>1. Busy(j) /\ Alone(j)
    BY BusyAlone, Zenon DEF StateCore, Busy
  <1>2. ~Loader(j)' /\ ~In(j)'
    BY Zenon DEF Out, In, Loader
  <1>3. JobStateOK(j)'
    <2>1. Agree(t)'
      BY Zenon DEF StateCore, JobStateOK, Agreeing
    <2> QED
      BY <1>2, <2>1, Zenon DEF JobStateOK, Agree, Out
  <1>4. Shown'
    <2>1. tunnelMap \subseteq Objects
      BY Zenon DEF StoreInv, TypeOK
    <2>2. \A i \in Jobs : Out(i) => i = j
      BY <1>1, Zenon DEF Alone, Busy
    <2> QED
      BY <2>1, <2>2, Zenon DEF StateCore, Shown, Agreeing
  <1> QED
    BY <1>1, <1>2, <1>3, <1>4, BusyStep, Zenon DEF StateCore, Still

\* A step of an operation on a tunnel that stays listed.
LEMMA InHeld ==
  ASSUME StoreInv, StateCore, NEW j \in Jobs, Alone(j), ~Out(j), ~Out(j)', ~Loader(j)',
         Still(j), UNCHANGED tunnelMap, \A n, m \in savedRunning' : n = m,
         Agreeing, running'.tunnel \in tunnelMap \cup {None, running.tunnel}, JobStateOK(j)'
  PROVE  StateCore'
  <1>1. Shown'
    <2>1. tunnelMap \subseteq Objects
      BY Zenon DEF StoreInv, TypeOK
    <2>2. \A i \in Jobs : ~Out(i)
      BY Zenon DEF Alone, Busy
    <2> QED
      BY <2>1, <2>2, Zenon DEF StateCore, Shown, Agreeing
  <1> QED
    BY <1>1, BusyStep, Zenon DEF StateCore, Still

\* delete and setTunnelName on their way: each call of the backend and each
\* catch block leaves the state shown of the tunnel right.
LEMMA OutState ==
  ASSUME StoreInv, StateCore, NEW j \in Jobs,
         \/ DeleteDown(j) \/ DeleteUndo(j) \/ RenameDown(j) \/ RenameMark(j) \/ RenameMove(j)
         \/ RenameName(j) \/ RenameUp(j) \/ RenameCheck(j) \/ RenameState(j)
  PROVE  StateCore'
  <1>1. PICK t \in Objects : t = job[j].tunnel
    BY Zenon DEF StoreInv, LocalOK, Out, DeleteDown, DeleteUndo, RenameDown, RenameMark, RenameMove, RenameName, RenameUp,
           RenameCheck, RenameState, At
  <1>2. TypeOK /\ JobStateOK(j) /\ config[t] \in Configs \cup {None}
    BY <1>1, Zenon DEF StoreInv, TypeOK, StateCore
  <1>3. UNCHANGED <<tunnelMap, savedRunning>> /\ Out(j)
    BY Zenon DEF DeleteDown, DeleteUndo, RenameDown, RenameMark, RenameMove, RenameName, RenameUp, RenameCheck, RenameState,
           list, disk, Out, At
  <1> DEFINE Plain == /\ Still(j) /\ job'[j].tunnel = t /\ Out(j)'
  <1>4. ASSUME NEW l \in {"deleteFile", "deletePutBack", "renameMark", "renameCheck", "renameMove", "renameName", "renameUp", "renameAdd"},
               Goto(j, l) \/ PutBack(j, l)
        PROVE  Plain /\ job'[j].pc = l
    <2>1. l \in Labels
      BY Zenon DEF Labels
    <2>2. (\A i \in Jobs \ {j} : job'[i] = job[i]) /\ job'[j].pc = l /\ job'[j].tunnel = job[j].tunnel
      BY <1>2, <1>4, <2>1, GotoFacts, PutBackFacts, Zenon
    <2> QED
      BY <1>1, <2>2, Zenon DEF Out, Still
  <1>5. ASSUME NEW s \in States, NEW c \in Configs \cup {None}, setState(t, s, c) \/ setStateFails(t, s, c)
        PROVE  Agreeing /\ running'.tunnel \in {t, None, running.tunnel}
    <2>1. Agreeing
      BY <1>2, <1>5, BackendAgrees, Zenon DEF Agreeing
    <2>2. Agree(t)
      BY <1>1, <1>2, <1>3, Zenon DEF JobStateOK
    <2> QED
      BY <1>2, <1>5, <2>1, <2>2, BackendAgrees, Zenon
  <1>6. CASE DeleteDown(j) \/ RenameDown(j)
    <2>1. setState(t, "DOWN", None) \/ setStateFails(t, "DOWN", None)
      BY <1>1, <1>6, Zenon DEF DeleteDown, RenameDown
    <2>2. PICK l \in {"deleteFile", "deletePutBack", "renameMark", "renameCheck"} : Goto(j, l) \/ PutBack(j, l)
      BY <1>6, Zenon DEF DeleteDown, RenameDown
    <2>3. Plain /\ job'[j].pc = l
      BY <1>4, <2>2, Zenon
    <2>4. job'[j].pc = "deleteFile" => running'.tunnel # t
      <3>1. SUFFICES ASSUME job'[j].pc = "deleteFile" PROVE running'.tunnel # t
        BY Zenon
      <3>2. setState(t, "DOWN", None)
        <4>1. ~PutBack(j, "deletePutBack") /\ ~Goto(j, "renameMark") /\ ~Goto(j, "renameCheck")
          BY <1>2, <3>1, GotoFacts, PutBackFacts, LabelFacts, ZenonT(60)
        <4> QED
          BY <1>1, <1>6, <4>1, Zenon DEF DeleteDown, RenameDown
      <3>3. Lowered(t)
        BY <3>2, Zenon DEF setState, Resolved
      <3> QED
        BY <3>3, TunnelManagerAssumption DEF Lowered, Nothing
    <2> QED
      BY <1>1, <1>3, <1>5, <2>1, <2>3, <2>4, OutHeld, Zenon DEF States
  <1>7. CASE DeleteUndo(j) \/ RenameUp(j)
    <2>1. setState(t, "UP", config[t]) \/ setStateFails(t, "UP", config[t])
      BY <1>1, <1>7, Zenon DEF DeleteUndo, RenameUp
    <2>2. PICK l \in {"deletePutBack", "renameAdd", "renameCheck"} : Goto(j, l) \/ PutBack(j, l)
      BY <1>7, Zenon DEF DeleteUndo, RenameUp
    <2>3. Plain /\ job'[j].pc = l
      BY <1>4, <2>2, Zenon
    <2> QED
      BY <1>1, <1>2, <1>3, <1>5, <2>1, <2>3, OutHeld, Zenon DEF States
  <1>8. CASE RenameMark(j) \/ RenameMove(j) \/ RenameName(j)
    <2>1. PICK l \in {"renameMove", "renameCheck", "renameName", "renameUp", "renameAdd"} : Goto(j, l) \/ PutBack(j, l)
      BY <1>8, Zenon DEF RenameMark, RenameMove, RenameName
    <2>2. Plain /\ job'[j].pc = l
      BY <1>4, <2>1, Zenon
    <2>3. UNCHANGED <<running, state>>
      BY <1>8, Zenon DEF RenameMark, RenameMove, RenameName, objects
    <2>4. Agreeing
      BY <2>3, Zenon DEF Agreeing, Agree
    <2> QED
      BY <1>1, <1>3, <2>2, <2>3, <2>4, OutHeld, Zenon
  <1>9. CASE RenameCheck(j)
    <2>1. /\ Plain /\ job'[j].pc = "renameState" /\ job'[j].orig = getState(j)
      BY <1>1, <1>2, <1>9, ZenonT(60) DEF RenameCheck, TypeOK, Coroutine, Out, Still
    <2>2. UNCHANGED <<running, state>>
      BY <1>9, Zenon DEF RenameCheck, objects
    <2>3. Agreeing
      BY <2>2, Zenon DEF Agreeing, Agree
    <2>4. job'[j].orig = "UP" <=> running'.tunnel = t
      BY <1>1, <2>1, <2>2, Zenon DEF getState
    <2> QED
      BY <1>1, <1>3, <2>1, <2>2, <2>3, <2>4, OutHeld, Zenon
  <1>10. CASE RenameState(j)
    <2>1. Plain /\ job'[j].pc = "renameAdd"
      BY <1>4, <1>10, Zenon DEF RenameState
    <2>2. /\ running' = running /\ state' = [state EXCEPT ![t] = job[j].orig] /\ state \in [Objects -> States]
          /\ job[j].orig = "UP" <=> running.tunnel = t
      BY <1>1, <1>2, <1>10, Zenon DEF RenameState, JobStateOK, TypeOK, At
    <2>3. Agreeing
      BY <2>2, Zenon DEF Agreeing, Agree
    <2> QED
      BY <1>1, <1>3, <2>1, <2>2, <2>3, OutHeld, Zenon
  <1> QED
    BY <1>6, <1>7, <1>8, <1>9, <1>10, Zenon

\* delete: only a tunnel that does not run loses its file.
LEMMA DeleteFileState ==
  ASSUME StoreInv, StateCore, NEW j \in Jobs, DeleteFile(j)
  PROVE  StateCore'
  <1>1. PICK t \in Objects : t = job[j].tunnel
    BY Zenon DEF StoreInv, LocalOK, Out, DeleteFile, At
  <1>2. /\ TypeOK /\ JobStateOK(j) /\ Out(j) /\ t \notin tunnelMap /\ running.tunnel # t
        /\ UNCHANGED <<tunnelMap, savedRunning, running>>
    BY <1>1, Zenon DEF StoreInv, StateCore, JobStateOK, LocalOK, Out, DeleteFile, At, list
  <1>3. CASE UNCHANGED objects /\ Goto(j, IF job[j].orig = "UP" THEN "deleteUndo" ELSE "deletePutBack")
    <2>1. PICK l \in {"deleteUndo", "deletePutBack"} : Goto(j, l)
      BY <1>3, Zenon
    <2>2. (\A i \in Jobs \ {j} : job'[i] = job[i]) /\ job'[j].pc = l /\ job'[j].tunnel = t
      BY <1>1, <1>2, <2>1, GotoFacts, LabelFacts, Zenon
    <2>3. Still(j) /\ Out(j)' /\ Agreeing
      BY <1>2, <1>3, <2>2, Zenon DEF Still, Out, Agreeing, Agree, objects
    <2> QED
      BY <1>1, <1>2, <2>2, <2>3, OutHeld, Zenon
  <1>4. CASE Collect(j, t) /\ End(j)
    <2>1. Busy(j) /\ Alone(j)
      BY <1>2, BusyAlone, Zenon DEF StateCore, Busy
    <2>2. Still(j) /\ job'[j].pc = "idle"
      BY <1>2, <1>4, EndFacts, IdleFacts, Zenon DEF Still
    <2>3. ~Loader(j)' /\ JobStateOK(j)'
      BY <2>2, Zenon DEF Loader, JobStateOK, Out
    <2>4. \A u \in tunnelMap : state'[u] = state[u]
      BY <1>2, <1>4, Zenon DEF Collect, TypeOK, objects
    <2>5. \A i \in Jobs : Out(i) => i = j
      BY <2>1, Zenon DEF Alone, Busy
    <2>6. Shown'
      BY <1>1, <1>2, <2>4, <2>5, Zenon DEF StateCore, Shown, Agree
    <2> QED
      BY <2>1, <2>2, <2>3, <2>6, BusyStep, Zenon DEF StateCore, Still
  <1> QED
    BY <1>1, <1>3, <1>4, Zenon DEF DeleteFile

\* The finally blocks of delete and setTunnelName list the tunnel with the
\* state it has.
LEMMA AddBackState ==
  ASSUME StoreInv, StateCore, NEW j \in Jobs, DeletePutBack(j) \/ RenameAdd(j)
  PROVE  StateCore'
  <1>1. PICK t \in Objects : t = job[j].tunnel
    BY Zenon DEF StoreInv, LocalOK, Out, DeletePutBack, RenameAdd, At
  <1>2. /\ TypeOK /\ JobStateOK(j) /\ Out(j) /\ Key(j) = name[t]
        /\ UNCHANGED <<state, savedRunning, running>>
    BY <1>1, Zenon DEF StoreInv, StateCore, Out, Key, DeletePutBack, RenameAdd, At, objects, disk
  <1>3. tunnelMap' = tunnelMap \cup {t}
    <2>1. ~containsKey(name[t])
      BY <1>2, Zenon DEF StoreInv, KeysOK, containsKey
    <2>2. AddBack(t, job[j].last)
      BY <1>1, Zenon DEF DeletePutBack, RenameAdd
    <2> QED
      BY <2>1, <2>2, Zenon DEF AddBack
  <1>4. Busy(j) /\ Alone(j)
    BY <1>2, BusyAlone, Zenon DEF StateCore, Busy
  <1>5. Still(j) /\ job'[j].pc = "idle"
    BY <1>2, EndFacts, IdleFacts, Zenon DEF Still, DeletePutBack, RenameAdd
  <1>6. ~Loader(j)' /\ JobStateOK(j)'
    BY <1>5, Zenon DEF Loader, JobStateOK, Out
  <1>7. \A i \in Jobs : Out(i) => i = j
    BY <1>4, Zenon DEF Alone, Busy
  <1>8. Shown'
    BY <1>1, <1>2, <1>3, <1>7, Zenon DEF StateCore, Shown, Agree, JobStateOK
  <1> QED
    BY <1>4, <1>5, <1>6, <1>8, BusyStep, Zenon DEF StateCore, Still

\* An operation begins when nothing else is on its way.
LEMMA BeginQuiet ==
  ASSUME NEW j \in Jobs, NEW t, Begin(j, t), overlap \in {"none", "early"}
  PROVE  Quiet /\ completed /\ Alone(j) /\ ~Out(j) /\ ~In(j) /\ (\A i \in Jobs : ~Out(i))
  <1>1. Quiet /\ completed
    BY Zenon DEF Begin, Allowed
  <1> QED
    BY <1>1, QuietAlone, Zenon DEF Quiet, At, Out, In

\* delete and setTunnelName taking the tunnel out of the list.
LEMMA TakeOutState ==
  ASSUME StoreInv, StateCore, overlap \in {"none", "early"}, NEW j \in Jobs, NEW t \in Objects,
         delete(j, t) \/ \E m \in Names : setTunnelName(j, t, m)
  PROVE  StateCore'
  <1>1. /\ TypeOK /\ t \in tunnelMap /\ Begin(j, t) /\ tunnelMap' = tunnelMap \ {t} /\ state[t] \in States
        /\ UNCHANGED <<state, savedRunning, running>>
    BY Zenon DEF StoreInv, TypeOK, delete, setTunnelName, objects, disk, TakeOut
  <1>2. Alone(j) /\ \A i \in Jobs : ~Out(i)
    BY <1>1, BeginQuiet, Zenon
  <1>3. /\ \A i \in Jobs \ {j} : job'[i] = job[i]
        /\ job'[j].tunnel = t /\ job'[j].pc \in {"deleteDown", "deleteFile", "renameDown", "renameMark"}
        /\ job'[j].pc = "deleteFile" => state[t] # "UP"
    <2>1. CASE delete(j, t)
      BY <1>1, <2>1, Zenon DEF delete, TypeOK, Idle
    <2>2. CASE \E m \in Names : setTunnelName(j, t, m)
      <3>1. PICK m \in Names : setTunnelName(j, t, m)
        BY <2>2, Zenon
      <3> QED
        BY <1>1, <3>1, Zenon DEF setTunnelName, TypeOK, Idle
    <2> QED
      BY <2>1, <2>2, Zenon
  <1>4. Agree(t)
    BY <1>1, Zenon DEF StateCore, Shown
  <1>5. Still(j) /\ Out(j)' /\ ~Loader(j)'
    BY <1>3, Zenon DEF Still, Out, Loader
  <1>6. JobStateOK(j)'
    BY <1>1, <1>3, <1>4, Zenon DEF JobStateOK, Agree
  <1>7. Shown'
    BY <1>1, <1>2, <1>3, <1>5, Zenon DEF StateCore, Shown, Agree
  <1> QED
    BY <1>2, <1>5, <1>6, <1>7, BusyStep, Zenon DEF StateCore, Still

\* Loading and storing a configuration changes no state; a load that fails
\* has setTunnelState report the original state, which still is the state.
LEMMA ReadState ==
  ASSUME StoreInv, StateCore, NEW j \in Jobs,
         \/ GetConfig(j) \/ Load(j) \/ Loaded(j) \/ SaveCheck(j) \/ SaveWrite(j) \/ ConfigDone(j)
  PROVE  StateCore'
  <1>1. In(j)
    BY Zenon DEF GetConfig, Load, Loaded, SaveCheck, SaveWrite, ConfigDone, In, At
  <1>2. PICK t \in Objects : t = job[j].tunnel /\ t \in tunnelMap
    BY <1>1, Zenon DEF StoreInv, LocalOK, TypeOK
  <1>3. /\ TypeOK /\ JobStateOK(j) /\ Alone(j) /\ ~Out(j) /\ Agree(t) /\ job[j] \in Coroutine
    BY <1>1, <1>2, BusyAlone, Zenon DEF StoreInv, TypeOK, StateCore, Shown, Busy, In, Out
  <1>4. UNCHANGED <<tunnelMap, savedRunning, running, state>>
    BY Zenon DEF GetConfig, Load, Loaded, SaveCheck, SaveWrite, ConfigDone, list, objects, disk
  <1>5. Agreeing
    BY <1>4, Zenon DEF Agreeing, Agree
  <1>6. SUFFICES /\ Still(j)
                 /\ \/ job'[j].pc \in {"idle", "loaded", "saveWrite", "configDone"}
                    \/ /\ job[j].pc \in {"getConfig", "loadFor", "loadedFor"}
                       /\ job'[j].pc \in {"loadFor", "loadedFor", "setBackend", "stateDone"}
                       /\ job'[j].tunnel = t /\ job'[j].orig = job[j].orig
                       /\ job'[j].pc # "stateDone" => job'[j].want = job[j].want
    <2>1. ~Out(j)' /\ ~Loader(j)'
      BY <1>6, Zenon DEF Out, Loader
    <2>2. JobStateOK(j)'
      <3>1. CASE job'[j].pc \in {"idle", "loaded", "saveWrite", "configDone"}
        BY <2>1, <3>1, Zenon DEF JobStateOK
      <3>2. CASE job'[j].pc \notin {"idle", "loaded", "saveWrite", "configDone"}
        <4>1. job[j].orig = state[t] /\ job[j].orig # job[j].want
          BY <1>2, <1>3, <1>6, <3>2, Zenon DEF JobStateOK
        <4> QED
          BY <1>3, <1>4, <1>6, <2>1, <3>2, <4>1, Zenon DEF JobStateOK, Agree
      <3> QED
        BY <3>1, <3>2, Zenon
    <2>3. \A n, m \in savedRunning' : n = m
      BY <1>4, Zenon DEF StateCore, Shown
    <2> QED
      BY <1>3, <1>4, <1>5, <1>6, <2>1, <2>2, <2>3, InHeld, Zenon
  <1>7. CASE GetConfig(j)
    <2>1. PICK l \in {"loadFor", "setBackend"}, c \in Configs \cup {None} :
             job' = [job EXCEPT ![j] = [job[j] EXCEPT !.pc = l, !.config = c]]
      BY <1>2, <1>3, <1>7, Zenon DEF GetConfig, TypeOK
    <2> QED
      BY <1>2, <1>3, <1>7, <2>1 DEF GetConfig, At, TypeOK, Coroutine, Still
  <1>8. CASE Load(j)
    <2>1. CASE LoadFails(j)
      <3>1. CASE End(j)
        BY <1>3, <3>1, EndFacts, IdleFacts, Zenon DEF Still
      <3>2. CASE At(j, "loadFor") /\ Report(j, job[j].orig, TRUE)
        <4>1. job[j].orig \in States
          BY <1>3, Zenon DEF Coroutine
        <4>2. /\ \A i \in Jobs \ {j} : job'[i] = job[i]
              /\ job'[j].pc = "stateDone" /\ job'[j].tunnel = t /\ job'[j].orig = job[j].orig
          BY <1>2, <1>3, <3>2, <4>1, ReportFacts, Zenon
        <4> QED
          BY <3>2, <4>2, Zenon DEF Still, At
      <3> QED
        BY <2>1, <3>1, <3>2, Zenon DEF LoadFails
    <2>2. CASE ~LoadFails(j)
      <3>1. PICK c \in Configs : job' = [job EXCEPT ![j] = [job[j] EXCEPT !.pc = IF At(j, "load") THEN "loaded" ELSE "loadedFor", !.config = c]]
        BY <1>8, <2>2, Zenon DEF Load
      <3> QED
        BY <1>2, <1>3, <1>8, <3>1, Zenon DEF Load, At, TypeOK, Coroutine, Still
    <2> QED
      BY <2>1, <2>2, Zenon
  <1>9. CASE Loaded(j)
    <2>1. CASE End(j)
      BY <1>3, <2>1, EndFacts, IdleFacts, Zenon DEF Still
    <2>2. CASE job[j].pc = "loadedFor" /\ Goto(j, "setBackend")
      BY <1>2, <1>3, <2>2, GotoFacts, LabelFacts, Zenon DEF Still
    <2> QED
      BY <1>9, <2>1, <2>2, Zenon DEF Loaded, At
  <1>10. CASE SaveCheck(j) \/ SaveWrite(j) \/ ConfigDone(j)
    <2>1. CASE End(j)
      BY <1>3, <2>1, EndFacts, IdleFacts, Zenon DEF Still
    <2>2. CASE Goto(j, "configDone")
      BY <1>2, <1>3, <2>2, GotoFacts, LabelFacts, Zenon DEF Still
    <2>3. CASE job' = [job EXCEPT ![j] = [@ EXCEPT !.pc = "saveWrite", !.name = name[job[j].tunnel]]]
      BY <1>3, <2>3, Zenon DEF TypeOK, Coroutine, Still
    <2> QED
      BY <1>10, <2>1, <2>2, <2>3, Zenon DEF SaveCheck, SaveFails, SaveWrite, ConfigDone
  <1> QED
    BY <1>7, <1>8, <1>9, <1>10, Zenon

\* Beginning getTunnelConfig, setTunnelState or refreshTunnelStates.
LEMMA BeginState ==
  ASSUME StoreInv, StateCore, ~Intents, overlap \in {"none", "early"}, NEW j \in Jobs, NEW t \in Objects \cup {None},
         \/ getTunnelConfig(j, t)
         \/ \E s \in States \cup {"TOGGLE"} : setTunnelState(j, t, s)
         \/ refreshTunnelStates(j)
  PROVE  StateCore'
  <1>1. PICK u \in {t, None} : Begin(j, u)
    BY Zenon DEF getTunnelConfig, setTunnelState, refreshTunnelStates
  <1>2. TypeOK /\ Alone(j) /\ ~Out(j)
    BY <1>1, BeginQuiet, Zenon DEF StoreInv
  <1>3. UNCHANGED <<tunnelMap, savedRunning, running, state, name>>
    BY Zenon DEF getTunnelConfig, setTunnelState, refreshTunnelStates, list, objects, disk
  <1>4. Agreeing /\ runningTunnelNames' = runningTunnelNames
    BY <1>3, Zenon DEF Agreeing, Agree, runningTunnelNames
  <1>5. /\ Still(j)
        /\ \/ job'[j].pc = "load"
           \/ job'[j].pc = "getConfig" /\ job'[j].tunnel = t /\ job'[j].orig = state[t] /\ job'[j].want # state[t]
           \/ job'[j].pc = "refreshApply" /\ job'[j].seen = runningTunnelNames
    <2>1. CASE getTunnelConfig(j, t)
      BY <1>2, <2>1, Zenon DEF getTunnelConfig, TypeOK, Idle, Still
    <2>2. CASE \E s \in States \cup {"TOGGLE"} : setTunnelState(j, t, s)
      <3>1. PICK s \in States \cup {"TOGGLE"} : setTunnelState(j, t, s)
        BY <2>2, Zenon
      <3> QED
        BY <1>2, <3>1, Zenon DEF setTunnelState, TypeOK, Idle, Still
    <2>3. CASE refreshTunnelStates(j)
      BY <1>2, <2>3, Zenon DEF refreshTunnelStates, TypeOK, Idle, Still
    <2> QED
      BY <2>1, <2>2, <2>3, Zenon
  <1>6. ~Out(j)' /\ ~Loader(j)'
    BY <1>5, Zenon DEF Out, Loader
  <1>7. JobStateOK(j)'
    BY <1>3, <1>4, <1>5, <1>6, Zenon DEF JobStateOK
  <1>8. \A n, m \in savedRunning' : n = m
    BY <1>3, Zenon DEF StateCore, Shown
  <1> QED
    BY <1>2, <1>3, <1>4, <1>5, <1>6, <1>7, <1>8, InHeld, Zenon

\* setTunnelConfig applying the configuration with the state the tunnel has.
LEMMA SetConfigState ==
  ASSUME StoreInv, StateCore, overlap \in {"none", "early"}, NEW j \in Jobs, NEW t \in Objects, NEW c \in Configs,
         setTunnelConfig(j, t, c)
  PROVE  StateCore'
  <1>1. TypeOK /\ Alone(j) /\ ~Out(j) /\ At(j, "idle") /\ t \in tunnelMap /\ Agree(t) /\ state[t] \in States
    BY BeginQuiet, Zenon DEF StoreInv, TypeOK, setTunnelConfig, Begin, StateCore, Shown
  <1>2. UNCHANGED <<tunnelMap, savedRunning>> /\ (setState(t, state[t], c) \/ setStateFails(t, state[t], c))
    BY Zenon DEF setTunnelConfig, list, disk
  <1>3. Agreeing /\ running'.tunnel \in {t, None, running.tunnel}
    BY <1>1, <1>2, BackendAgrees, Zenon DEF Agreeing
  <1>4. Still(j) /\ job'[j].pc \in {"idle", "saveCheck"}
    <2>1. CASE UNCHANGED job
      BY <1>1, <2>1, Zenon DEF Still, At
    <2>2. CASE job' = [job EXCEPT ![j] = [Idle EXCEPT !.pc = "saveCheck", !.tunnel = t, !.config = c]]
      BY <1>1, <2>2, Zenon DEF TypeOK, Idle, Still
    <2> QED
      BY <2>1, <2>2, Zenon DEF setTunnelConfig
  <1>5. ~Out(j)' /\ ~Loader(j)'
    BY <1>4, Zenon DEF Out, Loader
  <1>6. JobStateOK(j)'
    BY <1>4, <1>5, Zenon DEF JobStateOK
  <1>7. \A n, m \in savedRunning' : n = m
    BY <1>2, Zenon DEF StateCore, Shown
  <1> QED
    BY <1>1, <1>2, <1>3, <1>4, <1>5, <1>6, <1>7, InHeld, Zenon

\* setTunnelState: the state it is about to report is the one the backend is
\* in, and so is the original state when setState throws.
LEMMA SetBackendState ==
  ASSUME StoreInv, StateCore, NEW j \in Jobs, SetBackend(j)
  PROVE  StateCore'
  <1>1. In(j) /\ At(j, "setBackend")
    BY Zenon DEF SetBackend, In, At
  <1>2. PICK t \in Objects : t = job[j].tunnel /\ t \in tunnelMap
    BY <1>1, Zenon DEF StoreInv, LocalOK, TypeOK
  <1>3. /\ TypeOK /\ JobStateOK(j) /\ Alone(j) /\ ~Out(j) /\ Agree(t) /\ job[j] \in Coroutine
    BY <1>1, <1>2, BusyAlone, Zenon DEF StoreInv, TypeOK, StateCore, Shown, Busy, In, Out
  <1>4. PICK s \in States \cup {"TOGGLE"}, c \in Configs \cup {None} : s = job[j].want /\ c = job[j].config
    BY <1>3, Zenon DEF Coroutine
  <1>5. UNCHANGED <<tunnelMap, savedRunning>> /\ (setState(t, s, c) \/ setStateFails(t, s, c))
    BY <1>2, <1>4, Zenon DEF SetBackend, list, disk
  <1>6. Agreeing /\ running'.tunnel \in {t, None, running.tunnel}
    BY <1>3, <1>5, BackendAgrees, Zenon DEF Agreeing
  <1>7. Still(j) /\ job'[j].pc = "stateDone" /\ job'[j].tunnel = t /\ (job'[j].orig = "UP" <=> running'.tunnel = t)
    <2>1. CASE Report(j, NewState(j), FALSE)
      <3>1. NewState(j) \in States
        BY Zenon DEF NewState, States
      <3> QED
        BY <1>2, <1>3, <2>1, <3>1, ReportFacts, Zenon DEF Still, NewState
    <2>2. CASE setStateFails(t, s, c) /\ Report(j, job[j].orig, TRUE)
      <3>1. job[j].orig \in States /\ job[j].orig = state[t] /\ job[j].orig # s
        BY <1>1, <1>2, <1>3, <1>4, Zenon DEF Coroutine, JobStateOK, At
      <3>2. state[t] = "UP" <=> running'.tunnel = t
        <4>1. CASE UNCHANGED <<running, state>>
          BY <1>3, <4>1, Zenon DEF Agree
        <4>2. CASE Resolved(t, s) = "UP"
          <5>1. running.tunnel # t
            BY <1>3, <3>1, <4>2, Zenon DEF Resolved, Agree
          <5> QED
            BY <1>3, <2>2, <5>1, TunnelManagerAssumption DEF setStateFails, Agree, Nothing
        <4> QED
          BY <2>2, <4>1, <4>2, Zenon DEF setStateFails
      <3> QED
        BY <1>2, <1>3, <2>2, <3>1, <3>2, ReportFacts, Zenon DEF Still
    <2> QED
      BY <1>2, <1>4, <2>1, <2>2, Zenon DEF SetBackend
  <1>8. ~Out(j)' /\ ~Loader(j)'
    BY <1>7, Zenon DEF Out, Loader
  <1>9. JobStateOK(j)'
    BY <1>7, <1>8, Zenon DEF JobStateOK
  <1>10. \A n, m \in savedRunning' : n = m
    BY <1>5, Zenon DEF StateCore, Shown
  <1> QED
    BY <1>2, <1>3, <1>5, <1>6, <1>7, <1>8, <1>9, <1>10, InHeld, Zenon

\* refreshTunnelStates: the answer is applied before it is out of date.
LEMMA RefreshState ==
  ASSUME StoreInv, StateCore, NEW j \in Jobs, RefreshApply(j)
  PROVE  StateCore'
  <1>1. /\ TypeOK /\ Busy(j) /\ ~Out(j) /\ job[j].seen = runningTunnelNames
        /\ UNCHANGED <<tunnelMap, savedRunning, running>>
    BY Zenon DEF RefreshApply, At, Busy, Out, StoreInv, StateCore, JobStateOK, list, disk
  <1>2. Alone(j)
    BY <1>1, BusyAlone, Zenon DEF StateCore
  <1>3. Still(j) /\ job'[j].pc = "idle"
    BY <1>1, EndFacts, IdleFacts, Zenon DEF RefreshApply, Still
  <1>4. ~Out(j)' /\ ~Loader(j)' /\ JobStateOK(j)'
    BY <1>3, Zenon DEF Out, Loader, JobStateOK
  <1>5. running.tunnel \in tunnelMap \cup {None}
    BY <1>1, <1>2, Zenon DEF Alone, Busy, StateCore, Shown
  <1>6. ASSUME NEW u \in Objects, Agree(u) PROVE Agree(u)'
    <2>1. CASE u \notin tunnelMap
      BY <1>1, <1>6, <2>1, Zenon DEF RefreshApply, Agree
    <2>2. CASE u \in tunnelMap
      <3>1. state'[u] = "UP" <=> name[u] \in runningTunnelNames
        BY <1>1, <2>2, Zenon DEF RefreshApply
      <3>2. name[u] \in runningTunnelNames <=> running.tunnel # None /\ name[u] = name[running.tunnel]
        BY Zenon DEF runningTunnelNames
      <3>3. u # None
        BY TunnelManagerAssumption, Zenon
      <3> QED
        BY <1>1, <1>5, <2>2, <3>1, <3>2, <3>3, Zenon DEF StoreInv, KeysOK, Agree
    <2> QED
      BY <2>1, <2>2, Zenon
  <1>7. \A n, m \in savedRunning' : n = m
    BY <1>1, Zenon DEF StateCore, Shown
  <1> QED
    BY <1>1, <1>2, <1>3, <1>4, <1>6, <1>7, InHeld, Zenon DEF Agreeing

\* setTunnelState: onStateChanged, and saveState, which finds one tunnel up at
\* most.
LEMMA StateDoneState ==
  ASSUME StoreInv, StateCore, NEW j \in Jobs, StateDone(j)
  PROVE  StateCore'
  <1>1. In(j) /\ At(j, "stateDone")
    BY Zenon DEF StateDone, In, At
  <1>2. PICK t \in Objects : t = job[j].tunnel /\ t \in tunnelMap
    BY <1>1, Zenon DEF StoreInv, LocalOK, TypeOK
  <1>3. /\ TypeOK /\ Alone(j) /\ ~Out(j) /\ tunnelMap \subseteq Objects
        /\ job[j].orig = "UP" <=> running.tunnel = t
    BY <1>1, <1>2, BusyAlone, Zenon DEF StoreInv, TypeOK, StateCore, JobStateOK, Busy, In, Out, At
  <1>4. UNCHANGED <<tunnelMap, running, name>> /\ state' = [state EXCEPT ![t] = job[j].orig]
    BY <1>2, Zenon DEF StateDone
  <1>5. Still(j) /\ job'[j].pc = "idle"
    <2>1. \A i \in Jobs : job'[i] = IF i = j THEN Idle
                              ELSE IF At(i, "restoring") /\ job[j].restored /\ job[j].failed
                              THEN [job[i] EXCEPT !.failed = TRUE] ELSE job[i]
      BY Zenon DEF StateDone
    <2>2. \A i \in Jobs : job[i] \in Coroutine
      BY <1>3, Zenon DEF TypeOK
    <2>3. \A r \in Coroutine : [r EXCEPT !.failed = TRUE].pc = r.pc /\ [r EXCEPT !.failed = TRUE].seen = r.seen
      BY Zenon DEF Coroutine
    <2> QED
      BY <2>1, <2>2, <2>3, IdleFacts, Zenon DEF Still
  <1>6. ~Out(j)' /\ ~Loader(j)' /\ JobStateOK(j)'
    BY <1>5, Zenon DEF Out, Loader, JobStateOK
  <1>7. Agreeing
    BY <1>3, <1>4, Zenon DEF Agreeing, Agree, TypeOK
  <1>8. \A n, m \in savedRunning' : n = m
    <2>1. savedRunning' = {name[u] : u \in {v \in tunnelMap : state'[v] = "UP"}}
      BY Zenon DEF StateDone
    <2>2. \A v \in tunnelMap : state'[v] = "UP" => v = running.tunnel
      BY <1>3, <1>4, <1>7, Zenon DEF StateCore, Shown, Agreeing, Agree
    <2> QED
      BY <2>1, <2>2, Zenon
  <1> QED
    BY <1>3, <1>4, <1>5, <1>6, <1>7, <1>8, InHeld, Zenon

\* A step of a coroutine that works on no tunnel leaves the others what they
\* know.
LEMMA PassiveState ==
  ASSUME StoreInv, StateCore, NEW j \in Jobs, ~Busy(j), ~Busy(j)', ~Loader(j)',
         \A i \in Jobs \ {j} : job'[i] = job[i], UNCHANGED running,
         \A i \in Jobs : \A u \in Uses(i) : state'[u] = state[u],
         \A u \in Objects : state[u] = "DOWN" => state'[u] = "DOWN",
         running.tunnel # None => name'[running.tunnel] = name[running.tunnel], Shown'
  PROVE  StateCore'
  <1>1. \A i \in Jobs : i # j => (Busy(i)' <=> Busy(i)) /\ (Loader(i)' <=> Loader(i)) /\ (Out(i)' <=> Out(i)) /\ job'[i] = job[i]
    BY Zenon DEF Busy, Out, In, Loader
  <1>2. Serial'
    <2>1. \A i, k \in Jobs : Busy(i)' /\ Busy(k)' => i = k
      BY <1>1, Zenon DEF StateCore, Serial
    <2>2. \A i, k \in Jobs : Loader(i)' /\ Loader(k)' => i = k
      BY <1>1, Zenon DEF StateCore, Serial
    <2>3. \A i \in Jobs : job'[i].pc \in {"enumerate", "tunnelsLoaded", "restore", "restoring"} => i # j
      BY Zenon DEF Loader
    <2> QED
      BY <1>1, <2>1, <2>2, <2>3 DEF StateCore, Serial
  <1>3. JobStateOK(j)'
    BY Zenon DEF Busy, Loader, JobStateOK, Out, In
  <1>4. ASSUME NEW i \in Jobs, i # j PROVE JobStateOK(i)'
    <2>1. job'[i] = job[i] /\ (Out(i)' <=> Out(i)) /\ JobStateOK(i)
      BY <1>1, <1>4, Zenon DEF StateCore
    <2>2. state'[job[i].tunnel] = state[job[i].tunnel] /\ \A u \in job[i].seen : state'[u] = state[u]
      BY Zenon DEF Uses
    <2>3. runningTunnelNames' = runningTunnelNames
      BY Zenon DEF runningTunnelNames
    <2> QED
      BY <2>1, <2>2, <2>3, ZenonT(60) DEF JobStateOK, Agree
  <1> QED
    BY <1>2, <1>3, <1>4, Zenon DEF StateCore

\* create, up to addToList, and the end of restoreState.
LEMMA CreateState ==
  ASSUME StoreInv, StateCore, NEW j \in Jobs,
         \/ \E n \in Names, c \in Configs : create(j, n, c)
         \/ CreateFile(j) \/ CreateWrite(j) \/ RestoreDone(j)
  PROVE  StateCore'
  <1>1. TypeOK /\ ~Out(j) /\ ~In(j) /\ ~Busy(j)
    BY Zenon DEF StoreInv, create, Begin, CreateFile, CreateWrite, RestoreDone, At, Out, In, Busy
  <1>2. UNCHANGED <<tunnelMap, savedRunning, running, state, name>>
    BY Zenon DEF create, CreateFile, CreateWrite, RestoreDone, list, objects, disk
  <1>3. (\A i \in Jobs \ {j} : job'[i] = job[i]) /\ job'[j].pc \in {"idle", "createFile", "createWrite", "createAdd"}
    <2>1. CASE \E n \in Names, c \in Configs : create(j, n, c)
      <3>1. PICK n \in Names, c \in Configs : create(j, n, c)
        BY <2>1, Zenon
      <3> QED
        BY <1>1, <3>1, Zenon DEF create, TypeOK, Idle
    <2>2. CASE End(j)
      BY <1>1, <2>2, EndFacts, IdleFacts, Zenon
    <2>3. CASE Goto(j, "createWrite") \/ Goto(j, "createAdd")
      BY <1>1, <2>3, GotoFacts, LabelFacts, Zenon
    <2> QED
      BY <2>1, <2>2, <2>3, Zenon DEF CreateFile, CreateWrite, RestoreDone
  <1>4. ~Busy(j)' /\ ~Loader(j)' /\ ~Out(j)'
    BY <1>3, Zenon DEF Busy, Loader, Out, In
  <1>5. Shown'
    <2>1. \A i \in Jobs : Out(i) => Out(i)' /\ job'[i].tunnel = job[i].tunnel
      BY <1>1, <1>3, Zenon DEF Out
    <2> QED
      BY <1>2, <2>1, Zenon DEF StateCore, Shown, Agree
  <1> QED
    BY <1>1, <1>2, <1>3, <1>4, <1>5, PassiveState, Zenon

\* create: addToList lists a new tunnel, which does not run.
LEMMA CreateAddState ==
  ASSUME StoreInv, StateCore, NEW j \in Jobs, CreateAdd(j)
  PROVE  StateCore'
  <1>1. TypeOK /\ ~Out(j) /\ ~In(j) /\ ~Busy(j) /\ UNCHANGED <<savedRunning, running>>
    BY Zenon DEF StoreInv, CreateAdd, At, Out, In, Busy, disk
  <1>2. (\A i \in Jobs \ {j} : job'[i] = job[i]) /\ job'[j].pc = "idle"
    BY <1>1, EndFacts, IdleFacts, Zenon DEF CreateAdd
  <1>3. ~Busy(j)' /\ ~Loader(j)' /\ ~Out(j)'
    BY <1>2, Zenon DEF Busy, Loader, Out, In
  <1>4. \A i \in Jobs : Out(i) => Out(i)' /\ job'[i].tunnel = job[i].tunnel
    BY <1>1, <1>2, Zenon DEF Out
  <1>5. CASE UNCHANGED <<tunnelMap, objects>>
    <2>1. Shown'
      BY <1>1, <1>4, <1>5, Zenon DEF StateCore, Shown, Agree, objects
    <2> QED
      BY <1>1, <1>2, <1>3, <1>5, <2>1, PassiveState, Zenon DEF objects
  <1>6. CASE ~UNCHANGED <<tunnelMap, objects>>
    <2>1. PICK t \in Fresh : /\ tunnelMap' = tunnelMap \cup {t}
                             /\ name' = [name EXCEPT ![t] = job[j].name]
                             /\ state' = [state EXCEPT ![t] = "DOWN"]
      BY <1>6, Zenon DEF CreateAdd
    <2>2. /\ t \in Objects /\ t \notin tunnelMap /\ running.tunnel # t /\ \A i \in Jobs : t \notin Uses(i)
          /\ state'[t] = "DOWN" /\ \A u : u # t => state'[u] = state[u] /\ name'[u] = name[u]
      BY <1>1, <2>1 DEF Fresh, TypeOK
    <2>3. Shown'
      BY <1>1, <1>4, <2>1, <2>2, ZenonT(60) DEF StateCore, Shown, Agree
    <2> QED
      BY <1>1, <1>2, <1>3, <2>2, <2>3, PassiveState, Zenon
  <1> QED
    BY <1>5, <1>6, Zenon

\* The system turning the tunnel off between operations.
LEMMA RevokeState ==
  ASSUME StoreInv, StateCore, overlap \in {"none", "early"}, Revoke
  PROVE  StateCore'
  <1>1. /\ Quiet /\ UNCHANGED <<tunnelMap, savedRunning, job>> /\ running' = Nothing /\ Nothing.tunnel = None
        /\ running.tunnel \in Objects /\ TypeOK
    BY Zenon DEF Revoke, Allowed, StoreInv, TypeOK, list, disk, Nothing
  <1>2. \A i \in Jobs : ~Out(i)' /\ ~In(i)' /\ ~Busy(i)' /\ ~Loader(i)' /\ job'[i].pc = "idle"
    BY <1>1, Zenon DEF Quiet, At, Out, In, Busy, Loader
  <1>3. \A u \in tunnelMap : Agree(u)'
    BY <1>1, TunnelManagerAssumption DEF Revoke, StateCore, Shown, Agree, TypeOK
  <1>4. Shown'
    BY <1>1, <1>3, Zenon DEF StateCore, Shown
  <1>5. Serial' /\ \A i \in Jobs : JobStateOK(i)'
    BY <1>2, Zenon DEF Serial, JobStateOK
  <1> QED
    BY <1>4, <1>5, Zenon DEF StateCore

\* A step of the loading of the list, or of restoreState at its beginning, has
\* only its own state to account for.
LEMMA LoaderState ==
  ASSUME StateCore, NEW j \in Jobs, \A i \in Jobs : i # j => ~Busy(i) /\ ~Loader(i) /\ job'[i] = job[i],
         ~Busy(j)', JobStateOK(j)', Shown'
  PROVE  StateCore'
  <1>1. \A i \in Jobs : i # j => ~Busy(i)' /\ ~Loader(i)'
    BY Zenon DEF Busy, Out, In, Loader
  <1>2. Serial'
    BY <1>1, Zenon DEF Serial
  <1>3. ASSUME NEW i \in Jobs, i # j PROVE JobStateOK(i)'
    BY <1>1, <1>3, Zenon DEF Busy, Out, In, Loader, JobStateOK
  <1> QED
    BY <1>2, <1>3, Zenon DEF StateCore

\* restoreState finds one tunnel to raise at most.
LEMMA ToRestoreFacts ==
  ASSUME StoreInv, StateCore
  PROVE  (\A t \in ToRestore : state[t] = "DOWN") /\ (\A t, u \in ToRestore : t = u)
  BY ZenonT(60) DEF StoreInv, TypeOK, States, KeysOK, StateCore, Shown, ToRestore

\* onCreate, onTunnelsLoaded and the beginning of restoreState.
LEMMA LoadState ==
  ASSUME StoreInv, StateCore, NEW j \in Jobs, Enumerate(j) \/ onTunnelsLoaded(j) \/ Restore(j)
  PROVE  StateCore'
  <1>1. /\ TypeOK /\ JobStateOK(j) /\ Loader(j) /\ job[j].pc \in {"enumerate", "tunnelsLoaded", "restore"}
        /\ UNCHANGED <<savedRunning, running, state>>
    BY Zenon DEF StoreInv, StateCore, Enumerate, onTunnelsLoaded, Restore, At, Loader, objects, disk
  <1>2. \A i \in Jobs : ~Busy(i) /\ ~Out(i) /\ (i # j => ~Loader(i))
    BY <1>1, Zenon DEF StateCore, Serial, Busy
  <1>3. (\A i \in Jobs : i # j => job'[i] = job[i]) /\ JobStateOK(j)' /\ ~Busy(j)'
    <2>1. CASE Enumerate(j)
      <3>1. (\A i \in Jobs : i # j => job'[i] = job[i]) /\ job'[j].pc = "tunnelsLoaded"
        BY <1>1, <2>1, Zenon DEF Enumerate, TypeOK, Coroutine
      <3>2. running = Nothing /\ \A t \in Objects : state[t] = "DOWN"
        BY <1>1, <2>1, Zenon DEF JobStateOK, Enumerate, At
      <3> QED
        BY <1>1, <3>1, <3>2, Zenon DEF JobStateOK, Busy, Out, In
    <2>2. CASE onTunnelsLoaded(j)
      <3>1. (\A i \in Jobs : i # j => job'[i] = job[i]) /\ job'[j].pc \in {"restore", "idle"}
        <4>1. Goto(j, "restore") \/ End(j)
          BY <2>2, Zenon DEF onTunnelsLoaded
        <4> QED
          BY <1>1, <4>1, GotoFacts, EndFacts, IdleFacts, LabelFacts, Zenon
      <3> QED
        BY <3>1, Zenon DEF JobStateOK, Busy, Out, In
    <2>3. CASE Restore(j)
      <3>1. (\A i \in Jobs : i # j => job'[i] = job[i]) /\ job'[j].pc = "restoring" /\ job'[j].seen = ToRestore
        BY <1>1, <2>3, ZenonT(60) DEF Restore, TypeOK, Coroutine
      <3> QED
        BY <1>1, <3>1, ToRestoreFacts, Zenon DEF JobStateOK, Busy, Out, In
    <2> QED
      BY <2>1, <2>2, <2>3, Zenon
  <1>4. Shown'
    <2>1. CASE tunnelMap' = tunnelMap
      BY <1>1, <1>2, <2>1, Zenon DEF StateCore, Shown, Agree
    <2>2. CASE onTunnelsLoaded(j)
      <3>1. running = Nothing /\ \A t \in Objects : state[t] = "DOWN"
        BY <1>1, <2>2, Zenon DEF JobStateOK, onTunnelsLoaded, At
      <3>2. tunnelMap' \subseteq Objects
        <4>1. \E added : \E obj \in Injection(added, Fresh) : tunnelMap' = tunnelMap \cup Range(obj)
          BY <2>2, Zenon DEF onTunnelsLoaded
        <4> QED
          BY <1>1, <4>1 DEF Injection, Range, Fresh, TypeOK
      <3>3. Nothing.tunnel = None /\ None \notin Objects
        BY TunnelManagerAssumption, Zenon DEF Nothing
      <3> QED
        BY <1>1, <3>1, <3>2, <3>3, Zenon DEF StateCore, Shown, Agree
    <2> QED
      BY <2>1, <2>2, Zenon DEF Enumerate, Restore, list
  <1> QED
    BY <1>2, <1>3, <1>4, LoaderState, Zenon

\* restoreState of an always-on start.
LEMMA RestoreCallState ==
  ASSUME StoreInv, StateCore, overlap \in {"none", "early"}, NEW j \in Jobs, restoreState(j)
  PROVE  StateCore'
  <1>1. /\ TypeOK /\ Quiet /\ UNCHANGED <<tunnelMap, savedRunning, running, state>>
    BY BeginQuiet, Zenon DEF StoreInv, restoreState, list, objects, disk
  <1>2. \A i \in Jobs : ~Busy(i) /\ ~Out(i) /\ ~Loader(i)
    BY <1>1, Zenon DEF Quiet, At, Busy, Out, In, Loader
  <1>3. (\A i \in Jobs : i # j => job'[i] = job[i]) /\ job'[j].pc = "restoring" /\ job'[j].seen = ToRestore
    BY <1>1, Zenon DEF restoreState, TypeOK, Idle
  <1>4. JobStateOK(j)' /\ ~Busy(j)'
    BY <1>1, <1>3, ToRestoreFacts, Zenon DEF JobStateOK, Busy, Out, In
  <1>5. Shown'
    BY <1>1, <1>2, Zenon DEF StateCore, Shown, Agree
  <1> QED
    BY <1>2, <1>3, <1>4, <1>5, LoaderState, Zenon

\* restoreState calling setTunnelState for the tunnel that ran.
LEMMA RestoreOneState ==
  ASSUME StoreInv, StateCore, NEW j \in Jobs, NEW i \in Jobs, NEW t \in Objects, RestoreOne(j, i, t)
  PROVE  StateCore'
  <1>1. /\ TypeOK /\ JobStateOK(j) /\ job[j].pc = "restoring" /\ t \in job[j].seen /\ i # j /\ Loader(j)
        /\ UNCHANGED <<tunnelMap, savedRunning, running, state>>
    BY Zenon DEF StoreInv, StateCore, RestoreOne, At, Loader, list, objects, disk
  <1>2. state[t] = "DOWN" /\ job[j].seen \ {t} = {}
    BY <1>1, Zenon DEF JobStateOK
  <1>3. \A k \in Jobs : ~Busy(k) /\ ~Out(k) /\ (k # j => ~Loader(k))
    BY <1>1, Zenon DEF StateCore, Serial, Busy
  <1>4. /\ \A k \in Jobs : k # i /\ k # j => job'[k] = job[k]
        /\ job'[j].pc = "restoring" /\ job'[j].seen = {}
        /\ job'[i].pc = "getConfig" /\ job'[i].tunnel = t /\ job'[i].want = "UP" /\ job'[i].orig = "DOWN"
    BY <1>1, <1>2, Zenon DEF RestoreOne, TypeOK, Coroutine, Idle
  <1>5. /\ \A k \in Jobs : k # i => ~Busy(k)' /\ (Loader(k)' => k = j)
        /\ ~Loader(i)' /\ ~Out(i)' /\ ~Out(j)'
    BY <1>3, <1>4, Zenon DEF Busy, Out, In, Loader
  <1>6. Serial'
    BY <1>4, <1>5, Zenon DEF Serial, Loader
  <1>7. JobStateOK(i)'
    BY <1>1, <1>2, <1>4, <1>5, Zenon DEF JobStateOK
  <1>8. JobStateOK(j)'
    BY <1>4, <1>5, Zenon DEF JobStateOK
  <1>9. ASSUME NEW k \in Jobs, k # i, k # j PROVE JobStateOK(k)'
    BY <1>5, <1>9, Zenon DEF Busy, Out, In, Loader, JobStateOK
  <1>10. Shown'
    BY <1>1, <1>3, Zenon DEF StateCore, Shown, Agree
  <1> QED
    BY <1>6, <1>7, <1>8, <1>9, <1>10, Zenon DEF StateCore

\* saveState has stored the name of one running tunnel at most.
OneSaved == \A n, m \in savedRunning : n = m

\* A process that has just started shows every tunnel down, and none runs.
LEMMA StartedState == Started /\ OneSaved => StateCore
  <1> SUFFICES ASSUME Started, OneSaved PROVE StateCore
    BY Zenon
  <1>1. PICK b \in Jobs : job = [j \in Jobs |-> [Idle EXCEPT !.pc = IF j = b THEN "enumerate" ELSE "idle"]]
    BY Zenon DEF Started
  <1>2. job[b].pc = "enumerate" /\ \A i \in Jobs : i # b => job[i].pc = "idle"
    BY <1>1, Zenon DEF Idle
  <1>3. \A i \in Jobs : ~Out(i) /\ ~In(i) /\ ~Busy(i) /\ (Loader(i) => i = b)
    BY <1>2, Zenon DEF Out, In, Busy, Loader
  <1>4. running = Nothing /\ Nothing.tunnel = None /\ tunnelMap = {} /\ \A t \in Objects : state[t] = "DOWN"
    BY Zenon DEF Started, Nothing
  <1>5. Serial /\ Shown
    BY <1>3, <1>4, Zenon DEF Serial, Shown, OneSaved
  <1>6. ASSUME NEW i \in Jobs PROVE JobStateOK(i)
    <2>1. job[i].pc \in {"enumerate", "idle"}
      BY <1>2, Zenon
    <2> QED
      BY <1>3, <1>4, <2>1, Zenon DEF JobStateOK
  <1> QED
    BY <1>5, <1>6, Zenon DEF StateCore

\* Every step preserves the inductive invariant.
LEMMA StateStep ==
  ASSUME StoreInv, StateIInv, ~Intents, [Next]_vars
  PROVE  StateIInv'
  <1>1. SUFFICES ASSUME overlap \in {"none", "early"}, StateCore PROVE StateCore'
    <2>1. overlap' = overlap
      BY Zenon DEF Next, vars
    <2> QED
      BY <1>1, <2>1, Zenon DEF StateIInv, StateCore
  <1>2. CASE UNCHANGED vars
    <2>1. \A i \in Jobs : (Out(i)' <=> Out(i)) /\ (In(i)' <=> In(i)) /\ (Busy(i)' <=> Busy(i)) /\ (Loader(i)' <=> Loader(i)) /\ job'[i] = job[i]
      BY <1>2, Zenon DEF vars, Out, In, Busy, Loader
    <2>2. Serial' /\ Shown'
      BY <1>1, <1>2, <2>1, Zenon DEF vars, list, objects, disk, StateCore, Serial, Shown, Agree
    <2>3. runningTunnelNames' = runningTunnelNames
      BY <1>2, Zenon DEF vars, objects, runningTunnelNames
    <2>4. ASSUME NEW i \in Jobs PROVE JobStateOK(i)'
      BY <1>1, <1>2, <2>1, <2>3, Zenon DEF vars, objects, StateCore, JobStateOK, Agree
    <2> QED
      BY <2>2, <2>4, Zenon DEF StateCore
  <1>3. CASE Restart /\ UNCHANGED overlap
    <2>1. Started'
      BY <1>3, Zenon DEF StoreInv, TypeOK, Restart, Started
    <2>2. OneSaved'
      BY <1>1, <1>3, Zenon DEF Restart, StateCore, Shown, OneSaved
    <2> QED
      BY <2>1, <2>2, StartedState, PTL
  <1>4. CASE Revoke
    BY <1>1, <1>4, RevokeState, Zenon
  <1>5. ASSUME NEW j \in Jobs, Call(j) PROVE StateCore'
    BY <1>1, <1>5, CreateState, TakeOutState, BeginState, SetConfigState, RestoreCallState, Zenon DEF Call
  <1>6. ASSUME NEW j \in Jobs, Step(j) PROVE StateCore'
    BY <1>1, <1>6, CreateState, CreateAddState, OutState, DeleteFileState, AddBackState, ReadState, SetBackendState,
       StateDoneState, RefreshState, LoadState, RestoreOneState, ZenonT(60) DEF Step
  <1> QED
    BY <1>2, <1>3, <1>4, <1>5, <1>6, Zenon DEF Next

\* Between operations the state shown is the backend's: a tunnel is shown up
\* if and only if it is the one that runs, and the one that runs is listed
\* (delete and setTunnelName with their catch and finally blocks,
\* setTunnelState, setTunnelConfig, refreshTunnelStates, restoreState), when
\* each operation is awaited and a tunnel is not raised again while it is up.
THEOREM StateMatchesCorrect ==
  ASSUME "any" \notin Overlaps, ~Intents
  PROVE  Spec => []StateMatches
  <1>1. Init => StateIInv
    <2> SUFFICES ASSUME Init PROVE StateCore
      BY Zenon DEF StateIInv, StateCore
    <2>1. Started /\ savedRunning = {}
      BY TunnelManagerAssumption, Zenon DEF Init, Started
    <2> QED
      BY <2>1, StartedState, Zenon DEF OneSaved
  <1>2. StoreIInv /\ StateIInv /\ [Next]_vars => StateIInv'
    BY StateStep, Zenon DEF StoreIInv
  <1>3. StateIInv => StateMatches
    BY Zenon DEF StateIInv, StateCore, StateMatches, Shown, Agree, Quiet, At, Out
  <1>4. Spec => []StoreIInv
    BY StoreInvariant, Zenon
  <1> QED
    BY <1>1, <1>2, <1>3, <1>4, PTL DEF Spec

=============================================================================
