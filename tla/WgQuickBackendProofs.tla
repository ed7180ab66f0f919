------------------------ MODULE WgQuickBackendProofs ------------------------
(***************************************************************************)
(* WgQuickBackend when calls of setState do not overlap: the inductive     *)
(* invariant that says, for each phase of setState, how the backend's map  *)
(* differs from what it was when the call began, and the safety properties *)
(* that follow from it.                                                    *)
(***************************************************************************)
EXTENDS WgQuickBackend, FiniteSetTheorems, TLAPS

Loops == {"lower", "rewind", "undo"}
Phases == Loops \cup {"idle", "self", "raise", "undoSelf", "down", "returned", "thrown"}
Steps == {"pick", "run", "record", "failed"}
Contents == [Tunnels -> Configs \cup {None}]

CallType ==
    [phase : Phases, tunnel : Tunnels \cup {None}, state : {"UP", "DOWN"}, config : Configs \cup {None}, up : BOOLEAN,
     originalConfig : Configs \cup {None}, snapshot : Contents, todo : SUBSET Tunnels, rewind : SUBSET Tunnels,
     cur : Tunnels \cup {None}, step : Steps, broken : BOOLEAN]

Types ==
    /\ interfaces \in Contents /\ temp \in Contents /\ runningConfigs \in Contents
    /\ multipleTunnels \in BOOLEAN /\ calm \in BOOLEAN
    /\ told \in [Tunnels -> {"UP", "DOWN"}]
    /\ call \in [Calls -> CallType]

Alone == \A i, j \in Calls : call[i].phase # "idle" /\ call[j].phase # "idle" => i = j

\* What the local variables of a call mean at each step of setStateInternal.
LocalOK(i) ==
    /\ call[i].phase # "idle" => call[i].tunnel \in Tunnels
    /\ call[i].step # "pick" => Active(i) /\ call[i].cur \in Candidates(i)
    /\ call[i].step \in {"run", "record"} => ConfigOf(i, call[i].cur) # None
    /\ call[i].step = "run" => temp[call[i].cur] = ConfigOf(i, call[i].cur)
    /\ call[i].step = "record" /\ Wanted(i) = "UP" => interfaces[call[i].cur] # None
    /\ call[i].phase = "down" => call[i].state = "DOWN"
    /\ call[i].phase = "returned" /\ call[i].state = "UP" => interfaces[call[i].tunnel] # None

\* A map without the tunnels of T.
Without(f, T) == [t \in Tunnels |-> IF t \in T THEN None ELSE f[t]]

\* What the map has become, in each phase.
MapOK(i) ==
    LET c == call[i] IN
    /\ c.phase # "idle" => c.originalConfig = c.snapshot[c.tunnel] /\ (c.up <=> c.snapshot[c.tunnel] # None)
    /\ c.phase = "lower" => /\ ~c.up /\ ~multipleTunnels
                            /\ runningConfigs = Without(c.snapshot, c.rewind)
                            /\ c.todo = Up(c.snapshot) \ c.rewind
    /\ c.phase \in {"rewind", "undo"} => runningConfigs = Without(c.snapshot, c.todo)
    /\ c.phase \in {"self", "undoSelf"} => c.up
    /\ c.phase \in {"self", "down"} => runningConfigs = c.snapshot
    /\ c.phase = "raise" => runningConfigs = IF c.up THEN Without(c.snapshot, {c.tunnel})
                                             ELSE IF multipleTunnels THEN c.snapshot ELSE Empty
    /\ c.phase = "undoSelf" => runningConfigs = Without(c.snapshot, {c.tunnel})
    /\ c.phase = "thrown" /\ ~c.broken => runningConfigs = c.snapshot
    /\ c.phase = "returned" /\ c.state = "UP" /\ ~c.up /\ ~multipleTunnels => Up(runningConfigs) \subseteq {c.tunnel}

\* The map and the kernel differ only between a command and its bookkeeping.
KernelOK ==
    /\ \A t \in Tunnels : told[t] = "UP" <=> runningConfigs[t] # None
    /\ (\A i \in Calls : call[i].step # "record") => interfaces = runningConfigs
    /\ \A i \in Calls : call[i].step = "record" =>
          interfaces = [runningConfigs EXCEPT ![call[i].cur] = IF Wanted(i) = "UP" THEN ConfigOf(i, call[i].cur) ELSE None]

QuickInv ==
    /\ Types
    /\ Alone
    /\ \A i \in Calls : LocalOK(i)
    /\ calm => KernelOK /\ \A i \in Calls : MapOK(i)

-----------------------------------------------------------------------------
(* Helpers *)

\* The record of a call that is not in progress (Idle).
LEMMA IdleType == Idle \in CallType /\ Idle.phase = "idle" /\ Idle.step = "pick"
  BY Zenon DEF Idle, CallType, Phases, Loops, Steps, Contents, Empty

\* The tunnels of a map are tunnels (Up).
LEMMA UpType == \A f : Up(f) \in SUBSET Tunnels
  BY Zenon DEF Up

\* setStateInternal works on a tunnel that has a name (WriteTemp).
LEMMA CandidatesType ==
  ASSUME Types, NEW i \in Calls, LocalOK(i), Active(i)
  PROVE  Candidates(i) \subseteq Tunnels
  BY Zenon DEF Types, CallType, LocalOK, Active, Candidates

\* A step of call i that leaves the other calls alone keeps calls apart.
LEMMA AloneStep ==
  ASSUME Alone, NEW i \in Calls, \A j \in Calls \ {i} : call'[j] = call[j],
         call[i].phase # "idle" \/ call'[i].phase = "idle" \/ Quiet
  PROVE  Alone'
  BY Zenon DEF Alone, Quiet

\* Who is not in progress is at no step (LocalOK).
LEMMA OthersIdle ==
  ASSUME QuickInv, NEW i \in Calls, call[i].phase # "idle"
  PROVE  \A j \in Calls \ {i} : call[j].phase = "idle" /\ call[j].step = "pick"
  BY Zenon DEF QuickInv, Alone, LocalOK, Active

-----------------------------------------------------------------------------
(* Where setState goes *)

\* The arguments of setState and what it has read at its start, which no step changes.
SameCall(i) ==
    /\ \A j \in Calls \ {i} : call'[j] = call[j]
    /\ call'[i].tunnel = call[i].tunnel /\ call'[i].state = call[i].state /\ call'[i].config = call[i].config
    /\ call'[i].up = call[i].up /\ call'[i].originalConfig = call[i].originalConfig
    /\ call'[i].snapshot = call[i].snapshot

\* Throw leaves the arguments alone, and says what is to be undone.
LEMMA ThrowFields ==
  ASSUME Types, NEW i \in Calls, Throw(i)
  PROVE  /\ call' \in [Calls -> CallType] /\ SameCall(i)
         /\ call'[i].step = "pick"
         /\ call'[i].broken = (call[i].phase \in {"rewind", "undo", "undoSelf"})
         /\ call'[i].phase = AfterThrow(i)
         /\ AfterThrow(i) \in {"rewind", "undoSelf", "undo", "thrown"}
         /\ AfterThrow(i) = "rewind" => call'[i].todo = call[i].rewind
         /\ AfterThrow(i) = "undo" => call'[i].todo = Up(call[i].snapshot)
  <1> DEFINE todo == CASE AfterThrow(i) = "rewind" -> call[i].rewind
                       [] AfterThrow(i) = "undo" -> Up(call[i].snapshot)
                       [] OTHER -> {}
             broken == call[i].phase \in {"rewind", "undo", "undoSelf"}
             rec == [call[i] EXCEPT !.phase = AfterThrow(i), !.todo = todo, !.rewind = {}, !.step = "pick",
                                    !.cur = None, !.broken = broken]
  <1>1. call[i] \in CallType /\ call \in [Calls -> CallType]
    BY Zenon DEF Types
  <1>2. AfterThrow(i) \in {"rewind", "undoSelf", "undo", "thrown"}
    BY Zenon DEF AfterThrow, RaiseFailed, Loop
  <1>3. todo \in SUBSET Tunnels
    BY <1>1, UpType, Zenon DEF CallType
  <1>4. call' = [call EXCEPT ![i] = rec]
    BY Zenon DEF Throw
  <1>5. /\ AfterThrow(i) = "rewind" => todo = call[i].rewind
        /\ AfterThrow(i) = "undo" => todo = Up(call[i].snapshot)
    BY Zenon
  <1>6. broken \in BOOLEAN
    OBVIOUS
  <1> HIDE DEF todo, broken
  <1>7. rec \in CallType
    <2>1. AfterThrow(i) \in Phases /\ "pick" \in Steps /\ {} \in SUBSET Tunnels /\ None \in Tunnels \cup {None}
      BY <1>2, Zenon DEF Phases, Loops, Steps
    <2> QED
      BY <1>1, <1>3, <1>6, <2>1, Zenon DEF CallType
  <1>8. /\ rec.tunnel = call[i].tunnel /\ rec.state = call[i].state /\ rec.config = call[i].config
        /\ rec.up = call[i].up /\ rec.originalConfig = call[i].originalConfig /\ rec.snapshot = call[i].snapshot
        /\ rec.step = "pick" /\ rec.broken = broken /\ rec.phase = AfterThrow(i) /\ rec.todo = todo
    BY <1>1, Zenon DEF CallType
  <1> HIDE DEF rec
  <1>9. /\ call' \in [Calls -> CallType] /\ call'[i] = rec
        /\ \A j \in Calls \ {i} : call'[j] = call[j]
    BY <1>1, <1>4, <1>7, Zenon
  <1> QED
    BY <1>2, <1>5, <1>8, <1>9, Zenon DEF SameCall, broken

\* Continue takes the tunnel that is done from the loop.
LEMMA ContinueFields ==
  ASSUME Types, NEW i \in Calls, Active(i), NEW u \in Tunnels, Continue(i, u)
  PROVE  /\ call' \in [Calls -> CallType] /\ SameCall(i)
         /\ call'[i].step = "pick"
         /\ call'[i].broken = call[i].broken
         /\ call'[i].phase = AfterReturn(i, call[i].todo \ {u})
         /\ call'[i].todo = call[i].todo \ {u}
         /\ call[i].phase = "lower" => call'[i].rewind = call[i].rewind \cup {u}
  <1> DEFINE todo == call[i].todo \ {u}
             rewind == IF call[i].phase = "lower" THEN call[i].rewind \cup {u} ELSE {}
             rec == [call[i] EXCEPT !.phase = AfterReturn(i, todo), !.todo = todo, !.rewind = rewind,
                                    !.step = "pick", !.cur = None]
  <1>1. call[i] \in CallType /\ call \in [Calls -> CallType]
    BY Zenon DEF Types
  <1>2. AfterReturn(i, todo) \in {"lower", "raise", "returned", "rewind", "undo", "thrown"}
    <2>1. call[i].phase \in {"lower", "rewind", "undo", "self", "raise", "undoSelf", "down"}
      BY <1>1, Zenon DEF Active, CallType, Phases, Loops
    <2> HIDE DEF todo
    <2> QED
      BY <2>1, Zenon DEF AfterReturn, Loop
  <1>3. todo \in SUBSET Tunnels /\ rewind \in SUBSET Tunnels
    BY <1>1, Zenon DEF CallType
  <1>4. call' = [call EXCEPT ![i] = rec]
    BY Zenon DEF Continue
  <1>5. call[i].phase = "lower" => rewind = call[i].rewind \cup {u}
    BY Zenon
  <1> HIDE DEF todo, rewind
  <1>7. rec \in CallType
    <2>1. AfterReturn(i, todo) \in Phases /\ "pick" \in Steps /\ None \in Tunnels \cup {None}
      BY <1>2, Zenon DEF Phases, Loops, Steps
    <2> QED
      BY <1>1, <1>3, <2>1, Zenon DEF CallType
  <1>8. /\ rec.tunnel = call[i].tunnel /\ rec.state = call[i].state /\ rec.config = call[i].config
        /\ rec.up = call[i].up /\ rec.originalConfig = call[i].originalConfig /\ rec.snapshot = call[i].snapshot
        /\ rec.step = "pick" /\ rec.broken = call[i].broken /\ rec.phase = AfterReturn(i, todo) /\ rec.todo = todo
        /\ rec.rewind = rewind
    BY <1>1, Zenon DEF CallType
  <1> HIDE DEF rec
  <1>9. /\ call' \in [Calls -> CallType] /\ call'[i] = rec
        /\ \A j \in Calls \ {i} : call'[j] = call[j]
    BY <1>1, <1>4, <1>7, Zenon
  <1> QED
    BY <1>5, <1>8, <1>9, Zenon DEF SameCall, todo

\* The other calls, which are not in progress, hold no one up.
LEMMA IdleOK ==
  ASSUME NEW j \in Calls, call'[j].phase = "idle", call'[j].step = "pick"
  PROVE  LocalOK(j)' /\ MapOK(j)'
  BY Zenon DEF LocalOK, MapOK, Active

\* At rest, the map of the backend is the kernel's (KernelOK).
LEMMA AtRest ==
  ASSUME QuickInv, calm, NEW i \in Calls, call[i].phase # "idle", call[i].step # "record"
  PROVE  interfaces = runningConfigs
  BY OthersIdle, Zenon DEF QuickInv, KernelOK

\* The catch blocks: when setStateInternal throws and nothing was changed, what
\* is left to undo is what was lowered so far.
LEMMA ThrowStep ==
  ASSUME QuickInv, NEW i \in Calls, Active(i), Throw(i),
         UNCHANGED <<runningConfigs, multipleTunnels, told>>,
         interfaces' \in Contents, temp' \in Contents, calm' \in BOOLEAN,
         calm' => calm /\ interfaces' = interfaces /\ call[i].step # "record"
  PROVE  QuickInv'
  <1>1. Types /\ Alone /\ LocalOK(i) /\ call[i].phase # "idle" /\ call[i] \in CallType
    BY Zenon DEF QuickInv, Active, Types
  <1>2. /\ call' \in [Calls -> CallType] /\ SameCall(i)
        /\ call'[i].step = "pick"
        /\ call'[i].broken = (call[i].phase \in {"rewind", "undo", "undoSelf"})
        /\ call'[i].phase = AfterThrow(i)
        /\ AfterThrow(i) \in {"rewind", "undoSelf", "undo", "thrown"}
        /\ AfterThrow(i) = "rewind" => call'[i].todo = call[i].rewind
        /\ AfterThrow(i) = "undo" => call'[i].todo = Up(call[i].snapshot)
    BY <1>1, ThrowFields, Zenon
  <1>3. \A j \in Calls \ {i} : call'[j].phase = "idle" /\ call'[j].step = "pick"
    BY <1>1, <1>2, OthersIdle DEF SameCall
  <1>4. Types'
    BY <1>1, <1>2, Zenon DEF Types
  <1>5. Alone'
    BY <1>1, <1>2, AloneStep, Zenon DEF SameCall
  <1>6. LocalOK(i)'
    BY <1>1, <1>2, Zenon DEF LocalOK, SameCall
  <1>7. ASSUME calm' PROVE KernelOK'
    <2>1. interfaces = runningConfigs
      BY <1>1, <1>7, AtRest, Zenon
    <2>2. \A j \in Calls : call'[j].step = "pick"
      BY <1>2, <1>3, Zenon
    <2> QED
      BY <1>7, <2>1, <2>2, Zenon DEF KernelOK, QuickInv
  <1>8. ASSUME calm' PROVE MapOK(i)'
    <2>1. MapOK(i)
      BY <1>8, Zenon DEF QuickInv
    <2>2. /\ call'[i].originalConfig = call'[i].snapshot[call'[i].tunnel]
          /\ call'[i].up <=> call'[i].snapshot[call'[i].tunnel] # None
      BY <1>1, <1>2, <2>1, Zenon DEF MapOK, SameCall
    <2>3. call[i].phase \in {"lower", "rewind", "undo", "self", "raise", "undoSelf", "down"}
      BY <1>1, Zenon DEF Active, CallType, Phases, Loops
    <2>5. call[i].snapshot \in Contents
      BY <1>1, Zenon DEF CallType
    <2>6. Without(call[i].snapshot, {}) = call[i].snapshot /\ Without(call[i].snapshot, Up(call[i].snapshot)) = Empty
      BY <2>5, Zenon DEF Without, Up, Empty, Contents
    <2>7. AfterThrow(i) = "rewind" => runningConfigs = Without(call[i].snapshot, call[i].rewind)
      BY <2>1, <2>3, Zenon DEF MapOK, AfterThrow, RaiseFailed, Loop
    <2>8. AfterThrow(i) = "undo" => runningConfigs = Empty
      BY <2>1, <2>3, Zenon DEF MapOK, AfterThrow, RaiseFailed, Loop
    <2>9. AfterThrow(i) = "undoSelf" => call[i].up /\ runningConfigs = Without(call[i].snapshot, {call[i].tunnel})
      BY <2>1, <2>3, Zenon DEF MapOK, AfterThrow, RaiseFailed, Loop
    <2>10. ASSUME AfterThrow(i) = "thrown", call[i].phase \notin {"rewind", "undo", "undoSelf"}
           PROVE  runningConfigs = call[i].snapshot
      <3>1. CASE call[i].phase = "lower"
        BY <2>1, <2>6, <2>10, <3>1, Zenon DEF MapOK, AfterThrow, Loop
      <3>2. CASE call[i].phase = "raise"
        <4>1. ~call[i].up
          BY <1>1, <2>1, <2>10, <3>2, Zenon DEF MapOK, AfterThrow, RaiseFailed
        <4>2. CASE multipleTunnels
          BY <2>1, <3>2, <4>1, <4>2, Zenon DEF MapOK
        <4>3. CASE ~multipleTunnels
          <5>1. Up(call[i].snapshot) = {}
            BY <2>10, <3>2, <4>1, <4>3, Zenon DEF AfterThrow, RaiseFailed, Loop
          <5> QED
            BY <2>1, <2>6, <3>2, <4>1, <4>3, <5>1, Zenon DEF MapOK
        <4> QED
          BY <4>2, <4>3, Zenon
      <3> QED
        BY <2>1, <2>3, <2>10, <3>1, <3>2, Zenon DEF MapOK
    <2> QED
      BY <1>2, <2>2, <2>6, <2>7, <2>8, <2>9, <2>10, Zenon DEF MapOK, SameCall
  <1>9. \A j \in Calls : LocalOK(j)' /\ (calm' => MapOK(j)')
    BY <1>3, <1>6, <1>8, IdleOK, Zenon
  <1> QED
    BY <1>4, <1>5, <1>7, <1>9, Zenon DEF QuickInv

\* The bookkeeping after a command: the map, the tunnel that is told and the
\* loop of setState go on together (Record).
LEMMA RecordStep ==
  ASSUME QuickInv, NEW i \in Calls, Record(i)
  PROVE  QuickInv'
  <1> DEFINE u == call[i].cur
             S == call[i].snapshot
             todo == call[i].todo \ {u}
             new == IF Wanted(i) = "UP" THEN ConfigOf(i, u) ELSE None
  <1>1. Types /\ Alone /\ LocalOK(i) /\ call[i] \in CallType
    BY Zenon DEF QuickInv, Types
  <1>2. Active(i) /\ call[i].phase # "idle" /\ u \in Candidates(i) /\ ConfigOf(i, u) # None
    BY <1>1, Zenon DEF Record, LocalOK, Active
  <1>3. u \in Tunnels
    BY <1>1, <1>2, CandidatesType, Zenon
  <1>4. /\ S \in Contents /\ call[i].config \in Configs \cup {None} /\ call[i].originalConfig \in Configs \cup {None}
        /\ call[i].phase \in {"lower", "rewind", "undo", "self", "raise", "undoSelf", "down"}
    BY <1>1, <1>2, Zenon DEF CallType, Active, Phases, Loops
  <1>5. ConfigOf(i, u) \in Configs /\ new \in Configs \cup {None} /\ (new # None <=> Wanted(i) = "UP")
    BY <1>2, <1>3, <1>4, Zenon DEF ConfigOf, Contents
  <1>6. /\ call' \in [Calls -> CallType] /\ SameCall(i)
        /\ call'[i].step = "pick"
        /\ call'[i].broken = call[i].broken
        /\ call'[i].phase = AfterReturn(i, todo)
        /\ call'[i].todo = todo
        /\ call[i].phase = "lower" => call'[i].rewind = call[i].rewind \cup {u}
    BY <1>1, <1>2, <1>3, ContinueFields, Zenon DEF Record
  <1>7. /\ UNCHANGED <<interfaces, multipleTunnels, calm>> /\ temp' = [temp EXCEPT ![u] = None]
        /\ runningConfigs' = [runningConfigs EXCEPT ![u] = new]
        /\ told' = [told EXCEPT ![u] = Wanted(i)]
    BY Zenon DEF Record, DeleteTemp, Remember, Tell
  <1>8. Wanted(i) \in {"UP", "DOWN"} /\ (Wanted(i) = "DOWN" <=> call[i].phase \in {"lower", "self", "down"})
    BY Zenon DEF Wanted
  <1>9. \A j \in Calls \ {i} : call'[j].phase = "idle" /\ call'[j].step = "pick"
    BY <1>2, <1>6, OthersIdle, Zenon DEF SameCall
  <1>10. Types'
    <2> HIDE DEF u, new
    <2> QED
      BY <1>1, <1>3, <1>5, <1>6, <1>7, <1>8, Zenon DEF Types, Contents
  <1>11. Alone'
    BY <1>1, <1>2, <1>6, AloneStep, Zenon DEF SameCall
  <1>12. LocalOK(i)'
    <2>1. ASSUME AfterReturn(i, todo) = "returned", call[i].state = "UP" PROVE interfaces[call[i].tunnel] # None
      <3>1. call[i].phase = "raise"
        BY <1>1, <1>4, <2>1, Zenon DEF AfterReturn, Loop, LocalOK
      <3> QED
        BY <1>1, <1>2, <1>8, <3>1, Zenon DEF LocalOK, Record, Candidates, Wanted
    <2>2. AfterReturn(i, todo) # "down"
      BY <1>4, Zenon DEF AfterReturn, Loop
    <2>3. call[i].tunnel \in Tunnels
      BY <1>1, <1>2, Zenon DEF LocalOK
    <2> QED
      BY <1>6, <1>7, <2>1, <2>2, <2>3, Zenon DEF LocalOK, SameCall
  <1>13. ASSUME calm PROVE KernelOK'
    <2>1. /\ interfaces = [runningConfigs EXCEPT ![u] = new]
          /\ \A t \in Tunnels : told[t] = "UP" <=> runningConfigs[t] # None
      BY <1>13, Zenon DEF QuickInv, KernelOK, Record
    <2>2. \A t \in Tunnels : told'[t] = "UP" <=> runningConfigs'[t] # None
      <3> HIDE DEF u, new
      <3> QED
        BY <1>1, <1>3, <1>5, <1>7, <1>8, <2>1, Zenon DEF Types, Contents
    <2>3. \A j \in Calls : call'[j].step = "pick"
      BY <1>6, <1>9, Zenon
    <2> QED
      BY <1>7, <2>1, <2>2, <2>3, Zenon DEF KernelOK
  <1>14. ASSUME calm PROVE MapOK(i)'
    <2>1. MapOK(i) /\ runningConfigs \in Contents
      BY <1>1, <1>14, Zenon DEF QuickInv, Types
    <2>2. /\ call'[i].originalConfig = call'[i].snapshot[call'[i].tunnel]
          /\ call'[i].up <=> call'[i].snapshot[call'[i].tunnel] # None
      BY <1>2, <1>6, <2>1, Zenon DEF MapOK, SameCall
    <2>3. call[i].phase \notin Loops => u = call[i].tunnel
      BY <1>2, Zenon DEF Candidates, Loops
    <2>4. CASE call[i].phase = "lower"
      <3>1. new = None
        BY <1>8, <2>4, Zenon
      <3>2. runningConfigs = Without(S, call[i].rewind) /\ call[i].todo = Up(S) \ call[i].rewind
        BY <2>1, <2>4, Zenon DEF MapOK
      <3>3. runningConfigs' = Without(S, call[i].rewind \cup {u}) /\ todo = Up(S) \ (call[i].rewind \cup {u})
        BY <1>3, <1>7, <3>1, <3>2, Zenon DEF Without
      <3>4. todo = {} => runningConfigs' = Empty
        BY <1>4, <3>3, Zenon DEF Without, Empty, Up, Contents
      <3> QED
        BY <1>6, <1>7, <2>1, <2>2, <2>4, <3>3, <3>4, Zenon DEF MapOK, SameCall, AfterReturn, Loop
    <2>5. CASE call[i].phase \in {"rewind", "undo"}
      <3>1. new = S[u]
        BY <1>8, <2>5, Zenon DEF ConfigOf
      <3>2. runningConfigs = Without(S, call[i].todo)
        BY <2>1, <2>5, Zenon DEF MapOK
      <3>3. runningConfigs' = Without(S, todo)
        BY <1>3, <1>7, <3>1, <3>2, Zenon DEF Without
      <3>4. todo = {} => runningConfigs' = S
        BY <1>4, <3>3, Zenon DEF Without, Contents
      <3> QED
        BY <1>6, <1>7, <2>2, <2>5, <3>3, <3>4, Zenon DEF MapOK, SameCall, AfterReturn, Loop
    <2>6. CASE call[i].phase = "self"
      <3>1. new = None /\ runningConfigs = S /\ call[i].up
        BY <1>8, <2>1, <2>6, Zenon DEF MapOK
      <3>2. runningConfigs' = Without(S, {call[i].tunnel})
        BY <1>4, <1>7, <2>3, <2>6, <3>1, Zenon DEF Without, Contents, Loops
      <3> QED
        BY <1>6, <1>7, <2>2, <2>6, <3>1, <3>2, Zenon DEF MapOK, SameCall, AfterReturn
    <2>7. CASE call[i].phase = "raise"
      <3>1. ASSUME ~call[i].up, ~multipleTunnels PROVE Up(runningConfigs') \subseteq {call[i].tunnel}
        <4>1. runningConfigs = Empty
          BY <2>1, <2>7, <3>1, Zenon DEF MapOK
        <4> QED
          BY <1>7, <2>3, <2>7, <4>1, Zenon DEF Up, Empty, Loops
      <3> QED
        BY <1>6, <1>7, <2>2, <2>7, <3>1, Zenon DEF MapOK, SameCall, AfterReturn
    <2>8. CASE call[i].phase = "down"
      <3>1. call[i].state = "DOWN"
        BY <1>1, <2>8, Zenon DEF LocalOK
      <3> QED
        BY <1>6, <1>7, <2>2, <2>8, <3>1, Zenon DEF MapOK, SameCall, AfterReturn
    <2>9. CASE call[i].phase = "undoSelf"
      <3>1. new = S[u] /\ runningConfigs = Without(S, {u})
        BY <1>2, <1>8, <2>1, <2>3, <2>9, Zenon DEF MapOK, ConfigOf, Loops
      <3>2. runningConfigs' = S
        BY <1>3, <1>4, <1>7, <3>1, Zenon DEF Without, Contents
      <3> QED
        BY <1>6, <1>7, <2>2, <2>9, <3>2, Zenon DEF MapOK, SameCall, AfterReturn
    <2> QED
      BY <1>4, <2>4, <2>5, <2>6, <2>7, <2>8, <2>9, Zenon
  <1>15. \A j \in Calls : LocalOK(j)' /\ (calm' => MapOK(j)')
    BY <1>7, <1>9, <1>12, <1>14, IdleOK, Zenon
  <1> QED
    BY <1>7, <1>10, <1>11, <1>13, <1>15, Zenon DEF QuickInv


\* setStateInternal goes one step on, in the same phase of setState.
StepOn(i, u, s) ==
    /\ call' \in [Calls -> CallType] /\ SameCall(i)
    /\ call'[i].phase = call[i].phase /\ call'[i].todo = call[i].todo /\ call'[i].rewind = call[i].rewind
    /\ call'[i].broken = call[i].broken
    /\ call'[i].step = s /\ call'[i].cur = u

\* The fields that WriteTemp and Run change.
LEMMA StepFields ==
  ASSUME Types, NEW i \in Calls, NEW u \in Tunnels, NEW s \in Steps,
         \/ call' = [call EXCEPT ![i] = [call[i] EXCEPT !.step = s, !.cur = u]]
         \/ call' = [call EXCEPT ![i] = [call[i] EXCEPT !.step = s]] /\ u = call[i].cur
  PROVE  StepOn(i, u, s)
  <1> DEFINE rec == [call[i] EXCEPT !.step = s, !.cur = u]
  <1>1. call[i] \in CallType /\ call \in [Calls -> CallType]
    BY Zenon DEF Types
  <1>2. rec \in CallType
    BY <1>1, Zenon DEF CallType
  <1>3. call' = [call EXCEPT ![i] = rec]
    BY <1>1, Zenon DEF CallType
  <1>4. /\ rec.tunnel = call[i].tunnel /\ rec.state = call[i].state /\ rec.config = call[i].config
        /\ rec.up = call[i].up /\ rec.originalConfig = call[i].originalConfig /\ rec.snapshot = call[i].snapshot
        /\ rec.step = s /\ rec.cur = u /\ rec.broken = call[i].broken /\ rec.phase = call[i].phase
        /\ rec.todo = call[i].todo /\ rec.rewind = call[i].rewind
    BY <1>1, Zenon DEF CallType
  <1> HIDE DEF rec
  <1> QED
    BY <1>1, <1>2, <1>3, <1>4, Zenon DEF StepOn, SameCall

\* What setStateInternal works on stays the same between its steps.
LEMMA SameWork ==
  ASSUME NEW i \in Calls, NEW u, NEW s, StepOn(i, u, s)
  PROVE  /\ Candidates(i)' = Candidates(i) /\ Wanted(i)' = Wanted(i) /\ Active(i)' = Active(i)
         /\ ConfigOf(i, u)' = ConfigOf(i, u)
  BY Zenon DEF StepOn, SameCall, Candidates, Wanted, Active, ConfigOf

\* A step within setStateInternal changes neither the map nor what is to be undone.
LEMMA StepStep ==
  ASSUME QuickInv, NEW i \in Calls, Active(i), NEW u \in Tunnels, NEW s \in Steps, StepOn(i, u, s),
         UNCHANGED <<runningConfigs, multipleTunnels, told>>,
         interfaces' \in Contents, temp' \in Contents, calm' \in BOOLEAN, calm' => calm,
         LocalOK(i)', calm' => KernelOK'
  PROVE  QuickInv'
  <1>1. Types /\ Alone /\ call[i].phase # "idle"
    BY Zenon DEF QuickInv, Active
  <1>2. \A j \in Calls \ {i} : call'[j].phase = "idle" /\ call'[j].step = "pick"
    BY <1>1, OthersIdle, Zenon DEF StepOn, SameCall
  <1>3. Types'
    BY <1>1, Zenon DEF Types, StepOn
  <1>4. Alone'
    BY <1>1, AloneStep, Zenon DEF StepOn, SameCall
  <1>5. calm' => MapOK(i)'
    <2>1. calm => MapOK(i)
      BY Zenon DEF QuickInv
    <2>2. /\ call'[i].phase = call[i].phase /\ call'[i].todo = call[i].todo /\ call'[i].rewind = call[i].rewind
          /\ call'[i].broken = call[i].broken /\ call'[i].tunnel = call[i].tunnel /\ call'[i].state = call[i].state
          /\ call'[i].up = call[i].up /\ call'[i].originalConfig = call[i].originalConfig
          /\ call'[i].snapshot = call[i].snapshot
      BY Zenon DEF StepOn, SameCall
    <2> QED
      BY <2>1, <2>2, Zenon DEF MapOK
  <1>6. \A j \in Calls : LocalOK(j)' /\ (calm' => MapOK(j)')
    BY <1>2, <1>5, IdleOK, Zenon
  <1> QED
    BY <1>3, <1>4, <1>6, Zenon DEF QuickInv

\* The kernel and the map agree as long as no command has just succeeded.
LEMMA KernelStep ==
  ASSUME QuickInv, NEW i \in Calls, Active(i), call[i].step # "record", calm, NEW u \in Tunnels, NEW s \in Steps,
         StepOn(i, u, s), UNCHANGED <<runningConfigs, told>>,
         IF s = "record"
         THEN interfaces' = [interfaces EXCEPT ![u] = IF Wanted(i) = "UP" THEN ConfigOf(i, u) ELSE None]
         ELSE interfaces' = interfaces
  PROVE  KernelOK'
  <1>1. call[i].phase # "idle"
    BY Zenon DEF Active
  <1>2. interfaces = runningConfigs
    BY <1>1, AtRest, Zenon
  <1>3. call'[i].step = s /\ call'[i].cur = u /\ \A j \in Calls \ {i} : call'[j].step = "pick"
    BY <1>1, OthersIdle, Zenon DEF StepOn, SameCall
  <1>4. Wanted(i)' = Wanted(i) /\ ConfigOf(i, call[i].cur)' = ConfigOf(i, u)
    BY <1>3, SameWork, Zenon DEF StepOn, SameCall, ConfigOf
  <1>5. \A t \in Tunnels : told'[t] = "UP" <=> runningConfigs'[t] # None
    BY Zenon DEF QuickInv, KernelOK
  <1>6. CASE s = "record"
    <2>1. interfaces' = [runningConfigs' EXCEPT ![u] = IF Wanted(i) = "UP" THEN ConfigOf(i, u) ELSE None]
      BY <1>2, <1>6, Zenon
    <2>2. \A j \in Calls : call'[j].step = "record" => j = i
      BY <1>3, Zenon
    <2>3. (interfaces = [runningConfigs EXCEPT ![call[i].cur] = IF Wanted(i) = "UP" THEN ConfigOf(i, call[i].cur) ELSE None])'
      BY <1>3, <1>4, <2>1, Zenon
    <2>4. \A j \in Calls : (call[j].step = "record" => interfaces =
             [runningConfigs EXCEPT ![call[j].cur] = IF Wanted(j) = "UP" THEN ConfigOf(j, call[j].cur) ELSE None])'
      BY <2>2, <2>3, Zenon
    <2>5. call'[i].step = "record"
      BY <1>3, <1>6, Zenon
    <2> QED
      BY <1>5, <2>4, <2>5, Zenon DEF KernelOK
  <1>7. CASE s # "record"
    <2>1. interfaces' = runningConfigs' /\ \A j \in Calls : call'[j].step # "record"
      BY <1>2, <1>3, <1>7, Zenon
    <2> QED
      BY <1>5, <2>1, Zenon DEF KernelOK
  <1> QED
    BY <1>6, <1>7, Zenon


\* The temporary file is written, or requireNonNull or the write throws (WriteTemp).
LEMMA WriteTempStep ==
  ASSUME QuickInv, NEW i \in Calls, WriteTemp(i)
  PROVE  QuickInv'
  <1>1. Types /\ LocalOK(i) /\ Active(i) /\ call[i].step = "pick" /\ call[i] \in CallType
    BY Zenon DEF QuickInv, WriteTemp, Types
  <1>2. UNCHANGED <<interfaces, runningConfigs, multipleTunnels, told, calm>>
    BY Zenon DEF WriteTemp
  <1>3. CASE Throw(i) /\ UNCHANGED temp
    BY <1>1, <1>2, <1>3, ThrowStep, Zenon DEF Types
  <1>4. ASSUME NEW u \in Candidates(i), ConfigOf(i, u) # None, temp' = [temp EXCEPT ![u] = ConfigOf(i, u)],
               call' = [call EXCEPT ![i] = [call[i] EXCEPT !.step = "run", !.cur = u]]
        PROVE  QuickInv'
    <2>1. u \in Tunnels
      BY <1>1, CandidatesType, Zenon
    <2>2. StepOn(i, u, "run")
      BY <1>1, <1>4, <2>1, StepFields, Zenon DEF Steps
    <2>3. ConfigOf(i, u) \in Configs \cup {None}
      BY <1>1, <2>1, Zenon DEF ConfigOf, CallType, Contents
    <2>4. temp' \in Contents /\ temp'[u] = ConfigOf(i, u)
      BY <1>1, <1>4, <2>1, <2>3, Zenon DEF Types, Contents
    <2>5. LocalOK(i)'
      <3>1. /\ Candidates(i)' = Candidates(i) /\ Wanted(i)' = Wanted(i) /\ Active(i)' = Active(i)
            /\ ConfigOf(i, u)' = ConfigOf(i, u)
        BY <2>2, SameWork, Zenon
      <3>2. ConfigOf(i, call[i].cur)' = ConfigOf(i, u) /\ call'[i].cur = u
        BY <2>2, <3>1, Zenon DEF StepOn, ConfigOf
      <3> QED
        BY <1>1, <1>2, <1>4, <2>2, <2>4, <3>1, <3>2, Zenon DEF LocalOK, StepOn, SameCall
    <2>6. calm' => KernelOK'
      BY <1>1, <1>2, <2>1, <2>2, KernelStep, Zenon DEF Steps
    <2> QED
      BY <1>1, <1>2, <2>1, <2>2, <2>4, <2>5, <2>6, StepStep, Zenon DEF Types, Steps
  <1> QED
    BY <1>3, <1>4, Zenon DEF WriteTemp

\* The command succeeds, fails or is lost with its shell (Run).
LEMMA RunStep ==
  ASSUME QuickInv, NEW i \in Calls, Run(i)
  PROVE  QuickInv'
  <1> DEFINE u == call[i].cur
  <1>1. /\ Types /\ LocalOK(i) /\ Active(i) /\ call[i].step = "run" /\ call[i] \in CallType
        /\ u \in Candidates(i) /\ ConfigOf(i, u) # None /\ temp[u] = ConfigOf(i, u)
    BY Zenon DEF QuickInv, Run, Types, LocalOK
  <1>2. u \in Tunnels
    BY <1>1, CandidatesType, Zenon
  <1>3. UNCHANGED <<temp, runningConfigs, multipleTunnels, told>>
    BY Zenon DEF Run
  <1>4. \A s : WgQuick(u, s) =>
           /\ interfaces' = [interfaces EXCEPT ![u] = IF s = "UP" THEN ConfigOf(i, u) ELSE None]
           /\ interfaces' \in Contents
           /\ s = "UP" => interfaces'[u] # None
    BY <1>1, <1>2, Zenon DEF WgQuick, Types, Contents
  <1>5. Wanted(i) \in {"UP", "DOWN"}
    BY Zenon DEF Wanted
  <1>6. ASSUME NEW s \in {"record", "failed"}, call' = [call EXCEPT ![i] = [call[i] EXCEPT !.step = s]],
               interfaces' \in Contents, calm' \in BOOLEAN, calm' => calm,
               s = "record" => WgQuick(u, Wanted(i)),
               calm' /\ s = "failed" => interfaces' = interfaces
        PROVE  QuickInv'
    <2>1. StepOn(i, u, s) /\ s \in Steps
      BY <1>1, <1>2, <1>6, StepFields, Zenon DEF Steps
    <2>2. LocalOK(i)'
      <3>1. /\ Candidates(i)' = Candidates(i) /\ Wanted(i)' = Wanted(i) /\ Active(i)' = Active(i)
            /\ ConfigOf(i, u)' = ConfigOf(i, u)
        BY <2>1, SameWork DEF StepOn, ConfigOf
      <3>2. ConfigOf(i, call[i].cur)' = ConfigOf(i, u) /\ call'[i].cur = u
        BY <2>1, <3>1, Zenon DEF StepOn, ConfigOf
      <3> QED
        BY <1>1, <1>3, <1>4, <1>6, <2>1, <3>1, <3>2 DEF LocalOK, StepOn, SameCall, Active
    <2>3. calm' => KernelOK'
      BY <1>1, <1>2, <1>3, <1>4, <1>6, <2>1, KernelStep, Zenon
    <2> QED
      BY <1>1, <1>2, <1>3, <1>6, <2>1, <2>2, <2>3, StepStep, Zenon DEF Types
  <1>7. ASSUME Throw(i), interfaces' \in Contents, calm' = FALSE PROVE QuickInv'
    BY <1>1, <1>3, <1>7, ThrowStep, Zenon DEF Types
  <1>8. interfaces \in Contents /\ calm \in BOOLEAN
    BY <1>1, Zenon DEF Types
  <1>9. CASE WgQuick(u, Wanted(i)) /\ call' = [call EXCEPT ![i] = [call[i] EXCEPT !.step = "record"]] /\ calm' = calm
    BY <1>4, <1>6, <1>8, <1>9, Zenon
  <1>10. CASE UNCHANGED interfaces /\ call' = [call EXCEPT ![i] = [call[i] EXCEPT !.step = "failed"]] /\ calm' = calm
    BY <1>6, <1>8, <1>10, Zenon
  <1>11. CASE WgQuick(u, "DOWN") /\ call' = [call EXCEPT ![i] = [call[i] EXCEPT !.step = "failed"]] /\ calm' = FALSE
    BY <1>4, <1>6, <1>8, <1>11, Zenon
  <1>12. CASE WgQuick(u, Wanted(i)) /\ Throw(i) /\ calm' = FALSE
    BY <1>4, <1>7, <1>12, Zenon
  <1>13. CASE UNCHANGED interfaces /\ Throw(i) /\ calm' = FALSE
    BY <1>7, <1>8, <1>13, Zenon
  <1> QED
    BY <1>9, <1>10, <1>11, <1>12, <1>13, Zenon DEF Run

\* The file is deleted and the failure reported (Failed).
LEMMA FailedStep ==
  ASSUME QuickInv, NEW i \in Calls, Failed(i)
  PROVE  QuickInv'
  <1>1. Types /\ LocalOK(i) /\ Active(i) /\ call[i].step = "failed" /\ call[i].cur \in Candidates(i)
    BY Zenon DEF QuickInv, Failed, LocalOK
  <1>2. call[i].cur \in Tunnels
    BY <1>1, CandidatesType, Zenon
  <1>3. temp' \in Contents
    BY <1>1, <1>2, Zenon DEF Failed, DeleteTemp, Types, Contents
  <1> QED
    BY <1>1, <1>3, ThrowStep, Zenon DEF Failed, Types


\* Between calls no command is running (setState waits for Quiet).
LEMMA QuietStep ==
  ASSUME QuickInv, Quiet
  PROVE  /\ \A j \in Calls : call[j].step = "pick"
         /\ calm => interfaces = runningConfigs
  BY Zenon DEF QuickInv, Quiet, LocalOK, Active, KernelOK

\* The beginning of setState: the state of the tunnel is read, and what it will
\* go by is copied from the map.
LEMMA SetStateStep ==
  ASSUME QuickInv, Serialised, NEW i \in Calls, NEW t \in Tunnels, NEW s \in {"UP", "DOWN", "TOGGLE"},
         NEW c \in Configs \cup {None}, setState(i, t, s, c)
  PROVE  QuickInv'
  <1>1. PICK names \in getRunningTunnelNames :
          LET up == t \in names
              target == Target(s, up)
          IN calm' = (calm /\ names = Up(interfaces)) /\ call' = [call EXCEPT ![i] =
                [Idle EXCEPT !.tunnel = t, !.state = target, !.config = c, !.up = up,
                             !.originalConfig = runningConfigs[t],
                             !.snapshot = runningConfigs,
                             !.todo = ToLower(target, up),
                             !.phase = CASE AlreadyDone(t, target, c, up) -> "returned"
                                         [] ~AlreadyDone(t, target, c, up) /\ target = "DOWN" -> "down"
                                         [] ~AlreadyDone(t, target, c, up) /\ target = "UP" /\ up -> "self"
                                         [] target = "UP" /\ ~up -> Loop("lower", ToLower(target, up), "raise")]]
    BY Zenon DEF setState
  <1> DEFINE up == t \in names
             target == Target(s, up)
             done == AlreadyDone(t, target, c, up)
             todo == ToLower(target, up)
             phase == CASE done -> "returned"
                        [] ~done /\ target = "DOWN" -> "down"
                        [] ~done /\ target = "UP" /\ up -> "self"
                        [] target = "UP" /\ ~up -> Loop("lower", todo, "raise")
             rec == [Idle EXCEPT !.tunnel = t, !.state = target, !.config = c, !.up = up,
                                 !.originalConfig = runningConfigs[t], !.snapshot = runningConfigs,
                                 !.todo = todo, !.phase = phase]
  <1>2. /\ Types /\ Alone /\ Quiet /\ UNCHANGED <<interfaces, temp, runningConfigs, multipleTunnels, told>>
        /\ call \in [Calls -> CallType] /\ runningConfigs \in Contents
    BY Zenon DEF QuickInv, setState, Types
  <1>3. call' = [call EXCEPT ![i] = rec] /\ calm' = (calm /\ names = Up(interfaces))
    BY <1>1, Zenon
  <1>4. target \in {"UP", "DOWN"} /\ up \in BOOLEAN /\ todo \in SUBSET Tunnels
    BY UpType DEF Target, ToLower
  <1>5. /\ done => (target = "UP" => up) /\ (target = "DOWN" => ~up)
        /\ todo = IF target = "UP" /\ ~up /\ ~multipleTunnels THEN Up(runningConfigs) ELSE {}
    BY Zenon DEF AlreadyDone, ToLower, Target
  <1>6. up => interfaces[t] # None
    BY Zenon DEF getRunningTunnelNames, Up
  <1>7. names = Up(interfaces) => (up <=> interfaces[t] # None)
    BY Zenon DEF Up
  <1> HIDE DEF up, target, done, todo
  <1>8. /\ phase \in {"returned", "down", "self", "lower", "raise"}
        /\ phase = "returned" => done
        /\ phase = "down" => target = "DOWN"
        /\ phase = "self" => target = "UP" /\ up
        /\ phase = "lower" => target = "UP" /\ ~up /\ todo # {}
        /\ phase = "raise" => target = "UP" /\ ~up /\ todo = {}
    <2>1. CASE done
      BY <1>4, <1>5, <2>1, Zenon DEF Loop
    <2>2. CASE ~done
      BY <1>4, <2>2, Zenon DEF Loop
    <2> QED
      BY <2>1, <2>2, Zenon
  <1> HIDE DEF phase
  <1>9. rec \in CallType
    BY <1>2, <1>4, <1>8, IdleType, Zenon DEF CallType, Phases, Loops, Contents
  <1>10. /\ rec.tunnel = t /\ rec.state = target /\ rec.config = c /\ rec.up = up
         /\ rec.originalConfig = runningConfigs[t] /\ rec.snapshot = runningConfigs
         /\ rec.todo = todo /\ rec.phase = phase /\ rec.rewind = {} /\ rec.step = "pick" /\ rec.broken = FALSE
    BY IdleType, Zenon DEF CallType, Idle
  <1> HIDE DEF rec
  <1>11. call'[i] = rec /\ call' \in [Calls -> CallType] /\ \A j \in Calls \ {i} : call'[j] = call[j]
    BY <1>2, <1>3, <1>9, Zenon
  <1>12. \A j \in Calls \ {i} : call'[j].phase = "idle" /\ call'[j].step = "pick"
    BY <1>2, <1>11, QuietStep, Zenon DEF Quiet
  <1>13. Types' /\ Alone'
    <2>1. Alone'
      BY <1>2, <1>11, AloneStep, Zenon
    <2>2. calm' \in BOOLEAN
      BY <1>3, Zenon
    <2> QED
      BY <1>2, <1>11, <2>1, <2>2, Zenon DEF Types
  <1>14. LocalOK(i)'
    BY <1>2, <1>5, <1>6, <1>8, <1>10, <1>11, Zenon DEF LocalOK
  <1>15. ASSUME calm' PROVE KernelOK' /\ MapOK(i)'
    <2>1. calm /\ names = Up(interfaces) /\ interfaces = runningConfigs
      BY <1>2, <1>3, <1>15, QuietStep, Zenon
    <2>2. KernelOK'
      <3>1. \A j \in Calls : call'[j].step = "pick"
        BY <1>10, <1>11, <1>12, Zenon
      <3> QED
        BY <1>2, <2>1, <3>1, Zenon DEF KernelOK, QuickInv
    <2>3. up <=> runningConfigs[t] # None
      BY <1>7, <2>1, Zenon
    <2>4. runningConfigs = Without(runningConfigs, {}) /\ (Up(runningConfigs) = {} => runningConfigs = Empty)
      BY <1>2, Zenon DEF Without, Up, Empty, Contents
    <2>5. phase = "lower" => ~multipleTunnels /\ todo = Up(runningConfigs) \ {}
      BY <1>5, <1>8, Zenon
    <2>6. phase = "raise" => ~up /\ (~multipleTunnels => runningConfigs = Empty)
      BY <1>5, <1>8, <2>4, Zenon
    <2>7. phase = "returned" /\ target = "UP" => up
      BY <1>5, <1>8, Zenon
    <2>8. MapOK(i)'
      BY <1>2, <1>8, <1>10, <1>11, <2>3, <2>4, <2>5, <2>6, <2>7, Zenon DEF MapOK
    <2> QED
      BY <2>2, <2>8, Zenon
  <1>16. \A j \in Calls : LocalOK(j)' /\ (calm' => MapOK(j)')
    BY <1>12, <1>14, <1>15, IdleOK, Zenon
  <1> QED
    BY <1>13, <1>15, <1>16, Zenon DEF QuickInv

\* The caller of setState goes on (Finish).
LEMMA FinishStep ==
  ASSUME QuickInv, NEW i \in Calls, Finish(i)
  PROVE  QuickInv'
  <1>1. /\ Types /\ Alone /\ call[i].phase \in {"returned", "thrown"} /\ call[i].step = "pick"
        /\ UNCHANGED <<interfaces, temp, runningConfigs, multipleTunnels, told, calm>>
        /\ call \in [Calls -> CallType] /\ call' = [call EXCEPT ![i] = Idle]
    BY Zenon DEF QuickInv, Types, Finish, LocalOK, Active
  <1>2. call' \in [Calls -> CallType] /\ call'[i] = Idle /\ \A j \in Calls \ {i} : call'[j] = call[j]
    BY <1>1, IdleType, Zenon
  <1>3. \A j \in Calls : call'[j].phase = "idle" /\ call'[j].step = "pick"
    BY <1>1, <1>2, OthersIdle, IdleType, Zenon
  <1>4. Types' /\ Alone'
    BY <1>1, <1>2, <1>3, Zenon DEF Types, Alone
  <1>5. calm => KernelOK'
    <2>1. calm => interfaces = runningConfigs
      BY <1>1, AtRest, Zenon
    <2> QED
      BY <1>1, <1>3, <2>1, Zenon DEF KernelOK, QuickInv
  <1> QED
    BY <1>1, <1>3, <1>4, <1>5, IdleOK, Zenon DEF QuickInv


\* The preference changes between calls, the process restarts, or nothing happens.
LEMMA OtherStep ==
  ASSUME QuickInv, Serialised,
         (\E on \in BOOLEAN : setMultipleTunnels(on)) \/ Restart \/ UNCHANGED vars
  PROVE  QuickInv'
  <1>1. CASE \E on \in BOOLEAN : setMultipleTunnels(on)
    <2>1. /\ Quiet /\ multipleTunnels' \in BOOLEAN
          /\ UNCHANGED <<interfaces, temp, runningConfigs, told, call, calm>>
      BY <1>1, Zenon DEF setMultipleTunnels
    <2>2. \A j \in Calls : call'[j].phase = "idle" /\ call'[j].step = "pick"
      BY <2>1, QuietStep, Zenon DEF Quiet
    <2>3. Types' /\ Alone' /\ (calm' => KernelOK')
      BY <2>1, Zenon DEF QuickInv, Types, Alone, KernelOK, Wanted, ConfigOf
    <2> QED
      BY <2>2, <2>3, IdleOK, Zenon DEF QuickInv
  <1>2. CASE Restart
    <2>1. \A j \in Calls : call'[j].phase = "idle" /\ call'[j].step = "pick"
      BY <1>2, IdleType, Zenon DEF Restart
    <2>2. call' \in [Calls -> CallType] /\ runningConfigs' \in Contents /\ told' \in [Tunnels -> {"UP", "DOWN"}]
      BY <1>2, IdleType, Zenon DEF Restart, Contents, Empty
    <2>3. Types' /\ Alone' /\ calm' = FALSE
      BY <1>2, <2>1, <2>2, Zenon DEF QuickInv, Types, Alone, Restart
    <2> QED
      BY <2>1, <2>3, IdleOK, Zenon DEF QuickInv
  <1>3. CASE UNCHANGED vars
    <2>1. UNCHANGED <<interfaces, temp, runningConfigs, multipleTunnels, told, call, calm>>
      BY <1>3, Zenon DEF vars
    <2>2. Types' /\ Alone'
      BY <2>1, Zenon DEF QuickInv, Types, Alone
    <2>3. ASSUME NEW i \in Calls PROVE LocalOK(i)' /\ (calm' => MapOK(i)')
      <3>1. /\ Candidates(i)' = Candidates(i) /\ Wanted(i)' = Wanted(i) /\ Active(i)' = Active(i)
            /\ ConfigOf(i, call[i].cur)' = ConfigOf(i, call[i].cur)
        BY <2>1, Zenon DEF Candidates, Wanted, Active, ConfigOf
      <3>2. LocalOK(i) /\ (calm => MapOK(i))
        BY Zenon DEF QuickInv
      <3>3. LocalOK(i)'
        BY <2>1, <3>1, <3>2, Zenon DEF LocalOK
      <3>4. calm' => MapOK(i)'
        BY <2>1, <3>2, Zenon DEF MapOK
      <3> QED
        BY <3>3, <3>4, Zenon
    <2>4. calm' => KernelOK'
      BY <2>1, Zenon DEF QuickInv, KernelOK, Wanted, ConfigOf
    <2> QED
      BY <2>2, <2>3, <2>4, Zenon DEF QuickInv
  <1> QED
    BY <1>1, <1>2, <1>3, Zenon

\* The backend starts with nothing running and an empty map (Init).
LEMMA QuickInit == Init => QuickInv
  <1> SUFFICES ASSUME Init PROVE QuickInv
    BY Zenon
  <1>1. \A j \in Calls : call[j] = Idle /\ call[j].phase = "idle" /\ call[j].step = "pick"
    BY IdleType, Zenon DEF Init
  <1>2. Types
    BY IdleType, Zenon DEF Init, Types, Contents, Empty
  <1>3. Alone /\ \A j \in Calls : LocalOK(j) /\ MapOK(j)
    BY <1>1, Zenon DEF Alone, LocalOK, MapOK, Active
  <1>4. KernelOK
    BY <1>1, Zenon DEF Init, KernelOK, Empty
  <1> QED
    BY <1>2, <1>3, <1>4, Zenon DEF QuickInv

-----------------------------------------------------------------------------
(* Theorems *)

\* What each phase of setState has done to the map is known throughout, when
\* calls do not overlap: the strengthening that the properties rest on.
THEOREM QuickInvariant ==
  ASSUME Serialised
  PROVE  Spec => []QuickInv
  <1>1. QuickInv /\ [Next]_vars => QuickInv'
    <2> SUFFICES ASSUME QuickInv, [Next]_vars PROVE QuickInv'
      BY Zenon
    <2>1. ASSUME NEW i \in Calls, NEW t \in Tunnels, NEW s \in {"UP", "DOWN", "TOGGLE"},
                 NEW c \in Configs \cup {None}, setState(i, t, s, c)
          PROVE  QuickInv'
      BY <2>1, SetStateStep, Zenon
    <2>2. ASSUME NEW i \in Calls, WriteTemp(i) \/ Run(i) \/ Failed(i) \/ Record(i) \/ Finish(i)
          PROVE  QuickInv'
      BY <2>2, WriteTempStep, RunStep, FailedStep, RecordStep, FinishStep, Zenon
    <2>3. CASE (\E on \in BOOLEAN : setMultipleTunnels(on)) \/ Restart \/ UNCHANGED vars
      BY <2>3, OtherStep, Zenon
    <2> QED
      BY <2>1, <2>2, <2>3, Zenon DEF Next
  <1> QED
    BY <1>1, QuickInit, PTL DEF Spec

\* For every set of tunnels and configurations: between calls of setState that
\* do not overlap, and until a restart or a lost shell, the map holds exactly
\* the interfaces that are up, and every tunnel was told its state.
THEOREM MapCorrect ==
  ASSUME Serialised
  PROVE  Spec => []MapExact
  <1>1. QuickInv => MapExact
    <2> SUFFICES ASSUME QuickInv, calm, Quiet
                 PROVE  runningConfigs = interfaces /\ \A t \in Tunnels : told[t] = "UP" <=> interfaces[t] # None
      BY Zenon DEF MapExact
    <2>1. interfaces = runningConfigs
      BY QuietStep, Zenon
    <2> QED
      BY <2>1, Zenon DEF QuickInv, KernelOK
  <1> QED
    BY <1>1, QuickInvariant, PTL

\* A call of setState that throws, and whose undoing did not, leaves every
\* interface with the configuration it had, however many tunnels it had
\* lowered before it failed.
THEOREM FailureCorrect ==
  ASSUME Serialised
  PROVE  Spec => []FailureRestores
  <1>1. QuickInv => FailureRestores
    <2> SUFFICES ASSUME QuickInv, calm, NEW i \in Calls, call[i].phase = "thrown", ~call[i].broken
                 PROVE  interfaces = call[i].snapshot
      BY Zenon DEF FailureRestores
    <2>1. call[i].step # "record"
      BY Zenon DEF QuickInv, LocalOK, Active
    <2>2. interfaces = runningConfigs
      BY <2>1, AtRest, Zenon
    <2> QED
      BY <2>2, Zenon DEF QuickInv, MapOK
  <1> QED
    BY <1>1, QuickInvariant, PTL

\* Whatever restarts and lost shells there were: a tunnel for which setState
\* has returned UP has its interface.
THEOREM RaisedCorrect ==
  ASSUME Serialised
  PROVE  Spec => []RaisedRuns
  <1>1. QuickInv => RaisedRuns
    BY Zenon DEF QuickInv, LocalOK, RaisedRuns
  <1> QED
    BY <1>1, QuickInvariant, PTL

\* Until a restart or a lost shell: when multiple tunnels are off, raising a
\* tunnel that was down leaves no other up, however many were up before.
THEOREM LowersCorrect ==
  ASSUME Serialised
  PROVE  Spec => []LowersOthers
  <1>1. QuickInv => LowersOthers
    <2> SUFFICES ASSUME QuickInv, calm, ~multipleTunnels, NEW i \in Calls,
                        call[i].phase = "returned", call[i].state = "UP", ~call[i].up
                 PROVE  Cardinality(Up(interfaces)) <= 1
      BY Zenon DEF LowersOthers, TurnsOffOthers
    <2>1. call[i].step # "record" /\ call[i].tunnel \in Tunnels
      BY Zenon DEF QuickInv, LocalOK, Active
    <2>2. interfaces = runningConfigs
      BY <2>1, AtRest, Zenon
    <2>3. Up(interfaces) \subseteq {call[i].tunnel}
      BY <2>2, Zenon DEF QuickInv, MapOK
    <2>4. IsFiniteSet({call[i].tunnel}) /\ Cardinality({call[i].tunnel}) = 1
      BY FS_Singleton, Zenon
    <2> HIDE DEF Up
    <2>5. Cardinality(Up(interfaces)) <= Cardinality({call[i].tunnel})
      BY <2>3, <2>4, FS_Subset, Zenon
    <2> QED
      BY <2>4, <2>5, Zenon
  <1> QED
    BY <1>1, QuickInvariant, PTL

=============================================================================
