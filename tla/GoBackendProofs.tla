--------------------------- MODULE GoBackendProofs ---------------------------
(***************************************************************************)
(* Proofs about GoBackend, for any sets of tunnels, configurations and     *)
(* callers, any handle space and any number of DNS attempts.               *)
(***************************************************************************)
EXTENDS GoBackend, TLAPS

Lowering == {"down", "turnOff", "stopSelf", "downReport"}
Raising == {"prepare", "get", "await", "own", "resolve", "establish", "turnOn",
            "insert", "assign", "upReport", "throw"}
Prepared == Raising \ {"prepare", "throw"}

\* What a caller's local variables mean at each step.
LocalsOK(p) ==
    /\ pc[p] \in Lowering => phase[p] \in {"stop", "clear"}
    /\ pc[p] \in Raising => phase[p] \in {"up", "restore"}
    /\ phase[p] \in {"clear", "restore"} => orig[p].tunnel # None
    /\ orig[p].tunnel # None => orig[p] \in Running
    /\ pc[p] # "idle" => want[p].tunnel # None
    /\ pc[p] \in Prepared => Arg(p) \in Running
    /\ pc[p] = "insert" => slot[p] \in Handles

FieldsOK == currentTunnel = None <=> currentConfig = None

\* The inductive invariant of every run, overlapping or not.
LocalInv == TypeOK /\ FieldsOK /\ \A p \in Callers : LocalsOK(p)

\* The value sets, as far as the proofs look into them.
LEMMA Values ==
    /\ Nothing \in Request /\ Nothing \notin Running /\ Nothing.tunnel = None
    /\ Running \subseteq Request
    /\ \A r \in Request : r \in Running <=> r.tunnel # None /\ r.config # None
    /\ \A r \in Running : r.tunnel \in Tunnels /\ r.config \in Configs
    /\ \A r \in Request : r.tunnel \in Tunnels \cup {None} /\ r.config \in Configs \cup {None}
    /\ \A t \in Tunnels \cup {None}, c \in Configs \cup {None} :
          /\ [tunnel |-> t, config |-> c] \in Request
          /\ [tunnel |-> t, config |-> c].tunnel = t
          /\ [tunnel |-> t, config |-> c].config = c
    /\ -1 \notin Handles
    /\ \A h \in Handles : h \in Int /\ h >= 0
    /\ 0 \in 0..(DnsRetries - 1)
    /\ None \notin Tunnels /\ None \notin Configs
  BY GoBackendAssumption DEF Request, Running, Nothing, Handles

\* The field currentTunnelHandle is a handle or -1: the test for < 0 in
\* setStateInternal tells these apart.
LEMMA HandleSign ==
    \A h \in Handles \cup {-1} : (h < 0 => h = -1) /\ (h >= 0 => ~(h < 0))
  BY GoBackendAssumption DEF Handles

\* A fresh GoBackend, with no call in progress, satisfies the invariant.
LEMMA LocalInit == Init => LocalInv
  <1> SUFFICES ASSUME Init PROVE LocalInv
    BY Zenon
  <1> USE Values DEF Init
  <1>1. TypeOK
    BY Zenon DEF TypeOK, Labels, Phases
  <1>2. FieldsOK
    BY Zenon DEF FieldsOK
  <1>3. \A p \in Callers : LocalsOK(p)
    BY Zenon DEF LocalsOK, Arg, Lowering, Raising, Prepared
  <1> QED
    BY <1>1, <1>2, <1>3, Zenon DEF LocalInv

\* The types of the service record and of the main thread.
SystemOK ==
    /\ svc \in {"absent", "live", "stopping"}
    /\ started \in BOOLEAN /\ bound \in BOOLEAN
    /\ owner \in BOOLEAN /\ futureDone \in BOOLEAN
    /\ mainPc \in {"idle", "off", "clear", "report", "renew"}
    /\ victim \in Tunnels \cup {None}

\* Every step of a caller, of the main thread and of the system keeps the
\* types; the DNS counter stays below DNS_RESOLUTION_RETRIES.
LEMMA TypeNext == LocalInv /\ [Next]_vars => TypeOK'
  <1> SUFFICES ASSUME LocalInv, [Next]_vars PROVE TypeOK'
    BY Zenon
  <1> USE DEF LocalInv, TypeOK, Goto, fields, devices, locals, system, main
  <1>1. ASSUME NEW p \in Callers, NEW t \in Tunnels,
               NEW state \in {"UP", "DOWN", "TOGGLE"}, NEW c \in Configs \cup {None},
               SetState(p, t, state, c)
        PROVE  TypeOK'
    <2>1. pc' \in [Callers -> Labels]
      BY <1>1 DEF SetState, Labels
    <2>2. phase' \in [Callers -> Phases]
      BY <1>1, Zenon DEF SetState, Phases
    <2>3. currentTunnel' \in Tunnels \cup {None} /\ currentConfig' \in Configs \cup {None}
      BY Values, <1>1, Zenon DEF SetState
    <2>4. tries' \in [Callers -> 0..(DnsRetries - 1)]
      BY Values, <1>1, Zenon DEF SetState
    <2>5. want' \in [Callers -> Request] /\ orig' \in [Callers -> Request]
      <3>1. [tunnel |-> t, config |-> c] \in Request
        BY Values, Zenon
      <3>2. [tunnel |-> currentTunnel, config |-> currentConfig] \in Request
        BY Values, Zenon
      <3> QED
        BY <1>1, <3>1, <3>2 DEF SetState
    <2>6. service' \in [Callers -> {"none", "current", "gone"}] /\ slot' \in [Callers -> Handles \cup {-1}]
      BY <1>1, Zenon DEF SetState
    <2>7. reported' \in [Tunnels -> {"UP", "DOWN"}]
      BY <1>1, Zenon DEF SetState
    <2> QED
      BY <1>1, <2>1, <2>2, <2>3, <2>4, <2>5, <2>6, <2>7 DEF SetState
  <1>2. ASSUME NEW p \in Callers, Return(p) PROVE TypeOK'
    BY Values, <1>2 DEF Return, Forget, Labels, Phases
  <1>3. ASSUME NEW p \in Callers, Throw(p) PROVE TypeOK'
    <2>1. pc' \in [Callers -> Labels]
      BY <1>3 DEF Throw, Forget, Labels
    <2>2. phase' \in [Callers -> Phases]
      BY <1>3 DEF Throw, Forget, Phases
    <2>3. currentTunnel' \in Tunnels \cup {None} /\ currentConfig' \in Configs \cup {None}
      BY Values, <1>3, Zenon DEF Throw, Forget
    <2>4. tries' \in [Callers -> 0..(DnsRetries - 1)]
      BY Values, <1>3 DEF Throw, Forget
    <2>5. want' \in [Callers -> Request] /\ orig' \in [Callers -> Request]
      <3>1. \/ want' = want /\ orig' = orig
            \/ want' = [want EXCEPT ![p] = Nothing] /\ orig' = [orig EXCEPT ![p] = Nothing]
        BY <1>3, Zenon DEF Throw, Forget
      <3> QED
        BY Values, <3>1
    <2>6. service' \in [Callers -> {"none", "current", "gone"}] /\ slot' \in [Callers -> Handles \cup {-1}]
      BY <1>3, Zenon DEF Throw, Forget
    <2>7. reported' \in [Tunnels -> {"UP", "DOWN"}]
      BY <1>3, Zenon DEF Throw, Forget
    <2> QED
      BY <1>3, <2>1, <2>2, <2>3, <2>4, <2>5, <2>6, <2>7, Zenon DEF Throw, Forget
  <1>4. ASSUME NEW p \in Callers, Down(p) PROVE TypeOK'
    <2>1. pc' \in [Callers -> Labels]
      BY <1>4, Zenon DEF Down, Continue, Labels
    <2>2. phase' \in [Callers -> Phases]
      BY <1>4 DEF Down, Continue, Phases
    <2>3. currentTunnel' \in Tunnels \cup {None} /\ currentConfig' \in Configs \cup {None}
      BY Values, <1>4 DEF Down, Continue
    <2>4. tries' \in [Callers -> 0..(DnsRetries - 1)]
      BY Values, <1>4, Zenon DEF Down, Continue
    <2>5. want' \in [Callers -> Request] /\ orig' \in [Callers -> Request]
      BY Values, <1>4, Zenon DEF Down, Continue
    <2>6. service' \in [Callers -> {"none", "current", "gone"}] /\ slot' \in [Callers -> Handles \cup {-1}]
      BY <1>4, Zenon DEF Down, Continue
    <2>7. reported' \in [Tunnels -> {"UP", "DOWN"}]
      BY <1>4, Zenon DEF Down, Continue
    <2> QED
      BY <1>4, <2>1, <2>2, <2>3, <2>4, <2>5, <2>6, <2>7 DEF Down, Continue
  <1>5. ASSUME NEW p \in Callers, TurnOff(p) PROVE TypeOK'
    BY Values, <1>5 DEF TurnOff, wgTurnOff, Labels, Phases
  <1>6. ASSUME NEW p \in Callers, StopSelf(p) PROVE TypeOK'
    BY <1>6 DEF StopSelf, Labels, Phases
  <1>7. ASSUME NEW p \in Callers, DownReport(p) PROVE TypeOK'
    <2>1. pc' \in [Callers -> Labels]
      BY <1>7, Zenon DEF DownReport, Continue, Labels
    <2>2. phase' \in [Callers -> Phases]
      BY <1>7, Zenon DEF DownReport, Continue, Phases
    <2>3. currentTunnel' \in Tunnels \cup {None} /\ currentConfig' \in Configs \cup {None}
      BY <1>7, Zenon DEF DownReport, Continue
    <2>4. tries' \in [Callers -> 0..(DnsRetries - 1)]
      BY <1>7, Zenon DEF DownReport, Continue
    <2>5. want' \in [Callers -> Request] /\ orig' \in [Callers -> Request]
      BY <1>7, Zenon DEF DownReport, Continue
    <2>6. service' \in [Callers -> {"none", "current", "gone"}] /\ slot' \in [Callers -> Handles \cup {-1}]
      BY <1>7, Zenon DEF DownReport, Continue
    <2>7. reported' \in [Tunnels -> {"UP", "DOWN"}]
      BY <1>7, Zenon DEF DownReport, Continue
    <2> QED
      BY <1>7, <2>1, <2>2, <2>3, <2>4, <2>5, <2>6, <2>7, Zenon DEF DownReport, Continue
  <1>8. ASSUME NEW p \in Callers, PrepareFails(p) PROVE TypeOK'
    BY <1>8 DEF PrepareFails, Labels, Phases
  <1>9. ASSUME NEW p \in Callers, Prepare(p) PROVE TypeOK'
    BY <1>9 DEF Prepare, Labels, Phases
  <1>10. ASSUME NEW p \in Callers, Get(p) PROVE TypeOK'
    BY <1>10 DEF Get, Labels, Phases
  <1>11. ASSUME NEW p \in Callers, Await(p) PROVE TypeOK'
    BY <1>11 DEF Await, Labels, Phases
  <1>12. ASSUME NEW p \in Callers, AwaitTimeout(p) PROVE TypeOK'
    BY <1>12 DEF AwaitTimeout, Labels, Phases
  <1>13. ASSUME NEW p \in Callers, Own(p) PROVE TypeOK'
    <2>1. pc' \in [Callers -> Labels]
      BY <1>13 DEF Own, Continue, Labels
    <2>2. phase' \in [Callers -> Phases]
      BY <1>13 DEF Own, Continue, Phases
    <2>3. currentTunnel' \in Tunnels \cup {None} /\ currentConfig' \in Configs \cup {None}
      BY <1>13, Zenon DEF Own, Continue
    <2>4. tries' \in [Callers -> 0..(DnsRetries - 1)]
      BY <1>13, Zenon DEF Own, Continue
    <2>5. want' \in [Callers -> Request] /\ orig' \in [Callers -> Request]
      BY <1>13, Zenon DEF Own, Continue
    <2>6. service' \in [Callers -> {"none", "current", "gone"}] /\ slot' \in [Callers -> Handles \cup {-1}]
      BY <1>13, Zenon DEF Own, Continue
    <2>7. reported' \in [Tunnels -> {"UP", "DOWN"}]
      BY <1>13, Zenon DEF Own, Continue
    <2> QED
      BY <1>13, <2>1, <2>2, <2>3, <2>4, <2>5, <2>6, <2>7, Zenon DEF Own, Continue
  <1>14. ASSUME NEW p \in Callers, Resolve(p) PROVE TypeOK'
    BY <1>14 DEF Resolve, Labels, Phases
  <1>15. ASSUME NEW p \in Callers, ResolveFails(p) PROVE TypeOK'
    <2>1. pc' \in [Callers -> Labels]
      BY <1>15, Zenon DEF ResolveFails, Labels
    <2>2. phase' \in [Callers -> Phases]
      BY <1>15, Zenon DEF ResolveFails, Phases
    <2>3. currentTunnel' \in Tunnels \cup {None} /\ currentConfig' \in Configs \cup {None}
      BY <1>15, Zenon DEF ResolveFails
    <2>4. tries' \in [Callers -> 0..(DnsRetries - 1)]
      BY GoBackendAssumption, <1>15 DEF ResolveFails
    <2>5. want' \in [Callers -> Request] /\ orig' \in [Callers -> Request]
      BY <1>15, Zenon DEF ResolveFails
    <2>6. service' \in [Callers -> {"none", "current", "gone"}] /\ slot' \in [Callers -> Handles \cup {-1}]
      BY <1>15, Zenon DEF ResolveFails
    <2>7. reported' \in [Tunnels -> {"UP", "DOWN"}]
      BY <1>15, Zenon DEF ResolveFails
    <2> QED
      BY <1>15, <2>1, <2>2, <2>3, <2>4, <2>5, <2>6, <2>7, Zenon DEF ResolveFails
  <1>16. ASSUME NEW p \in Callers, EstablishFails(p) PROVE TypeOK'
    BY <1>16 DEF EstablishFails, Labels, Phases
  <1>17. ASSUME NEW p \in Callers, Establish(p) PROVE TypeOK'
    BY <1>17 DEF Establish, Labels, Phases
  <1>18. ASSUME NEW p \in Callers, TurnOnFails(p) PROVE TypeOK'
    BY Values, <1>18 DEF TurnOnFails, Labels, Phases
  <1>19. ASSUME NEW p \in Callers, TurnOn(p) PROVE TypeOK'
    BY <1>19 DEF TurnOn, Labels, Phases
  <1>20. ASSUME NEW p \in Callers, Insert(p) PROVE TypeOK'
    <2>1. Arg(p) \in Running /\ slot[p] \in Handles
      BY <1>20, Zenon DEF Insert, LocalsOK, Prepared, Raising
    <2>2. tunnelHandles' \in [Handles -> Running \cup {Nothing}] /\ lost' \subseteq Running
      BY <1>20, <2>1, Zenon DEF Insert
    <2> QED
      BY <1>20, <2>1, <2>2 DEF Insert, Labels
  <1>21. ASSUME NEW p \in Callers, Assign(p) PROVE TypeOK'
    <2>1. pc' \in [Callers -> Labels]
      BY <1>21 DEF Assign, Labels
    <2>2. phase' \in [Callers -> Phases]
      BY <1>21, Zenon DEF Assign, Phases
    <2>3. currentTunnel' \in Tunnels \cup {None} /\ currentConfig' \in Configs \cup {None}
      BY Values, <1>21 DEF Assign, LocalsOK, Prepared, Raising
    <2>4. tries' \in [Callers -> 0..(DnsRetries - 1)]
      BY Values, <1>21, Zenon DEF Assign
    <2>5. want' \in [Callers -> Request] /\ orig' \in [Callers -> Request]
      BY Values, <1>21, Zenon DEF Assign
    <2>6. service' \in [Callers -> {"none", "current", "gone"}] /\ slot' \in [Callers -> Handles \cup {-1}]
      BY <1>21, Zenon DEF Assign
    <2>7. reported' \in [Tunnels -> {"UP", "DOWN"}]
      BY <1>21, Zenon DEF Assign
    <2> QED
      BY <1>21, <2>1, <2>2, <2>3, <2>4, <2>5, <2>6, <2>7, Zenon DEF Assign
  <1>22. ASSUME NEW p \in Callers, UpReport(p) PROVE TypeOK'
    <2>1. pc' \in [Callers -> Labels]
      BY <1>22, Zenon DEF UpReport, Continue, Labels
    <2>2. phase' \in [Callers -> Phases]
      BY <1>22 DEF UpReport, Continue, Phases
    <2>3. currentTunnel' \in Tunnels \cup {None} /\ currentConfig' \in Configs \cup {None}
      BY <1>22, Zenon DEF UpReport, Continue
    <2>4. tries' \in [Callers -> 0..(DnsRetries - 1)]
      BY <1>22, Zenon DEF UpReport, Continue
    <2>5. want' \in [Callers -> Request] /\ orig' \in [Callers -> Request]
      BY <1>22, Zenon DEF UpReport, Continue
    <2>6. service' \in [Callers -> {"none", "current", "gone"}] /\ slot' \in [Callers -> Handles \cup {-1}]
      BY <1>22, Zenon DEF UpReport, Continue
    <2>7. reported' \in [Tunnels -> {"UP", "DOWN"}]
      BY <1>22, Zenon DEF UpReport, Continue
    <2> QED
      BY <1>22, <2>1, <2>2, <2>3, <2>4, <2>5, <2>6, <2>7, Zenon DEF UpReport, Continue
  <1>23. ASSUME UNCHANGED <<fields, devices, reported, pc, phase, want, orig, tries, slot>>,
                service' \in [Callers -> {"none", "current", "gone"}],
                SystemOK'
         PROVE  TypeOK'
    BY <1>23, Zenon DEF SystemOK
  <1>24. ASSUME SystemStart \/ Revoke \/ Unbind \/ BringDown \/ OnDestroy \/ UNCHANGED vars
         PROVE  TypeOK'
    <2>1. SystemOK'
      BY <1>24, Zenon DEF SystemOK, SystemStart, Revoke, Unbind, BringDown, OnDestroy, vars
    <2>2. UNCHANGED <<fields, devices, reported, pc, locals>>
      BY <1>24, Zenon DEF SystemStart, Revoke, Unbind, BringDown, OnDestroy, vars
    <2> QED
      BY <1>23, <2>1, <2>2, Zenon
  <1>25. ASSUME OnCreate PROVE TypeOK'
    <2>1. SystemOK'
      BY <1>25, Zenon DEF SystemOK, OnCreate
    <2>2. service' \in [Callers -> {"none", "current", "gone"}]
      BY <1>25, Zenon DEF OnCreate
    <2> QED
      BY <1>23, <1>25, <2>1, <2>2, Zenon DEF OnCreate
  <1>26. ASSUME DestroyTurnOff PROVE TypeOK'
    <2>1. SystemOK'
      BY <1>26, Zenon DEF SystemOK, DestroyTurnOff
    <2>2. tunnelHandles' \in [Handles -> Running \cup {Nothing}]
      BY <1>26, Zenon DEF DestroyTurnOff, wgTurnOff
    <2> QED
      BY <1>26, <2>1, <2>2, Zenon DEF DestroyTurnOff, SystemOK
  <1>27. ASSUME DestroyClear PROVE TypeOK'
    <2>1. SystemOK'
      BY <1>27, Zenon DEF SystemOK, DestroyClear
    <2> QED
      BY <1>27, <2>1, Zenon DEF DestroyClear, SystemOK
  <1>28. ASSUME DestroyReport PROVE TypeOK'
    <2>1. SystemOK'
      BY <1>28, Zenon DEF SystemOK, DestroyReport
    <2>2. reported' \in [Tunnels -> {"UP", "DOWN"}]
      BY <1>28, Zenon DEF DestroyReport
    <2> QED
      BY <1>28, <2>1, <2>2, Zenon DEF DestroyReport, SystemOK
  <1>29. ASSUME DestroyRenew PROVE TypeOK'
    <2>1. SystemOK'
      BY <1>29, Zenon DEF SystemOK, DestroyRenew
    <2>2. service' \in [Callers -> {"none", "current", "gone"}]
      BY <1>29, Zenon DEF DestroyRenew
    <2> QED
      BY <1>23, <1>29, <2>1, <2>2, Zenon DEF DestroyRenew
  <1> HIDE DEF LocalInv, TypeOK, FieldsOK, LocalsOK
  <1> QED
    BY <1>1, <1>2, <1>3, <1>4, <1>5, <1>6, <1>7, <1>8, <1>9, <1>10, <1>11, <1>12, <1>13,
       <1>14, <1>15, <1>16, <1>17, <1>18, <1>19, <1>20, <1>21, <1>22, <1>23, <1>24, <1>25,
       <1>26, <1>27, <1>28, <1>29, Zenon
       DEF Next, Step, Lifecycle, Destroying

\* Every step keeps what ties the local variables of a setState call and the
\* fields of GoBackend to the place the call has reached.
LEMMA LocalsNext == LocalInv /\ [Next]_vars => FieldsOK' /\ \A p \in Callers : LocalsOK(p)'
  <1> DEFINE Goal == FieldsOK /\ \A q \in Callers : LocalsOK(q)
  <1> SUFFICES ASSUME LocalInv, [Next]_vars PROVE Goal'
    BY Zenon
  <1> USE DEF LocalInv, TypeOK, FieldsOK, LocalsOK, Lowering, Raising, Prepared, Arg,
          Goto, fields, devices, locals, system, main
  <1>1. ASSUME NEW p \in Callers, NEW t \in Tunnels,
               NEW state \in {"UP", "DOWN", "TOGGLE"}, NEW c \in Configs \cup {None},
               SetState(p, t, state, c)
        PROVE  Goal'
    <2>1. ASSUME NEW q \in Callers, q # p PROVE LocalsOK(q)'
      BY <1>1, <2>1 DEF SetState
    <2>2. LocalsOK(p)'
      BY Values, <1>1 DEF SetState
    <2>3. FieldsOK'
      BY Values, <1>1, Zenon DEF SetState
    <2> QED
      BY <2>1, <2>2, <2>3
  <1>2. ASSUME NEW p \in Callers, Return(p) PROVE Goal'
    <2>1. ASSUME NEW q \in Callers, q # p PROVE LocalsOK(q)'
      BY <1>2, <2>1, Zenon DEF Return, Forget
    <2>2. LocalsOK(p)'
      BY Values, <1>2 DEF Return, Forget
    <2>3. FieldsOK'
      BY Values, <1>2, Zenon DEF Return, Forget
    <2> QED
      BY <2>1, <2>2, <2>3, Zenon
  <1>3. ASSUME NEW p \in Callers, Throw(p) PROVE Goal'
    <2>1. ASSUME NEW q \in Callers, q # p PROVE LocalsOK(q)'
      BY <1>3, <2>1, Zenon DEF Throw, Forget
    <2>2. CASE phase[p] = "up" /\ orig[p].tunnel # None
      BY Values, <1>3, <2>1, <2>2, SMTT(30) DEF Throw, Forget
    <2>3. CASE ~(phase[p] = "up" /\ orig[p].tunnel # None)
      BY Values, <1>3, <2>1, <2>3 DEF Throw, Forget
    <2> QED
      BY <2>2, <2>3, Zenon
  <1>4. ASSUME NEW p \in Callers, Down(p) PROVE Goal'
    <2>1. ASSUME NEW q \in Callers, q # p PROVE LocalsOK(q)'
      BY <1>4, <2>1, Zenon DEF Down, Continue
    <2>2. LocalsOK(p)'
      BY <1>4, Zenon DEF Down, Continue
    <2>3. FieldsOK'
      BY <1>4, Zenon DEF Down, Continue
    <2> QED
      BY <2>1, <2>2, <2>3, Zenon
  <1>5. ASSUME NEW p \in Callers, TurnOff(p) PROVE Goal'
    <2>1. ASSUME NEW q \in Callers, q # p PROVE LocalsOK(q)'
      BY <1>5, <2>1, Zenon DEF TurnOff, wgTurnOff
    <2>2. LocalsOK(p)'
      BY <1>5, Zenon DEF TurnOff, wgTurnOff
    <2>3. FieldsOK'
      BY <1>5, Zenon DEF TurnOff, wgTurnOff
    <2> QED
      BY <2>1, <2>2, <2>3, Zenon
  <1>6. ASSUME NEW p \in Callers, StopSelf(p) PROVE Goal'
    <2>1. ASSUME NEW q \in Callers, q # p PROVE LocalsOK(q)'
      BY <1>6, <2>1, Zenon DEF StopSelf
    <2>2. LocalsOK(p)'
      BY <1>6, Zenon DEF StopSelf
    <2>3. FieldsOK'
      BY <1>6, Zenon DEF StopSelf
    <2> QED
      BY <2>1, <2>2, <2>3, Zenon
  <1>7. ASSUME NEW p \in Callers, DownReport(p) PROVE Goal'
    <2>1. ASSUME NEW q \in Callers, q # p PROVE LocalsOK(q)'
      BY <1>7, <2>1, Zenon DEF DownReport, Continue
    <2>2. LocalsOK(p)'
      BY <1>7, Zenon DEF DownReport, Continue
    <2>3. FieldsOK'
      BY <1>7, Zenon DEF DownReport, Continue
    <2> QED
      BY <2>1, <2>2, <2>3, Zenon
  <1>8. ASSUME NEW p \in Callers, PrepareFails(p) PROVE Goal'
    <2>1. ASSUME NEW q \in Callers, q # p PROVE LocalsOK(q)'
      BY <1>8, <2>1, Zenon DEF PrepareFails
    <2>2. LocalsOK(p)'
      BY <1>8, Zenon DEF PrepareFails
    <2>3. FieldsOK'
      BY <1>8, Zenon DEF PrepareFails
    <2> QED
      BY <2>1, <2>2, <2>3, Zenon
  <1>9. ASSUME NEW p \in Callers, Prepare(p) PROVE Goal'
    <2>1. ASSUME NEW q \in Callers, q # p PROVE LocalsOK(q)'
      BY <1>9, <2>1, Zenon DEF Prepare
    <2>2. LocalsOK(p)'
      BY Values, <1>9, SMTT(30) DEF Prepare
    <2>3. FieldsOK'
      BY Values, <1>9, Zenon DEF Prepare
    <2> QED
      BY <2>1, <2>2, <2>3, Zenon
  <1>10. ASSUME NEW p \in Callers, Get(p) PROVE Goal'
    <2>1. ASSUME NEW q \in Callers, q # p PROVE LocalsOK(q)'
      BY <1>10, <2>1, Zenon DEF Get
    <2>2. LocalsOK(p)'
      BY <1>10, Zenon DEF Get
    <2>3. FieldsOK'
      BY <1>10, Zenon DEF Get
    <2> QED
      BY <2>1, <2>2, <2>3, Zenon
  <1>11. ASSUME NEW p \in Callers, Await(p) PROVE Goal'
    <2>1. ASSUME NEW q \in Callers, q # p PROVE LocalsOK(q)'
      BY <1>11, <2>1, Zenon DEF Await
    <2>2. LocalsOK(p)'
      BY <1>11, Zenon DEF Await
    <2>3. FieldsOK'
      BY <1>11, Zenon DEF Await
    <2> QED
      BY <2>1, <2>2, <2>3, Zenon
  <1>12. ASSUME NEW p \in Callers, AwaitTimeout(p) PROVE Goal'
    <2>1. ASSUME NEW q \in Callers, q # p PROVE LocalsOK(q)'
      BY <1>12, <2>1, Zenon DEF AwaitTimeout
    <2>2. LocalsOK(p)'
      BY <1>12, Zenon DEF AwaitTimeout
    <2>3. FieldsOK'
      BY <1>12, Zenon DEF AwaitTimeout
    <2> QED
      BY <2>1, <2>2, <2>3, Zenon
  <1>13. ASSUME NEW p \in Callers, Own(p) PROVE Goal'
    <2>1. ASSUME NEW q \in Callers, q # p PROVE LocalsOK(q)'
      BY <1>13, <2>1, Zenon DEF Own, Continue
    <2>2. LocalsOK(p)'
      BY <1>13, Zenon DEF Own, Continue
    <2>3. FieldsOK'
      BY <1>13, Zenon DEF Own, Continue
    <2> QED
      BY <2>1, <2>2, <2>3, Zenon
  <1>14. ASSUME NEW p \in Callers, Resolve(p) PROVE Goal'
    <2>1. ASSUME NEW q \in Callers, q # p PROVE LocalsOK(q)'
      BY <1>14, <2>1, Zenon DEF Resolve
    <2>2. LocalsOK(p)'
      BY <1>14, Zenon DEF Resolve
    <2>3. FieldsOK'
      BY <1>14, Zenon DEF Resolve
    <2> QED
      BY <2>1, <2>2, <2>3, Zenon
  <1>15. ASSUME NEW p \in Callers, ResolveFails(p) PROVE Goal'
    <2>1. ASSUME NEW q \in Callers, q # p PROVE LocalsOK(q)'
      BY <1>15, <2>1, Zenon DEF ResolveFails
    <2>2. LocalsOK(p)'
      BY <1>15, Zenon DEF ResolveFails
    <2>3. FieldsOK'
      BY <1>15, Zenon DEF ResolveFails
    <2> QED
      BY <2>1, <2>2, <2>3, Zenon
  <1>16. ASSUME NEW p \in Callers, EstablishFails(p) PROVE Goal'
    <2>1. ASSUME NEW q \in Callers, q # p PROVE LocalsOK(q)'
      BY <1>16, <2>1, Zenon DEF EstablishFails
    <2>2. LocalsOK(p)'
      BY <1>16, Zenon DEF EstablishFails
    <2>3. FieldsOK'
      BY <1>16, Zenon DEF EstablishFails
    <2> QED
      BY <2>1, <2>2, <2>3, Zenon
  <1>17. ASSUME NEW p \in Callers, Establish(p) PROVE Goal'
    <2>1. ASSUME NEW q \in Callers, q # p PROVE LocalsOK(q)'
      BY <1>17, <2>1, Zenon DEF Establish
    <2>2. LocalsOK(p)'
      BY <1>17, Zenon DEF Establish
    <2>3. FieldsOK'
      BY <1>17, Zenon DEF Establish
    <2> QED
      BY <2>1, <2>2, <2>3, Zenon
  <1>18. ASSUME NEW p \in Callers, TurnOnFails(p) PROVE Goal'
    <2>1. ASSUME NEW q \in Callers, q # p PROVE LocalsOK(q)'
      BY <1>18, <2>1, Zenon DEF TurnOnFails
    <2>2. LocalsOK(p)'
      BY <1>18, Zenon DEF TurnOnFails
    <2>3. FieldsOK'
      BY <1>18, Zenon DEF TurnOnFails
    <2> QED
      BY <2>1, <2>2, <2>3, Zenon
  <1>19. ASSUME NEW p \in Callers, TurnOn(p) PROVE Goal'
    <2>1. ASSUME NEW q \in Callers, q # p PROVE LocalsOK(q)'
      BY <1>19, <2>1, Zenon DEF TurnOn
    <2>2. LocalsOK(p)'
      BY Values, <1>19, SMTT(30) DEF TurnOn
    <2>3. FieldsOK'
      BY Values, <1>19, Zenon DEF TurnOn
    <2> QED
      BY <2>1, <2>2, <2>3, Zenon
  <1>20. ASSUME NEW p \in Callers, Insert(p) PROVE Goal'
    <2>1. ASSUME NEW q \in Callers, q # p PROVE LocalsOK(q)'
      BY <1>20, <2>1, Zenon DEF Insert
    <2>2. LocalsOK(p)'
      BY <1>20, Zenon DEF Insert
    <2>3. FieldsOK'
      BY <1>20, Zenon DEF Insert
    <2> QED
      BY <2>1, <2>2, <2>3, Zenon
  <1>21. ASSUME NEW p \in Callers, Assign(p) PROVE Goal'
    <2>1. ASSUME NEW q \in Callers, q # p PROVE LocalsOK(q)'
      BY <1>21, <2>1, Zenon DEF Assign
    <2>2. LocalsOK(p)'
      BY Values, <1>21, SMTT(30) DEF Assign
    <2>3. FieldsOK'
      BY Values, <1>21, SMTT(30) DEF Assign
    <2> QED
      BY <2>1, <2>2, <2>3, Zenon
  <1>22. ASSUME NEW p \in Callers, UpReport(p) PROVE Goal'
    <2>1. ASSUME NEW q \in Callers, q # p PROVE LocalsOK(q)'
      BY <1>22, <2>1, Zenon DEF UpReport, Continue
    <2>2. LocalsOK(p)'
      BY <1>22, Zenon DEF UpReport, Continue
    <2>3. FieldsOK'
      BY <1>22, Zenon DEF UpReport, Continue
    <2> QED
      BY <2>1, <2>2, <2>3, Zenon
  <1>23. ASSUME SystemStart PROVE Goal'
    BY <1>23, Zenon DEF SystemStart
  <1>24. ASSUME Revoke PROVE Goal'
    BY <1>24, Zenon DEF Revoke
  <1>25. ASSUME Unbind PROVE Goal'
    BY <1>25, Zenon DEF Unbind
  <1>26. ASSUME BringDown PROVE Goal'
    BY <1>26, Zenon DEF BringDown
  <1>27. ASSUME OnCreate PROVE Goal'
    BY <1>27, Zenon DEF OnCreate
  <1>28. ASSUME OnDestroy PROVE Goal'
    BY <1>28, Zenon DEF OnDestroy
  <1>29. ASSUME DestroyTurnOff PROVE Goal'
    BY <1>29, Zenon DEF DestroyTurnOff, wgTurnOff
  <1>30. ASSUME DestroyClear PROVE Goal'
    BY <1>30, Zenon DEF DestroyClear
  <1>31. ASSUME DestroyReport PROVE Goal'
    BY <1>31, Zenon DEF DestroyReport
  <1>32. ASSUME DestroyRenew PROVE Goal'
    BY <1>32, Zenon DEF DestroyRenew
  <1>33. CASE UNCHANGED vars
    BY <1>33, Zenon DEF vars
  <1> HIDE DEF LocalInv, TypeOK, FieldsOK, LocalsOK, Goal
  <1> QED
    BY <1>1, <1>2, <1>3, <1>4, <1>5, <1>6, <1>7, <1>8, <1>9, <1>10, <1>11, <1>12, <1>13,
       <1>14, <1>15, <1>16, <1>17, <1>18, <1>19, <1>20, <1>21, <1>22, <1>23, <1>24, <1>25,
       <1>26, <1>27, <1>28, <1>29, <1>30, <1>31, <1>32, <1>33
       DEF Next, Step, Lifecycle, Destroying

\* The fields, the handle table and the local variables of the callers stay
\* well typed, and what a caller is about to enter into the table is a tunnel
\* with a configuration, whatever interleaves.
THEOREM LocalCorrect == Spec => []LocalInv
  <1>1. LocalInv /\ [Next]_vars => LocalInv'
    BY TypeNext, LocalsNext, Zenon DEF LocalInv
  <1> QED
    BY LocalInit, <1>1, PTL DEF Spec

\* The fields of GoBackend, the handle table, each caller's locals and the
\* service keep their types whatever the callers, the main thread and the
\* system do: no step leaves a handle, a state or a retry count out of range.
THEOREM TypeCorrect == Spec => []TypeOK
  <1>1. LocalInv => TypeOK
    BY Zenon DEF LocalInv
  <1> QED
    BY <1>1, LocalCorrect, PTL

\* A handle is never left in the fields without its tunnel, however calls of
\* setState and VpnService.onDestroy interleave: whoever enters a handle goes
\* on to assign the tunnel, unless the handle was cleared in between.
THEOREM HandleNeverStuck == Spec => []NoStuckHandle
  <1>1. Init => NoStuckHandle
    BY Zenon DEF Init, NoStuckHandle
  <1>2. LocalInv /\ NoStuckHandle /\ [Next]_vars => NoStuckHandle'
    <2> SUFFICES ASSUME LocalInv, NoStuckHandle, [Next]_vars PROVE NoStuckHandle'
      BY Zenon
    <2> USE DEF LocalInv, TypeOK, NoStuckHandle, Goto, fields, devices, locals, system, main
    <2>1. ASSUME NEW p \in Callers, Insert(p) PROVE NoStuckHandle'
      BY <2>1, Zenon DEF Insert
    <2>2. ASSUME NEW p \in Callers, Assign(p) PROVE NoStuckHandle'
      <3>1. Arg(p) \in Running
        BY <2>2, Zenon DEF Assign, LocalsOK, Prepared, Raising
      <3>2. CASE currentTunnelHandle < 0
        <4>1. currentTunnelHandle = -1
          BY <3>2, HandleSign, Zenon
        <4> QED
          BY <2>2, <4>1, Zenon DEF Assign
      <3>3. CASE currentTunnelHandle >= 0
        <4>1. ~(currentTunnelHandle < 0)
          BY <3>3, HandleSign, Zenon
        <4>2. currentTunnel' = Arg(p).tunnel
          BY <2>2, <4>1, Zenon DEF Assign
        <4>3. Arg(p).tunnel # None
          BY <3>1, Values, Zenon
        <4> QED
          BY <4>2, <4>3, Zenon
      <3> QED
        BY <2>2, <3>2, <3>3, Zenon DEF Assign
    <2>3. ASSUME NEW p \in Callers, Down(p) PROVE NoStuckHandle'
      BY <2>3, Zenon DEF Down, Continue
    <2>4. ASSUME NEW p \in Callers, TurnOnFails(p) PROVE NoStuckHandle'
      BY <2>4, Zenon DEF TurnOnFails
    <2>5. CASE DestroyClear
      BY <2>5, Zenon DEF DestroyClear
    <2>6. ASSUME NEW p \in Callers, UNCHANGED fields, pc[p] # "assign",
                 \A q \in Callers : q # p => pc'[q] = pc[q]
          PROVE  NoStuckHandle'
      BY <2>6, Zenon
    <2>7. ASSUME UNCHANGED <<fields, pc>> PROVE NoStuckHandle'
      BY <2>7, Zenon
    <2>8. ASSUME NEW p \in Callers, NEW t \in Tunnels,
                 NEW state \in {"UP", "DOWN", "TOGGLE"}, NEW c \in Configs \cup {None},
                 SetState(p, t, state, c)
          PROVE  NoStuckHandle'
      BY <2>6, <2>8, Zenon DEF SetState
    <2>9. ASSUME NEW p \in Callers,
                 Step(p), ~Insert(p), ~Assign(p), ~Down(p), ~TurnOnFails(p)
          PROVE  NoStuckHandle'
      <3>1. UNCHANGED fields /\ pc[p] # "assign"
        BY <2>9, Zenon DEF Step, Return, Throw, TurnOff, StopSelf, DownReport, PrepareFails, Prepare,
           Get, Await, AwaitTimeout, Own, Resolve, ResolveFails, EstablishFails, Establish,
           TurnOn, UpReport
      <3>2. \A q \in Callers : q # p => pc'[q] = pc[q]
        BY <2>9, Zenon DEF Step, Return, Throw, TurnOff, StopSelf, DownReport, PrepareFails, Prepare,
           Get, Await, AwaitTimeout, Own, Resolve, ResolveFails, EstablishFails, Establish,
           TurnOn, UpReport, Continue
      <3> QED
        BY <2>6, <3>1, <3>2, Zenon
    <2>10. ASSUME Lifecycle, ~DestroyClear PROVE NoStuckHandle'
      BY <2>7, <2>10, Zenon DEF Lifecycle, Destroying, SystemStart, Revoke, Unbind, BringDown, OnCreate,
         OnDestroy, DestroyTurnOff, DestroyReport, DestroyRenew
    <2>11. CASE UNCHANGED vars
      BY <2>7, <2>11, Zenon DEF vars
    <2> HIDE DEF LocalInv, TypeOK, NoStuckHandle, Goto, fields, devices, locals, system, main
    <2> QED
      BY <2>1, <2>2, <2>3, <2>4, <2>5, <2>8, <2>9, <2>10, <2>11, Zenon DEF Next
  <1> QED
    BY <1>1, <1>2, LocalCorrect, PTL DEF Spec

-----------------------------------------------------------------------------
(* When neither two calls of setState nor a call and onDestroy overlap: the    *)
(* inductive invariant that says, step by step, what the fields, the handle    *)
(* table and the reported states are, and the safety properties and the       *)
(* refinement that follow from it.                                             *)

Current == [tunnel |-> currentTunnel, config |-> currentConfig]

NoDevice == \A h \in Handles : tunnelHandles[h] = Nothing
Empty == currentTunnel = None /\ currentTunnelHandle = -1 /\ NoDevice

\* Handle h leads to r and no other handle is in use.
Only(h, r) ==
    /\ h \in Handles
    /\ tunnelHandles[h] = r
    /\ \A k \in Handles : k # h => tunnelHandles[k] = Nothing

Full(r) == r \in Running /\ Current = r /\ Only(currentTunnelHandle, r)

\* t, if it is a tunnel, is the only one that was told it is UP.
Told(t) == \A u \in Tunnels : reported[u] = IF u = t THEN "UP" ELSE "DOWN"

Settled == (Empty /\ Told(None)) \/ (Full(Current) /\ Told(currentTunnel))

CallerInv(p) ==
    /\ pc[p] = "down" => Settled /\ currentTunnel = Arg(p).tunnel /\ currentTunnel # None
    /\ pc[p] = "turnOff" =>
          /\ currentTunnel = None /\ currentTunnelHandle = -1
          /\ slot[p] \in Handles
          /\ \A k \in Handles : k # slot[p] => tunnelHandles[k] = Nothing
          /\ Told(Arg(p).tunnel)
    /\ pc[p] \in {"stopSelf", "downReport"} => Empty /\ Told(Arg(p).tunnel)
    /\ pc[p] \in Raising \ {"assign", "upReport"} => Empty /\ Told(None)
    /\ pc[p] = "assign" => currentTunnel = None /\ Only(currentTunnelHandle, Arg(p)) /\ Told(None)
    /\ pc[p] = "upReport" => Full(Arg(p)) /\ Told(None)
    /\ pc[p] = "return" => Settled /\ (phase[p] = "restore" => Full(orig[p]))

MainInv ==
    /\ mainPc = "off" => Settled /\ currentTunnel = victim /\ victim # None
    /\ mainPc = "clear" => NoDevice /\ victim # None /\ Told(victim)
    /\ mainPc = "report" => Empty /\ victim # None /\ Told(victim)
    /\ mainPc = "renew" => Settled

Alone ==
    /\ \A p, q \in Callers : pc[p] # "idle" /\ pc[q] # "idle" => p = q
    /\ \A p \in Callers : mainPc # "idle" => pc[p] = "idle"

SerialInv ==
    /\ Alone
    /\ lost = {}
    /\ Quiet => Settled
    /\ \A p \in Callers : CallerInv(p)
    /\ MainInv

\* A running pair is determined by its tunnel and its configuration.
LEMMA Pair == \A r \in Running : r = [tunnel |-> r.tunnel, config |-> r.config]
  BY DEF Running

\* A fresh GoBackend has no device and no tunnel that believes it is UP.
LEMMA SerialInit == Init => SerialInv
  <1> SUFFICES ASSUME Init PROVE SerialInv
    BY Zenon
  <1>1. Settled
    BY Values, Zenon DEF Init, Settled, Empty, NoDevice, Told
  <1>2. \A p \in Callers : CallerInv(p)
    BY Zenon DEF Init, CallerInv, Raising
  <1> QED
    BY <1>1, <1>2, Zenon DEF Init, SerialInv, Alone, MainInv

\* A step of one caller: the others are idle, so only its own part of the
\* invariant can change.
LEMMA CallerMoves ==
    ASSUME LocalInv, SerialInv, NEW p \in Callers,
           pc[p] # "idle" \/ Quiet,
           \A q \in Callers : q # p => pc'[q] = pc[q],
           UNCHANGED main, lost' = {},
           CallerInv(p)',
           pc'[p] = "idle" => Settled'
    PROVE  SerialInv'
  <1>1. mainPc = "idle" /\ mainPc' = "idle"
    BY Zenon DEF SerialInv, Alone, Quiet, main
  <1>2. \A q \in Callers : q # p => pc[q] = "idle" /\ pc'[q] = "idle"
    BY Zenon DEF SerialInv, Alone, Quiet
  <1>3. \A q \in Callers : q # p => CallerInv(q)'
    BY <1>2, Zenon DEF CallerInv, Raising
  <1>4. Alone' /\ MainInv'
    BY <1>1, <1>2, Zenon DEF Alone, MainInv
  <1>5. Quiet' => Settled'
    BY Zenon DEF Quiet
  <1> QED
    BY <1>3, <1>4, <1>5, Zenon DEF SerialInv

\* A step of the main thread inside onDestroy: every caller is idle.
LEMMA MainMoves ==
    ASSUME LocalInv, SerialInv, \A q \in Callers : pc[q] = "idle", UNCHANGED pc, lost' = {},
           MainInv', mainPc' = "idle" => Settled'
    PROVE  SerialInv'
  <1>1. \A q \in Callers : CallerInv(q)'
    BY Zenon DEF CallerInv, Raising
  <1> QED
    BY <1>1, Zenon DEF SerialInv, Alone, Quiet

\* What the invariant says of the fields, the devices and the reports depends
\* on nothing else.
LEMMA SameState ==
    ASSUME UNCHANGED <<fields, devices, reported>>
    PROVE  /\ Settled' <=> Settled
           /\ Empty' <=> Empty
           /\ \A t : Told(t)' <=> Told(t)
           /\ \A r : Full(r)' <=> Full(r)
  BY Zenon DEF fields, devices, Settled, Empty, NoDevice, Only, Full, Told, Current

\* A caller on its way to a new device, or to the exception that reports that
\* there is none: no device exists and no tunnel believes it is UP.
LEMMA StillEmpty ==
    ASSUME LocalInv, SerialInv, NEW p \in Callers,
           pc[p] \in Raising \ {"assign", "upReport"},
           pc'[p] \in Raising \ {"assign", "upReport"},
           \A q \in Callers : q # p => pc'[q] = pc[q],
           UNCHANGED <<fields, devices, reported, main>>
    PROVE  SerialInv'
  <1>1. Empty' /\ Told(None)'
    BY SameState, Zenon DEF SerialInv, CallerInv
  <1>2. CallerInv(p)'
    BY <1>1, Zenon DEF CallerInv, Raising
  <1>3. lost' = {} /\ pc[p] # "idle" /\ pc'[p] # "idle"
    BY Zenon DEF SerialInv, devices, Raising
  <1> QED
    BY <1>2, <1>3, CallerMoves, Zenon

\* A caller that returns from the setStateInternal it was in, with the
\* settled state it leaves behind.
LEMMA Continues ==
    ASSUME LocalInv, SerialInv, NEW p \in Callers, pc[p] # "idle", Continue(p),
           UNCHANGED <<main, want, orig>>, lost' = {}, Settled',
           phase[p] = "clear" => Empty' /\ Told(None)',
           phase[p] = "restore" => Full(orig[p])'
    PROVE  SerialInv'
  <1>0. TypeOK
    BY Zenon DEF LocalInv
  <1>1. CASE phase[p] = "clear"
    <2>1. pc' = [pc EXCEPT ![p] = "prepare"]
      BY <1>1, Zenon DEF Continue, Goto
    <2>2. CallerInv(p)'
      BY <1>0, <1>1, <2>1, Zenon DEF TypeOK, CallerInv, Raising
    <2> QED
      BY <1>0, <2>1, <2>2, CallerMoves, Zenon DEF TypeOK
  <1>2. CASE phase[p] # "clear"
    <2>1. pc' = [pc EXCEPT ![p] = "return"] /\ phase' = phase
      BY <1>2, Zenon DEF Continue, Goto
    <2>2. CallerInv(p)'
      BY <1>0, <2>1, Zenon DEF TypeOK, CallerInv, Raising
    <2> QED
      BY <1>0, <2>1, <2>2, CallerMoves, Zenon DEF TypeOK
  <1> QED
    BY <1>1, <1>2, Zenon

\* Every step keeps the serial invariant as long as calls do not overlap.
LEMMA SerialNext == LocalInv /\ SerialInv /\ Serialised /\ [Next]_vars => SerialInv'
  <1> SUFFICES ASSUME LocalInv, SerialInv, Serialised, [Next]_vars PROVE SerialInv'
    BY Zenon
  <1> USE DEF Goto, fields, devices, locals, system, main
  <1>0. TypeOK /\ lost = {}
    BY Zenon DEF LocalInv, SerialInv
  <1>a. ASSUME NEW p \in Callers PROVE CallerInv(p) /\ LocalsOK(p)
    BY Zenon DEF LocalInv, SerialInv
  <1>1. ASSUME NEW p \in Callers, NEW t \in Tunnels,
               NEW state \in {"UP", "DOWN", "TOGGLE"}, NEW c \in Configs \cup {None},
               SetState(p, t, state, c)
        PROVE  SerialInv'
    <2>1. Quiet /\ Settled /\ Settled'
      BY <1>1, SameState, Zenon DEF SetState, SerialInv
    <2>2. ASSUME currentTunnel = None, pc' = [pc EXCEPT ![p] = "prepare"] PROVE CallerInv(p)'
      <3>1. Empty' /\ Told(None)'
        BY <1>1, <2>1, <2>2, SameState, Values, Zenon DEF SetState, Settled, Full, Current
      <3> QED
        BY <1>0, <2>2, <3>1, Zenon DEF TypeOK, CallerInv, Raising
    <2>3. ASSUME currentTunnel # None, pc' = [pc EXCEPT ![p] = "down"] PROVE CallerInv(p)'
      <3>1. Arg(p)'.tunnel = currentTunnel
        BY <1>0, <1>1, <2>3 DEF TypeOK, SetState, Arg
      <3> QED
        BY <1>0, <1>1, <2>1, <2>3, <3>1, Zenon DEF TypeOK, SetState, CallerInv, Raising
    <2>4. \/ currentTunnel = None /\ pc' = [pc EXCEPT ![p] = "prepare"]
          \/ currentTunnel # None /\ pc' = [pc EXCEPT ![p] = "down"]
      BY <1>1, Values DEF SetState
    <2>5. CallerInv(p)' /\ pc'[p] # "idle" /\ \A q \in Callers : q # p => pc'[q] = pc[q]
      <3>1. CallerInv(p)'
        BY <2>2, <2>3, <2>4, Zenon
      <3> QED
        BY <1>0, <2>4, <3>1, Zenon DEF TypeOK
    <2> QED
      BY <1>0, <1>1, <2>1, <2>5, CallerMoves, Zenon DEF SetState
  <1>2. ASSUME NEW p \in Callers, Return(p) PROVE SerialInv'
    <2>1. Settled'
      BY <1>2, <1>a, SameState, Zenon DEF Return, CallerInv
    <2>2. pc' = [pc EXCEPT ![p] = "idle"]
      BY <1>2, Zenon DEF Return
    <2>3. CallerInv(p)'
      BY <1>0, <2>2, Zenon DEF TypeOK, CallerInv, Raising
    <2> QED
      BY <1>0, <1>2, <2>1, <2>2, <2>3, CallerMoves, Zenon DEF Return, TypeOK
  <1>3. ASSUME NEW p \in Callers, Throw(p) PROVE SerialInv'
    <2>1. CASE pc' = [pc EXCEPT ![p] = "prepare"]
      BY <1>0, <1>3, <2>1, StillEmpty, Zenon DEF Throw, TypeOK, Raising
    <2>2. CASE pc' = [pc EXCEPT ![p] = "idle"]
      <3>1. Settled'
        BY <1>3, <1>a, SameState, Zenon DEF Throw, CallerInv, Raising, Settled
      <3>2. CallerInv(p)'
        BY <1>0, <2>2, Zenon DEF TypeOK, CallerInv, Raising
      <3> QED
        BY <1>0, <1>3, <2>2, <3>1, <3>2, CallerMoves, Zenon DEF Throw, TypeOK
    <2> QED
      BY <1>3, <2>1, <2>2, Zenon DEF Throw
  <1>4. ASSUME NEW p \in Callers, Down(p) PROVE SerialInv'
    <2>1. Full(Current) /\ Told(Arg(p).tunnel)
      BY <1>4, <1>a, Zenon DEF Down, CallerInv, Settled, Empty
    <2>2. /\ currentTunnel' = None /\ currentTunnelHandle' = -1 /\ UNCHANGED reported
          /\ slot' = [slot EXCEPT ![p] = currentTunnelHandle]
          /\ pc' = [pc EXCEPT ![p] = "turnOff"]
          /\ UNCHANGED <<devices, phase, want, orig, main>>
      BY <1>4, <2>1, Values, Zenon DEF Down, Full, Only
    <2>3. Arg(p)' = Arg(p)
      BY <2>2, Zenon DEF Arg
    <2>4. Told(Arg(p).tunnel)'
      BY <2>1, <2>2, <2>3, Zenon DEF Told
    <2>5. slot'[p] \in Handles /\ \A k \in Handles : k # slot'[p] => tunnelHandles'[k] = Nothing
      BY <1>0, <2>1, <2>2, Zenon DEF TypeOK, Full, Only
    <2>6. CallerInv(p)'
      BY <1>0, <2>2, <2>4, <2>5, Zenon DEF TypeOK, CallerInv, Raising
    <2> QED
      BY <1>0, <1>4, <2>2, <2>6, CallerMoves, Zenon DEF Down, TypeOK
  <1>5. ASSUME NEW p \in Callers, TurnOff(p) PROVE SerialInv'
    <2>1. Arg(p)' = Arg(p)
      BY <1>5, Zenon DEF TurnOff, Arg
    <2>2. Empty' /\ Told(Arg(p).tunnel)'
      BY <1>5, <1>a, <2>1 DEF TurnOff, wgTurnOff, CallerInv, Empty, NoDevice, Told
    <2>3. CallerInv(p)'
      BY <1>0, <1>5, <2>2, Zenon DEF TurnOff, TypeOK, CallerInv, Raising
    <2> QED
      BY <1>0, <1>5, <2>3, CallerMoves, Zenon DEF TurnOff, TypeOK
  <1>6. ASSUME NEW p \in Callers, StopSelf(p) PROVE SerialInv'
    <2>1. Arg(p)' = Arg(p)
      BY <1>6, Zenon DEF StopSelf, Arg
    <2>2. Empty' /\ Told(Arg(p).tunnel)'
      BY <1>6, <1>a, <2>1 DEF StopSelf, CallerInv, Empty, NoDevice, Told
    <2>3. CallerInv(p)'
      BY <1>0, <1>6, <2>2, Zenon DEF StopSelf, TypeOK, CallerInv, Raising
    <2> QED
      BY <1>0, <1>6, <2>3, CallerMoves, Zenon DEF StopSelf, TypeOK
  <1>7. ASSUME NEW p \in Callers, DownReport(p) PROVE SerialInv'
    <2>1. Empty'
      BY <1>7, <1>a, Zenon DEF DownReport, CallerInv, Empty, NoDevice
    <2>2. Told(None)'
      BY <1>0, <1>7, <1>a, Values, SMTT(30) DEF DownReport, TypeOK, CallerInv, Told
    <2>3. phase[p] # "restore"
      BY <1>7, <1>a, Zenon DEF DownReport, LocalsOK, Lowering
    <2> QED
      BY <1>0, <1>7, <2>1, <2>2, <2>3, Continues, Zenon DEF DownReport, Settled
  <1>8. ASSUME NEW p \in Callers,
               \/ PrepareFails(p) \/ Prepare(p) \/ Get(p) \/ Await(p) \/ AwaitTimeout(p)
               \/ Resolve(p) \/ ResolveFails(p) \/ EstablishFails(p) \/ Establish(p) \/ TurnOn(p)
        PROVE  SerialInv'
    BY <1>0, <1>8, StillEmpty, Zenon DEF PrepareFails, Prepare, Get, Await, AwaitTimeout, Resolve,
       ResolveFails, EstablishFails, Establish, TurnOn, TypeOK, Raising
  <1>9. ASSUME NEW p \in Callers, Own(p) \/ TurnOnFails(p) PROVE SerialInv'
    <2>1. currentTunnelHandle = -1
      BY <1>9, <1>a, Zenon DEF Own, TurnOnFails, CallerInv, Raising, Empty
    <2> QED
      BY <1>0, <1>9, <2>1, StillEmpty, Zenon DEF Own, TurnOnFails, TypeOK, Raising
  <1>10. ASSUME NEW p \in Callers, Insert(p) PROVE SerialInv'
    <2>1. Arg(p)' = Arg(p)
      BY <1>10, Zenon DEF Insert, Arg
    <2>2. Empty /\ Told(None) /\ slot[p] \in Handles
      BY <1>10, <1>a, Zenon DEF Insert, CallerInv, LocalsOK, Raising
    <2>3. Only(currentTunnelHandle, Arg(p))' /\ currentTunnel' = None /\ Told(None)'
      BY <1>0, <1>10, <2>1, <2>2, Zenon DEF Insert, TypeOK, Empty, NoDevice, Only, Told
    <2>4. lost' = {}
      BY <1>0, <1>10, <2>2, Zenon DEF Insert, Empty, NoDevice
    <2>5. CallerInv(p)'
      BY <1>0, <1>10, <2>3, Zenon DEF Insert, TypeOK, CallerInv, Raising
    <2>6. /\ pc[p] = "insert" /\ UNCHANGED main
          /\ pc'[p] = "assign" /\ \A q \in Callers : q # p => pc'[q] = pc[q]
      BY <1>0, <1>10, Zenon DEF Insert, TypeOK
    <2> QED
      BY <2>4, <2>5, <2>6, CallerMoves, Zenon
  <1>11. ASSUME NEW p \in Callers, Assign(p) PROVE SerialInv'
    <2>1. Arg(p)' = Arg(p)
      BY <1>11, Zenon DEF Assign, Arg
    <2>2. Arg(p) \in Running /\ Only(currentTunnelHandle, Arg(p)) /\ Told(None)
      BY <1>11, <1>a, Zenon DEF Assign, CallerInv, LocalsOK, Prepared, Raising
    <2>3. /\ pc' = [pc EXCEPT ![p] = "upReport"]
          /\ currentTunnel' = Arg(p).tunnel /\ currentConfig' = Arg(p).config
      BY <1>11, <2>2, Values DEF Assign, Only
    <2>4. Current' = Arg(p)
      BY <2>2, <2>3, Pair, Zenon DEF Current
    <2>5. Full(Arg(p))' /\ Told(None)'
      BY <1>11, <2>1, <2>2, <2>4, Zenon DEF Assign, Full, Only, Told
    <2>6. CallerInv(p)'
      BY <1>0, <2>3, <2>5, Zenon DEF CallerInv, TypeOK, Raising
    <2> QED
      BY <1>0, <1>11, <2>3, <2>6, CallerMoves, Zenon DEF Assign, TypeOK
  <1>12. ASSUME NEW p \in Callers, UpReport(p) PROVE SerialInv'
    <2>1. Full(Arg(p)) /\ Told(None) /\ phase[p] \in {"up", "restore"}
      BY <1>12, <1>a, Zenon DEF UpReport, CallerInv, LocalsOK, Raising
    <2>2. Full(Arg(p)) /\ Arg(p) = Current /\ Arg(p).tunnel = currentTunnel
      BY <2>1 DEF Full, Current
    <2>3. currentTunnel' = currentTunnel /\ Current' = Current
      BY <1>12, Zenon DEF UpReport, Current
    <2>4. Told(currentTunnel)'
      BY <1>0, <1>12, <2>1, <2>2, <2>3, Values, SMTT(30) DEF UpReport, TypeOK, Told
    <2>5. \A r : Full(r)' <=> Full(r)
      BY <1>12, Zenon DEF UpReport, Full, Only, Current
    <2>6. Settled' /\ (phase[p] = "restore" => Full(orig[p])')
      BY <1>12, <2>2, <2>3, <2>4, <2>5, Zenon DEF UpReport, Settled, Arg
    <2> QED
      BY <1>0, <1>12, <2>1, <2>6, Continues, Zenon DEF UpReport
  <1>13. ASSUME UNCHANGED <<fields, devices, reported, pc, phase, want, orig, slot, main>>
         PROVE  SerialInv'
    <2>1. (Alone /\ lost = {})' /\ (Quiet' <=> Quiet)
      BY <1>13, Zenon DEF SerialInv, Alone, Quiet
    <2>2. Settled' <=> Settled
      BY <1>13, SameState, Zenon
    <2>3. \A q \in Callers : CallerInv(q)'
      BY <1>13, <2>2 DEF SerialInv, CallerInv, Empty, NoDevice, Only, Full, Told, Current, Arg
    <2>4. MainInv'
      BY <1>13, <2>2, Zenon DEF SerialInv, MainInv, Empty, NoDevice, Told
    <2> QED
      BY <2>1, <2>2, <2>3, <2>4, Zenon DEF SerialInv
  <1>14. CASE SystemStart \/ Revoke \/ Unbind \/ BringDown \/ OnCreate \/ UNCHANGED vars
    BY <1>13, <1>14, Zenon DEF SystemStart, Revoke, Unbind, BringDown, OnCreate, vars
  <1>15. CASE OnDestroy
    <2>1. Quiet /\ Settled /\ Settled'
      BY <1>15, SameState, Zenon DEF OnDestroy, SerialInv
    <2>2. MainInv' /\ mainPc' # "idle"
      BY <1>15, <2>1, Zenon DEF OnDestroy, MainInv
    <2> QED
      BY <1>0, <1>15, <2>1, <2>2, MainMoves, Zenon DEF OnDestroy, Quiet
  <1>16. ASSUME mainPc # "idle" PROVE \A q \in Callers : pc[q] = "idle"
    BY <1>16, Zenon DEF SerialInv, Alone
  <1>17. CASE DestroyTurnOff
    <2>1. Full(Current) /\ Told(victim) /\ victim # None
      BY <1>17, Zenon DEF DestroyTurnOff, SerialInv, MainInv, Settled, Empty
    <2>2. NoDevice' /\ Told(victim)' /\ victim' # None
      BY <1>17, <2>1, Zenon DEF DestroyTurnOff, wgTurnOff, NoDevice, Told, Full, Only
    <2> QED
      BY <1>0, <1>16, <1>17, <2>2, MainMoves, Zenon DEF DestroyTurnOff, MainInv
  <1>18. CASE DestroyClear
    <2>1. Empty' /\ Told(victim)' /\ victim' # None
      BY <1>18, Zenon DEF DestroyClear, SerialInv, MainInv, Empty, NoDevice, Told
    <2> QED
      BY <1>0, <1>16, <1>18, <2>1, MainMoves, Zenon DEF DestroyClear, MainInv
  <1>19. CASE DestroyReport
    <2>1. Empty'
      BY <1>19, Zenon DEF DestroyReport, SerialInv, MainInv, Empty, NoDevice
    <2>2. Told(None)'
      BY <1>0, <1>19, Values, SMTT(30) DEF DestroyReport, TypeOK, SerialInv, MainInv, Told
    <2> QED
      BY <1>0, <1>16, <1>19, <2>1, <2>2, MainMoves, Zenon DEF DestroyReport, MainInv, Settled
  <1>20. CASE DestroyRenew
    <2>1. Settled'
      BY <1>20, SameState, Zenon DEF DestroyRenew, SerialInv, MainInv
    <2> QED
      BY <1>0, <1>16, <1>20, <2>1, MainMoves, Zenon DEF DestroyRenew, MainInv
  <1> HIDE DEF Goto, fields, devices, locals, system, main
  <1> QED
    BY <1>1, <1>2, <1>3, <1>4, <1>5, <1>6, <1>7, <1>8, <1>9, <1>10, <1>11, <1>12,
       <1>14, <1>15, <1>17, <1>18, <1>19, <1>20, Zenon
       DEF Next, Step, Lifecycle, Destroying

\* The step-by-step invariant holds throughout when calls do not overlap.
THEOREM SerialCorrect == ASSUME Serialised PROVE Spec => [](LocalInv /\ SerialInv)
  <1>1. LocalInv /\ SerialInv /\ [Next]_vars => (LocalInv /\ SerialInv)'
    BY SerialNext, TypeNext, LocalsNext, Zenon DEF LocalInv
  <1> QED
    BY LocalInit, SerialInit, <1>1, PTL DEF Spec

\* In every state described by the invariant at most one handle is in use.
LEMMA DeviceUnique == LocalInv /\ SerialInv => OneDevice
  <1> SUFFICES ASSUME LocalInv, SerialInv,
                      NEW h \in Handles, NEW k \in Handles,
                      tunnelHandles[h] # Nothing, tunnelHandles[k] # Nothing
               PROVE  h = k
    BY Zenon DEF OneDevice, SerialInv
  <1>1. CASE Quiet
    BY <1>1, Zenon DEF SerialInv, Settled, Empty, NoDevice, Full, Only
  <1>2. CASE mainPc # "idle"
    <2>1. mainPc \in {"off", "clear", "report", "renew"}
      BY <1>2, Zenon DEF LocalInv, TypeOK
    <2> QED
      BY <2>1, Zenon DEF SerialInv, MainInv, Settled, Empty, NoDevice, Full, Only
  <1>3. ASSUME NEW p \in Callers, pc[p] # "idle" PROVE h = k
    <2>1. pc[p] \in Lowering \cup Raising \cup {"return"}
      BY <1>3, Zenon DEF LocalInv, TypeOK, Labels, Lowering, Raising
    <2>2. CallerInv(p)
      BY Zenon DEF SerialInv
    <2> QED
      BY <2>1, <2>2, Zenon DEF CallerInv, Lowering, Raising, Settled, Empty, NoDevice, Full, Only
  <1> QED
    BY <1>1, <1>2, <1>3, Zenon DEF Quiet

\* setState never has two devices at once, and never loses one.
THEOREM OneDeviceCorrect == ASSUME Serialised PROVE Spec => []OneDevice
  BY SerialCorrect, DeviceUnique, PTL

\* Between calls getRunningTunnelNames names exactly the tunnel whose device
\* is open, and the device has the configuration in currentConfig.
THEOREM NamesCorrect == ASSUME Serialised PROVE Spec => []NamesExact
  <1>1. LocalInv /\ SerialInv => NamesExact
    <2> SUFFICES ASSUME LocalInv, SerialInv, Quiet
                 PROVE  /\ {r.tunnel : r \in Open} = getRunningTunnelNames
                        /\ currentTunnel # None =>
                              /\ currentTunnelHandle # -1
                              /\ tunnelHandles[currentTunnelHandle] = Current
      BY Zenon DEF NamesExact, SerialInv, Current
    <2>1. Settled /\ TypeOK
      BY Zenon DEF SerialInv, LocalInv
    <2>2. CASE Empty
      <3>1. Open = {}
        BY <2>2, Zenon DEF Empty, NoDevice, Open
      <3> QED
        BY <2>2, <3>1, Zenon DEF Empty, getRunningTunnelNames
    <2>3. CASE Full(Current)
      <3>1. Current \in Running /\ Current.tunnel = currentTunnel /\ Current # Nothing
        BY <2>3, Values, Zenon DEF Full, Current
      <3>2. currentTunnelHandle \in Handles /\ tunnelHandles[currentTunnelHandle] = Current
        BY <2>3, Zenon DEF Full, Only
      <3>3. Open = {Current}
        BY <2>3, <3>1, <3>2 DEF Full, Only, Open
      <3>4. currentTunnel # None
        BY <3>1, Values, Zenon
      <3>5. {r.tunnel : r \in Open} = {currentTunnel}
        BY <3>1, <3>3, Zenon
      <3>6. getRunningTunnelNames = {currentTunnel}
        BY <3>4, Zenon DEF getRunningTunnelNames
      <3> QED
        BY <3>2, <3>5, <3>6, Values, Zenon
    <2> QED
      BY <2>1, <2>2, <2>3, Zenon DEF Settled
  <1> QED
    BY SerialCorrect, <1>1, PTL

\* Between calls every tunnel was last told the state getState gives for it.
THEOREM ReportedCorrect == ASSUME Serialised PROVE Spec => []ReportedExact
  <1>1. LocalInv /\ SerialInv => ReportedExact
    BY Values DEF SerialInv, ReportedExact, Settled, Told, Empty, getState
  <1> QED
    BY SerialCorrect, <1>1, PTL

\* A failed attempt to raise another tunnel, when the original one could be
\* raised again, ends with it running as before.
THEOREM RestoreCorrect == ASSUME Serialised PROVE Spec => []FailureRestores
  <1>1. LocalInv /\ SerialInv => FailureRestores
    <2> SUFFICES ASSUME LocalInv, SerialInv, NEW p \in Callers,
                        pc[p] = "return", phase[p] = "restore"
                 PROVE  /\ currentTunnel = orig[p].tunnel
                        /\ currentConfig = orig[p].config
                        /\ Open = {orig[p]}
                        /\ reported[currentTunnel] = "UP"
      BY Zenon DEF FailureRestores
    <2>1. Full(orig[p]) /\ Settled
      BY Zenon DEF SerialInv, CallerInv
    <2>2. /\ orig[p] = Current
          /\ currentTunnel = orig[p].tunnel
          /\ currentConfig = orig[p].config
      BY <2>1 DEF Full, Current
    <2>3. Open = {orig[p]}
      BY <2>1, Values DEF Full, Only, Open
    <2>4. currentTunnel \in Tunnels /\ currentTunnel # None
      BY <2>1, <2>2, Values, Zenon DEF Full
    <2> QED
      BY <2>1, <2>2, <2>3, <2>4, Zenon DEF Settled, Empty, Told
  <1> QED
    BY SerialCorrect, <1>1, PTL

\* The devices of a serialised GoBackend implement AbstractBackend.
THEOREM ImplementsAbstract == ASSUME Serialised PROVE Spec => AbstractSpec
  <1>1. Init => Abstract!Init
    BY DEF Init, Abstract!Init, Open
  <1>2. LocalInv /\ SerialInv /\ [Next]_vars => [Abstract!Next]_(Open \cup lost)
    <2> SUFFICES ASSUME LocalInv, SerialInv, [Next]_vars
                 PROVE  Abstract!Next \/ UNCHANGED (Open \cup lost)
      BY Zenon
    <2> USE DEF fields, devices, locals, system, main
    <2>0. lost = {} /\ TypeOK
      BY Zenon DEF SerialInv, LocalInv
    <2>1. ASSUME UNCHANGED devices PROVE UNCHANGED (Open \cup lost)
      BY <2>1, Zenon DEF Open
    <2>2. ASSUME NEW h, wgTurnOff(h), UNCHANGED lost,
                 \A k \in Handles : k # h => tunnelHandles[k] = Nothing
          PROVE  Abstract!Lower \/ UNCHANGED (Open \cup lost)
      <3>1. (Open \cup lost)' = {}
        BY <2>0, <2>2, Zenon DEF wgTurnOff, Open
      <3> QED
        BY <3>1, Zenon DEF Abstract!Lower
    <2>3. ASSUME NEW p \in Callers, TurnOff(p) PROVE Abstract!Lower \/ UNCHANGED (Open \cup lost)
      <3>1. \A k \in Handles : k # slot[p] => tunnelHandles[k] = Nothing
        BY <2>3, Zenon DEF TurnOff, SerialInv, CallerInv
      <3> QED
        BY <2>2, <2>3, <3>1, Zenon DEF TurnOff
    <2>4. CASE DestroyTurnOff
      <3>1. \A k \in Handles : k # currentTunnelHandle => tunnelHandles[k] = Nothing
        BY <2>4, Zenon DEF DestroyTurnOff, SerialInv, MainInv, Settled, Empty, NoDevice, Full, Only
      <3> QED
        BY <2>2, <2>4, <3>1, Zenon DEF DestroyTurnOff, Abstract!Next
    <2>5. ASSUME NEW p \in Callers, Insert(p) PROVE Abstract!Raise
      <3>1. Empty /\ Arg(p) \in Running /\ slot[p] \in Handles
        BY <2>5, Zenon DEF Insert, SerialInv, CallerInv, LocalInv, LocalsOK, Raising, Prepared
      <3>2. Open \cup lost = {}
        BY <2>0, <3>1, Zenon DEF Empty, NoDevice, Open
      <3>3. lost' = {}
        BY <2>0, <2>5, <3>1, Zenon DEF Insert, Empty, NoDevice
      <3>4. \A k \in Handles : tunnelHandles'[k] = IF k = slot[p] THEN Arg(p) ELSE Nothing
        BY <2>0, <2>5, <3>1, Zenon DEF Insert, TypeOK, Empty, NoDevice
      <3>5. (Open \cup lost)' = {Arg(p)}
        BY <3>1, <3>3, <3>4, Values DEF Open
      <3> QED
        BY <3>1, <3>2, <3>5, Zenon DEF Abstract!Raise, Abstract!Pairs, Running
    <2>6. ASSUME NEW p \in Callers, Step(p), ~TurnOff(p), ~Insert(p) PROVE UNCHANGED devices
      BY <2>6, Zenon DEF Step, Return, Throw, Down, StopSelf, DownReport, PrepareFails, Prepare, Get,
         Await, AwaitTimeout, Own, Resolve, ResolveFails, EstablishFails, Establish,
         TurnOnFails, TurnOn, Assign, UpReport
    <2>7. ASSUME Lifecycle, ~DestroyTurnOff PROVE UNCHANGED devices
      BY <2>7, Zenon DEF Lifecycle, Destroying, SystemStart, Revoke, Unbind, BringDown, OnCreate,
         OnDestroy, DestroyClear, DestroyReport, DestroyRenew
    <2>8. ASSUME NEW p \in Callers, NEW t \in Tunnels,
                 NEW state \in {"UP", "DOWN", "TOGGLE"}, NEW c \in Configs \cup {None},
                 SetState(p, t, state, c)
          PROVE  UNCHANGED devices
      BY <2>8, Zenon DEF SetState
    <2>9. UNCHANGED vars => UNCHANGED devices
      BY Zenon DEF vars
    <2> HIDE DEF fields, devices, locals, system, main
    <2> QED
      BY <2>1, <2>3, <2>4, <2>5, <2>6, <2>7, <2>8, <2>9, Zenon DEF Next, Abstract!Next
  <1> QED
    BY SerialCorrect, <1>1, <1>2, PTL DEF Spec, AbstractSpec, Abstract!Spec

=============================================================================
