------------------------------ MODULE GoBackend ------------------------------
(***************************************************************************)
(* The userspace backend: GoBackend.java, its inner VpnService, and the    *)
(* handle table of libwg-go (api-android.go).                              *)
(*                                                                         *)
(* Callers are the Dispatchers.IO threads that TunnelManager runs          *)
(* Backend.setState on.  GoBackend takes no lock, so a call is a sequence  *)
(* of steps that interleave with other calls and with the main thread,     *)
(* which runs the lifecycle callbacks of the VpnService.  The Android      *)
(* service manager is external: `svc`, `started` and `bound` model what    *)
(* the code relies on (startService, stopSelf, the binding the system      *)
(* holds while a VPN interface exists).                                    *)
(*                                                                         *)
(* One step reads or writes what a few adjacent lines do without a call in *)
(* between: the tests at the head of setState, the three assignments that  *)
(* clear the fields, the two that set them.                                *)
(***************************************************************************)
EXTENDS Integers

CONSTANTS
    Tunnels,      \* Tunnel objects, compared by reference
    Configs,      \* Config objects, compared by reference
    None,         \* null
    Callers,      \* threads that call setState
    MaxHandles,   \* size of libwg-go's handle space (math.MaxInt32)
    DnsRetries,   \* DNS_RESOLUTION_RETRIES
    Serialised    \* TRUE: the environment overlaps neither two calls of
                  \* setState nor a call and VpnService.onDestroy

ASSUME GoBackendAssumption ==
    /\ None \notin Tunnels \cup Configs
    /\ MaxHandles \in Nat \ {0}
    /\ DnsRetries \in Nat \ {0}
    /\ Serialised \in BOOLEAN

Handles == 0..(MaxHandles - 1)
Running == [tunnel: Tunnels, config: Configs]
Nothing == [tunnel |-> None, config |-> None]
Phases == {"none", "stop", "clear", "up", "restore"}
Labels == {"idle", "down", "turnOff", "stopSelf", "downReport", "prepare", "get", "await",
           "own", "resolve", "establish", "turnOn", "insert", "assign", "upReport",
           "throw", "return"}
Request == [tunnel: Tunnels \cup {None}, config: Configs \cup {None}]

VARIABLES
    currentTunnel, currentConfig, currentTunnelHandle,  \* GoBackend's fields
    tunnelHandles,  \* libwg-go: handle -> the device behind it, or Nothing
    lost,           \* devices that run but whose table entry was overwritten
    reported,       \* last state handed to each Tunnel's onStateChange
    pc, phase,      \* per caller: next step; which setStateInternal it is in
    want, orig,     \* per caller: the request; originalTunnel/originalConfig
    service,        \* per caller: the VpnService instance it holds
    tries, slot,    \* per caller: DNS attempts; a handle in a local variable
    svc, started, bound,  \* external: the service record of the system
    owner,          \* the live VpnService instance has its owner set
    futureDone,     \* the static future `vpnService` is completed
    mainPc, victim  \* the main thread inside VpnService.onDestroy

fields == <<currentTunnel, currentConfig, currentTunnelHandle>>
devices == <<tunnelHandles, lost>>
locals == <<phase, want, orig, service, tries, slot>>
system == <<svc, started, bound, owner, futureDone>>
main == <<mainPc, victim>>
vars == <<fields, devices, reported, pc, locals, system, main>>

\* The fields of GoBackend, the handles of libwg-go and the locals of each call
\* (setStateInternal) keep their types; no more than DnsRetries tries are made.
TypeOK ==
    /\ currentTunnel \in Tunnels \cup {None}
    /\ currentConfig \in Configs \cup {None}
    /\ currentTunnelHandle \in Handles \cup {-1}
    /\ tunnelHandles \in [Handles -> Running \cup {Nothing}]
    /\ lost \subseteq Running
    /\ reported \in [Tunnels -> {"UP", "DOWN"}]
    /\ pc \in [Callers -> Labels]
    /\ phase \in [Callers -> Phases]
    /\ want \in [Callers -> Request]
    /\ orig \in [Callers -> Request]
    /\ service \in [Callers -> {"none", "current", "gone"}]
    /\ tries \in [Callers -> 0..(DnsRetries - 1)]
    /\ slot \in [Callers -> Handles \cup {-1}]
    /\ svc \in {"absent", "live", "stopping"}
    /\ started \in BOOLEAN
    /\ bound \in BOOLEAN
    /\ owner \in BOOLEAN
    /\ futureDone \in BOOLEAN
    /\ mainPc \in {"idle", "off", "clear", "report", "renew"}
    /\ victim \in Tunnels \cup {None}

Init ==
    /\ currentTunnel = None
    /\ currentConfig = None
    /\ currentTunnelHandle = -1
    /\ tunnelHandles = [h \in Handles |-> Nothing]
    /\ lost = {}
    /\ reported = [t \in Tunnels |-> "DOWN"]
    /\ pc = [p \in Callers |-> "idle"]
    /\ phase = [p \in Callers |-> "none"]
    /\ want = [p \in Callers |-> Nothing]
    /\ orig = [p \in Callers |-> Nothing]
    /\ service = [p \in Callers |-> "none"]
    /\ tries = [p \in Callers |-> 0]
    /\ slot = [p \in Callers |-> -1]
    /\ svc = "absent"
    /\ started = FALSE
    /\ bound = FALSE
    /\ owner = FALSE
    /\ futureDone = FALSE
    /\ mainPc = "idle"
    /\ victim = None

-----------------------------------------------------------------------------
(* Helpers *)

getState(t) == IF currentTunnel = t THEN "UP" ELSE "DOWN"

getRunningTunnelNames == {currentTunnel} \ {None}

\* The state that setState works towards once TOGGLE is resolved.
Target(t, state) ==
    IF state = "TOGGLE"
    THEN (IF getState(t) = "UP" THEN "DOWN" ELSE "UP")
    ELSE state

Quiet == mainPc = "idle" /\ \A q \in Callers : pc[q] = "idle"

\* Mutant: the restoring call is handed the new configuration.
ArgRestoresRequest(p) ==
    CASE phase[p] = "clear" -> orig[p]
      [] phase[p] = "restore" -> [tunnel |-> orig[p].tunnel, config |-> want[p].config]
      [] OTHER -> want[p]

\* The (tunnel, config) arguments of the setStateInternal p is executing.
Arg(p) == IF phase[p] \in {"clear", "restore"} THEN orig[p] ELSE want[p]

Goto(p, label) == pc' = [pc EXCEPT ![p] = label]

\* setStateInternal returns: lowering the old tunnel is followed by raising
\* the requested one, everything else ends the call.
Continue(p) ==
    \/ phase[p] = "clear" /\ Goto(p, "prepare") /\ phase' = [phase EXCEPT ![p] = "up"]
    \/ phase[p] # "clear" /\ Goto(p, "return") /\ UNCHANGED phase

\* wgTurnOff: a handle that is not in the table is ignored.
wgTurnOff(h) ==
    tunnelHandles' = [k \in Handles |-> IF k = h THEN Nothing ELSE tunnelHandles[k]]

LowestFree(h) ==
    /\ tunnelHandles[h] = Nothing
    /\ \A k \in Handles : k < h => tunnelHandles[k] # Nothing

Forget(p) ==
    /\ phase' = [phase EXCEPT ![p] = "none"]
    /\ want' = [want EXCEPT ![p] = Nothing]
    /\ orig' = [orig EXCEPT ![p] = Nothing]
    /\ service' = [service EXCEPT ![p] = "none"]
    /\ tries' = [tries EXCEPT ![p] = 0]
    /\ slot' = [slot EXCEPT ![p] = -1]

-----------------------------------------------------------------------------
(* setState: a request that is already satisfied, or DOWN for a tunnel     *)
(* that is not the current one, returns at once and changes nothing.       *)

SetState(p, t, state, c) ==
    /\ pc[p] = "idle"
    /\ Serialised => Quiet
    /\ want' = [want EXCEPT ![p] = [tunnel |-> t, config |-> c]]
    /\ \/ /\ Target(t, state) = "UP"
          /\ ~(t = currentTunnel /\ c = currentConfig)
          /\ orig' = [orig EXCEPT ![p] = [tunnel |-> currentTunnel, config |-> currentConfig]]
          /\ \/ /\ currentTunnel = None
                /\ Goto(p, "prepare")
                /\ phase' = [phase EXCEPT ![p] = "up"]
             \/ /\ currentTunnel # None
                /\ Goto(p, "down")
                /\ phase' = [phase EXCEPT ![p] = "clear"]
       \/ /\ Target(t, state) = "DOWN"
          /\ t = currentTunnel
          /\ Goto(p, "down")
          /\ phase' = [phase EXCEPT ![p] = "stop"]
          /\ UNCHANGED orig
    /\ UNCHANGED <<fields, devices, reported, service, tries, slot, system, main>>

Return(p) ==
    /\ pc[p] = "return"
    /\ Goto(p, "idle")
    /\ Forget(p)
    /\ UNCHANGED <<fields, devices, reported, system, main>>

\* An exception out of setStateInternal: the first one makes setState raise
\* the original tunnel again, one during that attempt leaves setState.
Throw(p) ==
    /\ pc[p] = "throw"
    /\ \/ /\ phase[p] = "up" /\ orig[p].tunnel # None
          /\ Goto(p, "prepare")
          /\ phase' = [phase EXCEPT ![p] = "restore"]
          /\ service' = [service EXCEPT ![p] = "none"]
          /\ tries' = [tries EXCEPT ![p] = 0]
          /\ slot' = [slot EXCEPT ![p] = -1]
          /\ UNCHANGED <<want, orig>>
       \/ /\ ~(phase[p] = "up" /\ orig[p].tunnel # None)
          /\ Goto(p, "idle")
          /\ Forget(p)
    /\ UNCHANGED <<fields, devices, reported, system, main>>

-----------------------------------------------------------------------------
(* setStateInternal(tunnel, null, DOWN) *)

\* Mutant: lowering a tunnel leaves its handle in the field.
DownKeepsHandle(p) ==
    /\ pc[p] = "down"
    /\ \/ currentTunnelHandle = -1 /\ Continue(p) /\ UNCHANGED <<fields, slot>>
       \/ /\ currentTunnelHandle # -1
          /\ slot' = [slot EXCEPT ![p] = currentTunnelHandle]
          /\ currentTunnel' = None
          /\ currentConfig' = None
          /\ Goto(p, "turnOff")
          /\ UNCHANGED <<phase, currentTunnelHandle>>
    /\ UNCHANGED <<devices, reported, want, orig, service, tries, system, main>>

Down(p) ==
    /\ pc[p] = "down"
    /\ \/ currentTunnelHandle = -1 /\ Continue(p) /\ UNCHANGED <<fields, slot>>
       \/ /\ currentTunnelHandle # -1
          /\ slot' = [slot EXCEPT ![p] = currentTunnelHandle]
          /\ currentTunnel' = None
          /\ currentTunnelHandle' = -1
          /\ currentConfig' = None
          /\ Goto(p, "turnOff")
          /\ UNCHANGED phase
    /\ UNCHANGED <<devices, reported, want, orig, service, tries, system, main>>

\* Mutant: the handle is dropped without turning the device off.
TurnOffForgotten(p) ==
    /\ pc[p] = "turnOff"
    /\ slot' = [slot EXCEPT ![p] = -1]
    /\ Goto(p, "stopSelf")
    /\ UNCHANGED <<fields, devices, reported, phase, want, orig, service, tries, system, main>>

TurnOff(p) ==
    /\ pc[p] = "turnOff"
    /\ wgTurnOff(slot[p])
    /\ slot' = [slot EXCEPT ![p] = -1]
    /\ Goto(p, "stopSelf")
    /\ UNCHANGED <<fields, lost, reported, phase, want, orig, service, tries, system, main>>

StopSelf(p) ==
    /\ pc[p] = "stopSelf"
    /\ started' = (started /\ ~(futureDone /\ svc = "live"))
    /\ Goto(p, "downReport")
    /\ UNCHANGED <<fields, devices, reported, locals, svc, bound, owner, futureDone, main>>

DownReport(p) ==
    /\ pc[p] = "downReport"
    /\ reported' = [reported EXCEPT ![Arg(p).tunnel] = "DOWN"]
    /\ Continue(p)
    /\ UNCHANGED <<fields, devices, want, orig, service, tries, slot, system, main>>

-----------------------------------------------------------------------------
(* setStateInternal(tunnel, config, UP) *)

\* Missing configuration, or no VPN consent from the user.
PrepareFails(p) ==
    /\ pc[p] = "prepare"
    /\ Goto(p, "throw")
    /\ UNCHANGED <<fields, devices, reported, locals, system, main>>

Prepare(p) ==
    /\ pc[p] = "prepare"
    /\ Arg(p).config # None
    /\ started' = (started \/ ~futureDone)
    /\ Goto(p, "get")
    /\ UNCHANGED <<fields, devices, reported, locals, svc, bound, owner, futureDone, main>>

\* vpnService.get reads the static field a second time.
Get(p) ==
    /\ pc[p] = "get"
    /\ \/ futureDone /\ Goto(p, "own") /\ service' = [service EXCEPT ![p] = "current"]
       \/ ~futureDone /\ Goto(p, "await") /\ UNCHANGED service
    /\ UNCHANGED <<fields, devices, reported, phase, want, orig, tries, slot, system, main>>

Await(p) ==
    /\ pc[p] = "await"
    /\ service[p] # "none"
    /\ Goto(p, "own")
    /\ UNCHANGED <<fields, devices, reported, locals, system, main>>

\* Mutant: the future is awaited without a timeout.
AwaitForever(p) == pc[p] = "await" /\ FALSE /\ UNCHANGED vars

AwaitTimeout(p) ==
    /\ pc[p] = "await"
    /\ service[p] = "none"
    /\ Goto(p, "throw")
    /\ UNCHANGED <<fields, devices, reported, locals, system, main>>

Own(p) ==
    /\ pc[p] = "own"
    /\ owner' = (owner \/ service[p] = "current")
    /\ \/ currentTunnelHandle # -1 /\ Continue(p)
       \/ currentTunnelHandle = -1 /\ Goto(p, "resolve") /\ UNCHANGED phase
    /\ UNCHANGED <<fields, devices, reported, want, orig, service, tries, slot,
                   svc, started, bound, futureDone, main>>

Resolve(p) ==
    /\ pc[p] = "resolve"
    /\ Goto(p, "establish")
    /\ UNCHANGED <<fields, devices, reported, locals, system, main>>

\* Mutant: the last attempt is retried too.
ResolveFailsRetriesLast(p) ==
    /\ pc[p] = "resolve"
    /\ \/ tries[p] <= DnsRetries - 1 /\ tries' = [tries EXCEPT ![p] = @ + 1] /\ UNCHANGED pc
       \/ tries[p] > DnsRetries - 1 /\ Goto(p, "throw") /\ UNCHANGED tries
    /\ UNCHANGED <<fields, devices, reported, phase, want, orig, service, slot, system, main>>

\* An endpoint does not resolve: sleep and try again, or give up.
ResolveFails(p) ==
    /\ pc[p] = "resolve"
    /\ \/ tries[p] < DnsRetries - 1 /\ tries' = [tries EXCEPT ![p] = @ + 1] /\ UNCHANGED pc
       \/ tries[p] >= DnsRetries - 1 /\ Goto(p, "throw") /\ UNCHANGED tries
    /\ UNCHANGED <<fields, devices, reported, phase, want, orig, service, slot, system, main>>

\* The builder rejects the configuration or establish() returns null.
EstablishFails(p) ==
    /\ pc[p] = "establish"
    /\ Goto(p, "throw")
    /\ UNCHANGED <<fields, devices, reported, locals, system, main>>

\* A new VPN interface exists; the system binds to the service.
Establish(p) ==
    /\ pc[p] = "establish"
    /\ bound' = TRUE
    /\ Goto(p, "turnOn")
    /\ UNCHANGED <<fields, devices, reported, locals, svc, started, owner, futureDone, main>>

\* wgTurnOn returns -1: the device could not be made, or no handle is free.
TurnOnFails(p) ==
    /\ pc[p] = "turnOn"
    /\ currentTunnelHandle' = -1
    /\ Goto(p, "throw")
    /\ UNCHANGED <<currentTunnel, currentConfig, devices, reported, locals, system, main>>

\* wgTurnOn looks for the lowest unused handle ...
TurnOn(p) ==
    /\ pc[p] = "turnOn"
    /\ \E h \in Handles :
          /\ LowestFree(h)
          /\ slot' = [slot EXCEPT ![p] = h]
    /\ Goto(p, "insert")
    /\ UNCHANGED <<fields, devices, reported, phase, want, orig, service, tries, system, main>>

\* ... and enters the device there; its result becomes currentTunnelHandle.
Insert(p) ==
    /\ pc[p] = "insert"
    /\ lost' = lost \cup ({tunnelHandles[slot[p]]} \ {Nothing})
    /\ tunnelHandles' = [tunnelHandles EXCEPT ![slot[p]] = Arg(p)]
    /\ currentTunnelHandle' = slot[p]
    /\ Goto(p, "assign")
    /\ UNCHANGED <<currentTunnel, currentConfig, reported, locals, system, main>>

Assign(p) ==
    /\ pc[p] = "assign"
    /\ \/ /\ currentTunnelHandle < 0
          /\ Goto(p, "throw")
          /\ UNCHANGED <<currentTunnel, currentConfig>>
       \/ /\ currentTunnelHandle >= 0
          /\ currentTunnel' = Arg(p).tunnel
          /\ currentConfig' = Arg(p).config
          /\ Goto(p, "upReport")
    /\ UNCHANGED <<currentTunnelHandle, devices, reported, locals, system, main>>

UpReport(p) ==
    /\ pc[p] = "upReport"
    /\ reported' = [reported EXCEPT ![Arg(p).tunnel] = "UP"]
    /\ Continue(p)
    /\ UNCHANGED <<fields, devices, want, orig, service, tries, slot, system, main>>

-----------------------------------------------------------------------------
(* The service's lifecycle.  The first four actions are the Android system. *)

\* Always-on VPN starts the service by itself.
SystemStart ==
    /\ ~started
    /\ started' = TRUE
    /\ UNCHANGED <<fields, devices, reported, pc, locals, svc, bound, owner, futureDone, main>>

\* The user or another VPN app takes the VPN away: the system drops its
\* binding and calls onRevoke, which is not overridden and stops the service.
Revoke ==
    /\ svc = "live"
    /\ started \/ bound
    /\ started' = FALSE
    /\ bound' = FALSE
    /\ UNCHANGED <<fields, devices, reported, pc, locals, svc, owner, futureDone, main>>

\* The system releases its binding some time after the last interface closed.
Unbind ==
    /\ bound
    /\ lost = {}
    /\ \A h \in Handles : tunnelHandles[h] = Nothing
    /\ \A p \in Callers : pc[p] \notin {"turnOn", "insert"}
    /\ bound' = FALSE
    /\ UNCHANGED <<fields, devices, reported, pc, locals, svc, started, owner, futureDone, main>>

\* A service that is neither started nor bound will be destroyed: onDestroy
\* is queued on the main thread, and nothing takes it back.
BringDown ==
    /\ svc = "live"
    /\ ~started
    /\ ~bound
    /\ svc' = "stopping"
    /\ UNCHANGED <<fields, devices, reported, pc, locals, started, bound, owner, futureDone, main>>

\* VpnService.onCreate, and onStartCommand right after it, complete the
\* future; a caller that waits on it gets the new instance.
OnCreate ==
    /\ svc = "absent"
    /\ started \/ bound
    /\ svc' = "live"
    /\ futureDone' = TRUE
    /\ service' = [p \in Callers |-> IF pc[p] = "await" /\ service[p] = "none"
                                     THEN "current" ELSE service[p]]
    /\ UNCHANGED <<fields, devices, reported, pc, phase, want, orig, tries, slot,
                   started, bound, owner, main>>

\* VpnService.onDestroy, one step per access to the owner's fields.
OnDestroy ==
    /\ svc = "stopping"
    /\ mainPc = "idle"
    /\ Serialised => Quiet
    /\ \/ owner /\ currentTunnel # None /\ mainPc' = "off" /\ victim' = currentTunnel
       \/ ~(owner /\ currentTunnel # None) /\ mainPc' = "renew" /\ UNCHANGED victim
    /\ UNCHANGED <<fields, devices, reported, pc, locals, system>>

\* Mutant: onDestroy clears the fields but leaves the device on.
DestroyLeavesDevice ==
    /\ mainPc = "off"
    /\ mainPc' = "clear"
    /\ UNCHANGED <<fields, devices, reported, pc, locals, system, victim>>

DestroyTurnOff ==
    /\ mainPc = "off"
    /\ wgTurnOff(currentTunnelHandle)
    /\ mainPc' = "clear"
    /\ UNCHANGED <<fields, lost, reported, pc, locals, system, victim>>

\* Mutant: onDestroy forgets to clear currentTunnel.
DestroyKeepsTunnel ==
    /\ mainPc = "clear"
    /\ currentTunnelHandle' = -1
    /\ currentConfig' = None
    /\ mainPc' = "report"
    /\ UNCHANGED <<currentTunnel, devices, reported, pc, locals, system, victim>>

DestroyClear ==
    /\ mainPc = "clear"
    /\ currentTunnel' = None
    /\ currentTunnelHandle' = -1
    /\ currentConfig' = None
    /\ mainPc' = "report"
    /\ UNCHANGED <<devices, reported, pc, locals, system, victim>>

\* Mutant: the tunnel is not told that the service took it down.
DestroySilently ==
    /\ mainPc = "report"
    /\ mainPc' = "renew"
    /\ victim' = None
    /\ UNCHANGED <<fields, devices, reported, pc, locals, system>>

DestroyReport ==
    /\ mainPc = "report"
    /\ reported' = [reported EXCEPT ![victim] = "DOWN"]
    /\ mainPc' = "renew"
    /\ victim' = None
    /\ UNCHANGED <<fields, devices, pc, locals, system>>

\* The static future is replaced; who holds the old instance keeps it.
DestroyRenew ==
    /\ mainPc = "renew"
    /\ futureDone' = FALSE
    /\ svc' = "absent"
    /\ owner' = FALSE
    /\ service' = [p \in Callers |-> IF service[p] = "current" THEN "gone" ELSE service[p]]
    /\ mainPc' = "idle"
    /\ UNCHANGED <<fields, devices, reported, pc, phase, want, orig, tries, slot,
                   started, bound, victim>>

-----------------------------------------------------------------------------

Step(p) ==
    \/ Return(p) \/ Throw(p)
    \/ Down(p) \/ TurnOff(p) \/ StopSelf(p) \/ DownReport(p)
    \/ PrepareFails(p) \/ Prepare(p) \/ Get(p) \/ Await(p) \/ AwaitTimeout(p)
    \/ Own(p) \/ Resolve(p) \/ ResolveFails(p)
    \/ EstablishFails(p) \/ Establish(p) \/ TurnOnFails(p) \/ TurnOn(p)
    \/ Insert(p) \/ Assign(p) \/ UpReport(p)

Destroying == DestroyTurnOff \/ DestroyClear \/ DestroyReport \/ DestroyRenew

Lifecycle ==
    \/ SystemStart \/ Revoke \/ Unbind \/ BringDown
    \/ OnCreate \/ OnDestroy \/ Destroying

Next ==
    \/ \E p \in Callers, t \in Tunnels, state \in {"UP", "DOWN", "TOGGLE"},
          c \in Configs \cup {None} : SetState(p, t, state, c)
    \/ \E p \in Callers : Step(p)
    \/ Lifecycle

Spec == Init /\ [][Next]_vars

\* Threads run, the main thread finishes a callback it has begun, and the
\* 2 second and 1 second waits end.  No call is ever obliged to be made and
\* the system is not obliged to create the service.
FairSpec ==
    /\ Spec
    /\ \A p \in Callers : WF_vars(Step(p))
    /\ WF_vars(Destroying)

-----------------------------------------------------------------------------
(* Properties *)

Open == {tunnelHandles[h] : h \in Handles} \ {Nothing}

\* At every instant at most one device exists and none has lost its handle:
\* setState turns the old tunnel off before it turns the new one on, and the
\* restoring attempt comes after the failed one has left nothing behind.
OneDevice ==
    /\ lost = {}
    /\ \A h, k \in Handles : tunnelHandles[h] # Nothing /\ tunnelHandles[k] # Nothing => h = k

\* Between calls, what getRunningTunnelNames enumerates is what really runs:
\* an open device is the one the fields name, with the configuration they
\* name, and a current tunnel has its device.  Backend.java: "Enumerate
\* names of currently-running tunnels."
NamesExact ==
    Quiet => /\ {r.tunnel : r \in Open \cup lost} = getRunningTunnelNames
             /\ currentTunnel # None =>
                   /\ currentTunnelHandle # -1
                   /\ tunnelHandles[currentTunnelHandle]
                         = [tunnel |-> currentTunnel, config |-> currentConfig]

\* Between calls, the last state each Tunnel was told through onStateChange
\* is the state getState gives, although several paths of setStateInternal
\* return without calling it and onDestroy calls it from another thread.
ReportedExact == Quiet => \A t \in Tunnels : reported[t] = getState(t)

\* When raising a tunnel failed and the original one was raised again, it
\* runs with its original configuration by the time setState rethrows.
FailureRestores ==
    \A p \in Callers :
        pc[p] = "return" /\ phase[p] = "restore" =>
            /\ currentTunnel = orig[p].tunnel
            /\ currentConfig = orig[p].config
            /\ Open = {orig[p]}
            /\ reported[currentTunnel] = "UP"

\* However calls and onDestroy interleave, a handle is never left in the
\* fields without a tunnel beside it, except by a caller about to assign it.
\* Such a handle would be stuck: DOWN reaches it only through currentTunnel,
\* and every UP would return at "Tunnel already up".
NoStuckHandle ==
    currentTunnelHandle # -1 /\ currentTunnel = None =>
        \E p \in Callers : pc[p] = "assign"

\* Every call of setState ends, whatever fails and however calls and service
\* callbacks interleave: the wait for the service has a timeout, the DNS
\* attempts are counted and the original tunnel is restored at most once.
CallsReturn == \A p \in Callers : (pc[p] # "idle") ~> (pc[p] = "idle")

\* The devices implement AbstractBackend: stop before start, one at a time.
Abstract == INSTANCE AbstractBackend WITH running <- Open \cup lost

AbstractSpec == Abstract!Spec

=============================================================================
