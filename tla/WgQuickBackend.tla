---------------------------- MODULE WgQuickBackend ----------------------------
(***************************************************************************)
(* WgQuickBackend: setState by means of wg-quick in a root shell.  The     *)
(* interfaces belong to the kernel and outlive the app's process, what the *)
(* backend remembers of them (runningConfigs) does not.                    *)
(*                                                                         *)
(* RootShell.run is one step: it holds a lock while the command runs.  The *)
(* temporary file, the command and the bookkeeping are separate steps.     *)
(***************************************************************************)
EXTENDS Naturals, FiniteSets

CONSTANTS
    Tunnels, Configs, None,
    Calls,       \* calls of setState that can be in progress
    Serialised,  \* TRUE: one call at a time
    Restarts,    \* TRUE: the process can be restarted
    Faults       \* TRUE: the root shell can be denied or die, and wg-quick fail halfway

ASSUME WgQuickAssumption ==
    /\ None \notin Tunnels \cup Configs
    /\ {Serialised, Restarts, Faults} \subseteq BOOLEAN

VARIABLES
    interfaces,      \* kernel: the configuration of each interface, or None
    temp,            \* <tunnel>.conf in localTemporaryDir, or None
    runningConfigs,  \* the backend's map: the configuration or None
    multipleTunnels,
    told,            \* the state each tunnel was last told
    call,
    calm             \* no restart and no fault so far

vars == <<interfaces, temp, runningConfigs, multipleTunnels, told, call, calm>>

Empty == [t \in Tunnels |-> None]
Up(f) == {t \in Tunnels : f[t] # None}

\* phase: the call of setStateInternal in setState that is being executed;
\* todo: what is left of the loop it is in; rewind: what the first loop has
\* lowered; step: where setStateInternal is, for the tunnel cur.
Idle == [phase |-> "idle", tunnel |-> None, state |-> "DOWN", config |-> None, up |-> FALSE,
         originalConfig |-> None, snapshot |-> Empty, todo |-> {}, rewind |-> {},
         cur |-> None, step |-> "pick", broken |-> FALSE]

\* What WgQuickBackend, the kernel and the temporary files hold; a loop of
\* setState that is entered has a tunnel left to work on.
TypeOK ==
    /\ interfaces \in [Tunnels -> Configs \cup {None}]
    /\ temp \in [Tunnels -> Configs \cup {None}]
    /\ runningConfigs \in [Tunnels -> Configs \cup {None}]
    /\ multipleTunnels \in BOOLEAN /\ calm \in BOOLEAN
    /\ told \in [Tunnels -> {"UP", "DOWN"}]
    /\ \A i \in Calls :
          /\ call[i].phase \in {"idle", "lower", "rewind", "self", "raise", "undoSelf", "undo", "down", "returned", "thrown"}
          /\ call[i].todo \cup call[i].rewind \subseteq Tunnels
          /\ call[i].phase \in {"lower", "rewind", "undo"} => call[i].todo # {} /\ call[i].todo \subseteq Up(call[i].snapshot)
          /\ call[i].step # "pick" => call[i].cur \in Tunnels

Init ==
    /\ interfaces = Empty
    /\ temp = Empty
    /\ runningConfigs = Empty
    /\ multipleTunnels \in BOOLEAN
    /\ told = [t \in Tunnels |-> "DOWN"]
    /\ call = [i \in Calls |-> Idle]
    /\ calm = TRUE

Quiet == \A i \in Calls : call[i].phase = "idle"

-----------------------------------------------------------------------------
(* setState *)

\* getRunningTunnelNames answers the empty set when the shell fails; getState
\* asks whether the tunnel is in it.
getRunningTunnelNames == {Up(interfaces)} \cup (IF Faults THEN {{}} ELSE {})

\* The loop of a phase is skipped when it has nothing to do.
Loop(phase, todo, otherwise) == IF todo = {} THEN otherwise ELSE phase

\* The state asked for, when getState has answered up.
Target(s, up) == IF s # "TOGGLE" THEN s ELSE IF up THEN "DOWN" ELSE "UP"

\* Mutant: the map is asked, not the kernel.
AlreadyDoneInMap(t, target, c, up) ==
    \/ target = "UP" /\ c # None /\ runningConfigs[t] = c
    \/ target = "DOWN" /\ runningConfigs[t] = None

\* The early return: there is nothing to do.
AlreadyDone(t, target, c, up) ==
    \/ target = "UP" /\ up /\ c # None /\ runningConfigs[t] = c
    \/ target = "DOWN" /\ ~up

\* Mutant: every other tunnel is left as it is.
LeaveOthers(target, up) == {}

\* The tunnels that are lowered first: those the backend remembers.
ToLower(target, up) == IF target = "UP" /\ ~up /\ ~multipleTunnels THEN Up(runningConfigs) ELSE {}

\* ensureToolsAvailable can throw before anything is changed: no step.
setState(i, t, s, c) ==
    /\ call[i].phase = "idle"
    /\ Serialised => Quiet
    /\ \E names \in getRunningTunnelNames :
          LET up == t \in names
              target == Target(s, up)
          IN calm' = (calm /\ names = Up(interfaces)) /\ call' = [call EXCEPT ![i] =
                [Idle EXCEPT !.tunnel = t, !.state = target, !.config = c, !.up = up,
                             !.originalConfig = runningConfigs[t],
                             !.snapshot = runningConfigs,
                             !.todo = ToLower(target, up),
                             !.phase = CASE AlreadyDone(t, target, c, up) -> "returned"
                                         [] ~AlreadyDone(t, target, c, up) /\ target = "DOWN" -> "down"
                                         [] ~AlreadyDone(t, target, c, up) /\ target = "UP" /\ up -> "self"
                                         [] target = "UP" /\ ~up -> Loop("lower", ToLower(target, up), "raise")]]
    /\ UNCHANGED <<interfaces, temp, runningConfigs, multipleTunnels, told>>

\* The arguments of the setStateInternal that call i executes for tunnel u.
Candidates(i) == IF call[i].phase \in {"lower", "rewind", "undo"} THEN call[i].todo ELSE {call[i].tunnel}
Wanted(i) == IF call[i].phase \in {"lower", "self", "down"} THEN "DOWN" ELSE "UP"
ConfigOf(i, u) ==
    CASE call[i].phase \in {"lower", "rewind", "undo"} -> call[i].snapshot[u]
      [] call[i].phase = "raise" -> call[i].config
      [] OTHER -> IF call[i].originalConfig = None THEN call[i].config ELSE call[i].originalConfig

\* Mutant: nothing is raised again when raising the tunnel has failed.
NothingUndone(i) == "thrown"

\* The catch block around the raising; multipleTunnels is read again.
RaiseFailed(i) ==
    IF call[i].up /\ call[i].originalConfig # None THEN "undoSelf"
    ELSE IF ~multipleTunnels /\ ~call[i].up THEN Loop("undo", Up(call[i].snapshot), "thrown")
    ELSE "thrown"

\* Where setState goes when setStateInternal returns and rest is left of the loop ...
AfterReturn(i, rest) ==
    CASE call[i].phase = "lower" -> Loop("lower", rest, "raise")
      [] call[i].phase = "self" -> "raise"
      [] call[i].phase \in {"raise", "down"} -> "returned"
      [] call[i].phase \in {"rewind", "undo"} -> Loop(call[i].phase, rest, "thrown")
      [] call[i].phase = "undoSelf" -> "thrown"

Continue(i, u) ==
    LET rest == call[i].todo \ {u} IN
    call' = [call EXCEPT ![i] =
               [call[i] EXCEPT !.phase = AfterReturn(i, rest),
                               !.todo = rest,
                               !.rewind = IF call[i].phase = "lower" THEN call[i].rewind \cup {u} ELSE {},
                               !.step = "pick",
                               !.cur = None]]

\* ... and when it throws.
AfterThrow(i) ==
    CASE call[i].phase = "lower" -> Loop("rewind", call[i].rewind, "thrown")
      [] call[i].phase = "raise" -> RaiseFailed(i)
      [] OTHER -> "thrown"

Throw(i) ==
    call' = [call EXCEPT ![i] =
               [call[i] EXCEPT !.phase = AfterThrow(i),
                               !.todo = CASE AfterThrow(i) = "rewind" -> call[i].rewind
                                          [] AfterThrow(i) = "undo" -> Up(call[i].snapshot)
                                          [] OTHER -> {},
                               !.rewind = {},
                               !.step = "pick",
                               !.cur = None,
                               !.broken = call[i].phase \in {"rewind", "undo", "undoSelf"}]]

-----------------------------------------------------------------------------
(* setStateInternal *)

Active(i) == call[i].phase \notin {"idle", "returned", "thrown"}

\* requireNonNull, then the temporary file is written; both can throw.
WriteTemp(i) ==
    /\ Active(i)
    /\ call[i].step = "pick"
    /\ \E u \in Candidates(i) :
          \/ /\ ConfigOf(i, u) # None
             /\ temp' = [temp EXCEPT ![u] = ConfigOf(i, u)]
             /\ call' = [call EXCEPT ![i] = [call[i] EXCEPT !.step = "run", !.cur = u]]
          \/ Throw(i) /\ UNCHANGED temp
    /\ UNCHANGED <<interfaces, runningConfigs, multipleTunnels, told, calm>>

\* What wg-quick does to the interface of u: it refuses to add one that exists
\* and to remove one that does not, and it needs the file in both cases.
WgQuick(u, s) ==
    /\ temp[u] # None
    /\ (interfaces[u] = None) <=> (s = "UP")
    /\ interfaces' = [interfaces EXCEPT ![u] = IF s = "UP" THEN temp[u] ELSE None]

\* rootShell.run returns 0, or another status, or throws.  A failed wg-quick up
\* removes the interface it added.  With faults, wg-quick down can fail after it
\* removed the interface, and a shell can die before or after the command.
Run(i) ==
    /\ call[i].step = "run"
    /\ \/ WgQuick(call[i].cur, Wanted(i)) /\ call' = [call EXCEPT ![i] = [call[i] EXCEPT !.step = "record"]] /\ calm' = calm
       \/ UNCHANGED interfaces /\ call' = [call EXCEPT ![i] = [call[i] EXCEPT !.step = "failed"]] /\ calm' = calm
       \/ /\ Faults /\ Wanted(i) = "DOWN"
          /\ WgQuick(call[i].cur, "DOWN")
          /\ call' = [call EXCEPT ![i] = [call[i] EXCEPT !.step = "failed"]]
          /\ calm' = FALSE
       \/ Faults /\ WgQuick(call[i].cur, Wanted(i)) /\ Throw(i) /\ calm' = FALSE
       \/ Faults /\ UNCHANGED interfaces /\ Throw(i) /\ calm' = FALSE
    /\ UNCHANGED <<temp, runningConfigs, multipleTunnels, told>>

DeleteTemp(i) == temp' = [temp EXCEPT ![call[i].cur] = None]

Failed(i) ==
    /\ call[i].step = "failed"
    /\ DeleteTemp(i)
    /\ Throw(i)
    /\ UNCHANGED <<interfaces, runningConfigs, multipleTunnels, told, calm>>

\* Mutant: a tunnel that was lowered stays in the map.
RememberForever(i) ==
    LET u == call[i].cur IN
    runningConfigs' = [runningConfigs EXCEPT ![u] = IF Wanted(i) = "UP" THEN ConfigOf(i, u) ELSE @]

Remember(i) ==
    LET u == call[i].cur IN
    runningConfigs' = [runningConfigs EXCEPT ![u] = IF Wanted(i) = "UP" THEN ConfigOf(i, u) ELSE None]

Tell(i) == told' = [told EXCEPT ![call[i].cur] = Wanted(i)]

Record(i) ==
    /\ call[i].step = "record"
    /\ DeleteTemp(i)
    /\ Remember(i)
    /\ Tell(i)
    /\ Continue(i, call[i].cur)
    /\ UNCHANGED <<interfaces, multipleTunnels, calm>>

\* The caller goes on.
Finish(i) ==
    /\ call[i].phase \in {"returned", "thrown"}
    /\ call' = [call EXCEPT ![i] = Idle]
    /\ UNCHANGED <<interfaces, temp, runningConfigs, multipleTunnels, told, calm>>

-----------------------------------------------------------------------------
\* The preference is changed.
setMultipleTunnels(on) ==
    /\ multipleTunnels # on
    /\ Serialised => Quiet
    /\ multipleTunnels' = on
    /\ UNCHANGED <<interfaces, temp, runningConfigs, told, call, calm>>

\* The process dies and starts again; onTunnelsLoaded gives each tunnel the
\* state that getRunningTunnelNames answers.  A command that was running has
\* ended by then, and its temporary file may be left.
Restart ==
    /\ Restarts
    /\ runningConfigs' = Empty
    /\ call' = [i \in Calls |-> Idle]
    /\ told' = [t \in Tunnels |-> IF interfaces[t] # None THEN "UP" ELSE "DOWN"]
    /\ calm' = FALSE
    /\ UNCHANGED <<interfaces, temp, multipleTunnels>>

Next ==
    \/ \E i \in Calls :
          \/ \E t \in Tunnels, s \in {"UP", "DOWN", "TOGGLE"}, c \in Configs \cup {None} : setState(i, t, s, c)
          \/ WriteTemp(i) \/ Run(i) \/ Failed(i) \/ Record(i) \/ Finish(i)
    \/ \E on \in BOOLEAN : setMultipleTunnels(on)
    \/ Restart

Spec == Init /\ [][Next]_vars

-----------------------------------------------------------------------------
(* Properties *)

\* Until the process is restarted or the shell fails: between calls the map
\* holds exactly the interfaces that are up, with the configuration they were
\* given, whatever wg-quick refused and was undone, and every tunnel was told
\* the state its interface has (setState, setStateInternal).
MapExact ==
    calm /\ Quiet => runningConfigs = interfaces /\ \A t \in Tunnels : told[t] = "UP" <=> interfaces[t] # None

\* Until then a call that throws leaves the interfaces as it found them, unless
\* undoing failed as well: the loops that rewind and restore miss no tunnel.
FailureRestores ==
    \A i \in Calls : calm /\ call[i].phase = "thrown" /\ ~call[i].broken => interfaces = call[i].snapshot

\* "Turning on one tunnel will turn off others": when a tunnel that was down
\* has been raised with multiple tunnels off, and no other call is changing
\* anything, one tunnel is up.
TurnsOffOthers ==
    (/\ \A i \in Calls : ~Active(i)
     /\ \E i \in Calls : call[i].phase = "returned" /\ call[i].state = "UP" /\ ~call[i].up
     /\ ~multipleTunnels)
    => Cardinality(Up(interfaces)) <= 1

\* It does, as long as the process was not restarted and the shell did not
\* fail: the map that setState goes by lists every tunnel that is up.
LowersOthers == calm => TurnsOffOthers

\* Whatever failed before, in the shell or by a restart, a tunnel for which
\* setState has returned UP has its interface.
RaisedRuns ==
    \A i \in Calls : call[i].phase = "returned" /\ call[i].state = "UP" => interfaces[call[i].tunnel] # None

\* "@return The updated state of the tunnel": a tunnel for which setState has
\* returned DOWN is not running.
LoweredStopped ==
    \A i \in Calls : call[i].phase = "returned" /\ call[i].state = "DOWN" => interfaces[call[i].tunnel] = None

\* "config may be null when setting the tunnel down": no call that lowers a
\* tunnel ends because there is no configuration.
DownNeedsNoConfig ==
    \A i \in Calls : Active(i) /\ call[i].state = "DOWN" => ConfigOf(i, call[i].tunnel) # None

=============================================================================
