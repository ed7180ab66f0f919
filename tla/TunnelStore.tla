----------------------------- MODULE TunnelStore -----------------------------
(***************************************************************************)
(* What the persistent store of tunnels promises (ConfigStore.kt): a       *)
(* configuration per name, changed one name at a time, where neither       *)
(* creating nor renaming ever replaces a configuration that is there.      *)
(***************************************************************************)
CONSTANTS Names, Configs, None

VARIABLE store

Init == store = [n \in Names |-> None]

Create(n, c) == store[n] = None /\ store' = [store EXCEPT ![n] = c]

Save(n, c) == store[n] # None /\ store' = [store EXCEPT ![n] = c]

\* Also what is left of a save that was interrupted.
Delete(n) == store[n] # None /\ store' = [store EXCEPT ![n] = None]

Rename(n, m) ==
    /\ store[n] # None
    /\ store[m] = None
    /\ store' = [store EXCEPT ![n] = None, ![m] = store[n]]

Next ==
    \/ \E n \in Names, c \in Configs : Create(n, c) \/ Save(n, c)
    \/ \E n \in Names : Delete(n)
    \/ \E n, m \in Names : Rename(n, m)

Spec == Init /\ [][Next]_store

=============================================================================
