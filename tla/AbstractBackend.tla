--------------------------- MODULE AbstractBackend ---------------------------
(***************************************************************************)
(* What a backend that runs one tunnel at a time promises: something runs  *)
(* or nothing does, and one (tunnel, config) pair gives way to another     *)
(* only by being stopped first.                                            *)
(***************************************************************************)
CONSTANTS Tunnels, Configs

VARIABLE running   \* the set of (tunnel, config) pairs that carry traffic

Pairs == [tunnel: Tunnels, config: Configs]

Init == running = {}

Raise == running = {} /\ \E r \in Pairs : running' = {r}

Lower == running # {} /\ running' = {}

Next == Raise \/ Lower

Spec == Init /\ [][Next]_running

=============================================================================
