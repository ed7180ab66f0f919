------------------------------- MODULE WgDevice -------------------------------
(***************************************************************************)
(* A WireGuard device, the request to change it (struct wgdevice with its  *)
(* flags) and what the other side of the interface does with a request.    *)
(* A value of a request is None when its flag is not set.  An allowed IP   *)
(* belongs to one peer: who claims it last has it.                         *)
(***************************************************************************)
EXTENDS Integers, SequencesExt

CONSTANTS Keys, None

ASSUME WgDeviceAssumption == None \notin Keys /\ Keys \subseteq Nat

NoPeer == [psk |-> 0, ep |-> None, ka |-> 0, ips |-> {}, on |-> FALSE]
NewPeer == [NoPeer EXCEPT !.on = TRUE]

\* struct wgpeer and struct wgdevice, as calloc leaves them.
wgpeer == [pk |-> None, remove |-> FALSE, replace |-> FALSE, psk |-> None, ep |-> None, ka |-> None, ips |-> <<>>]
wgdevice == [key |-> None, port |-> None, mark |-> None, replace |-> FALSE, peers |-> <<>>]

\* op over a sequence, from the left (each value is computed once).
Over(op(_, _), base, s) ==
    LET acc[n \in 0..Len(s)] == IF n = 0 THEN base ELSE CHOOSE y \in {op(x, s[n]) : x \in {acc[n - 1]}} : TRUE
    IN  acc[Len(s)]

\* A sequence of sequences, one after the other.
Concat(ss) == Over(LAMBDA a, b : a \o b, <<>>, ss)

Given(new, old) == IF new = None THEN old ELSE new

SetAttrs(d, r) ==
    [d EXCEPT !.key = Given(r.key, @), !.port = Given(r.port, @), !.mark = Given(r.mark, @),
              !.peers = IF r.replace THEN [k \in Keys |-> NoPeer] ELSE @]

\* One entry of a peer's list: an IP to claim, or to give up.
SetIp(d, k, e) ==
    [d EXCEPT !.peers = [q \in Keys |->
        [d.peers[q] EXCEPT !.ips = IF q = k /\ ~ e.del THEN @ \cup {e.ip} ELSE IF q = k \/ ~ e.del THEN @ \ {e.ip} ELSE @]]]

SetHead(d, q) ==
    LET old == IF d.peers[q.pk].on THEN d.peers[q.pk] ELSE NewPeer
    IN  IF q.remove THEN [d EXCEPT !.peers[q.pk] = NoPeer]
        ELSE [d EXCEPT !.peers[q.pk] = [old EXCEPT !.psk = Given(q.psk, @), !.ep = Given(q.ep, @), !.ka = Given(q.ka, @),
                                                   !.ips = IF q.replace THEN {} ELSE @]]

SetPeer(d, q) ==
    IF q.remove THEN SetHead(d, q)
    ELSE Over(LAMBDA x, e : SetIp(x, q.pk, e), SetHead(d, q), q.ips)

\* A request as a whole.
Apply(d, r) == Over(SetPeer, SetAttrs(d, r), r.peers)

=============================================================================
