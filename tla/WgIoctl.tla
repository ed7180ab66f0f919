------------------------------- MODULE WgIoctl -------------------------------
(***************************************************************************)
(* The requests of the systems other than Linux, which take a device in    *)
(* one call: structures with flags (OpenBSD, Windows), name-value lists    *)
(* (FreeBSD), and the lines of the text protocol of the user-space         *)
(* implementations.                                                        *)
(***************************************************************************)
EXTENDS WgDevice

Or0(v) == IF v = None THEN 0 ELSE v
If(c, x) == IF c THEN {x} ELSE {}

-----------------------------------------------------------------------------
(* OpenBSD: wg_interface_io, wg_peer_io, wg_aip_io.  The calloc'ed fields  *)
(* that are not set are zero.                                              *)

PeerIo(q) ==
    [flags |-> {"PUBLIC"} \cup If(q.psk # None, "PSK") \cup If(q.ka # None, "PKA") \cup If(q.ep # None, "ENDPOINT")
                 \cup If(q.replace, "REPLACE") \cup If(q.remove, "REMOVE"),
     public |-> q.pk, psk |-> Or0(q.psk), pka |-> Or0(q.ka), endpoint |-> q.ep,
     aips |-> [k \in DOMAIN q.ips |-> [ip |-> q.ips[k].ip, remove |-> q.ips[k].del]]]

\* Signed allowed IPs are not supported: EOPNOTSUPP.
openbsd_set_device(r) ==
    IF \E k \in DOMAIN r.peers : \E j \in DOMAIN r.peers[k].ips : r.peers[k].ips[j].del THEN None
    ELSE [flags |-> If(r.key # None, "PRIVATE") \cup If(r.port # None, "PORT") \cup If(r.mark # None, "RTABLE")
                      \cup If(r.replace, "REPLACE"),
          private |-> Or0(r.key), port |-> Or0(r.port), rtable |-> Or0(r.mark),
          peers |-> [k \in DOMAIN r.peers |-> PeerIo(r.peers[k])]]

\* Windows: the same but for the mark, and signed allowed IPs are passed on.
windows_set_device(r) ==
    [flags |-> If(r.key # None, "PRIVATE") \cup If(r.port # None, "PORT") \cup If(r.replace, "REPLACE"),
     private |-> Or0(r.key), port |-> Or0(r.port), rtable |-> 0,
     peers |-> [k \in DOMAIN r.peers |-> PeerIo(r.peers[k])]]

\* What the kernel takes from the structures.
Flagged(io, f, v) == IF f \in io.flags THEN v ELSE None

FromPeerIo(io) ==
    [pk |-> io.public, remove |-> "REMOVE" \in io.flags, replace |-> "REPLACE" \in io.flags,
     psk |-> Flagged(io, "PSK", io.psk), ep |-> Flagged(io, "ENDPOINT", io.endpoint), ka |-> Flagged(io, "PKA", io.pka),
     ips |-> [k \in DOMAIN io.aips |-> [ip |-> io.aips[k].ip, del |-> io.aips[k].remove]]]

FromIo(io) ==
    [key |-> Flagged(io, "PRIVATE", io.private), port |-> Flagged(io, "PORT", io.port), mark |-> Flagged(io, "RTABLE", io.rtable),
     replace |-> "REPLACE" \in io.flags, peers |-> [k \in DOMAIN io.peers |-> FromPeerIo(io.peers[k])]]

-----------------------------------------------------------------------------
(* FreeBSD: a list has the names that were added to it. *)

nvlist(names, value) == [n \in names |-> value[n]]

AipList(e) == nvlist({"cidr", "ip"} \cup If(e.del, "flags"), [cidr |-> e.ip[2], ip |-> e.ip[1], flags |-> 1])

PeerList(q) ==
    nvlist({"public-key"} \cup If(q.psk # None, "preshared-key") \cup If(q.ka # None, "persistent-keepalive-interval")
             \cup If(q.ep # None, "endpoint") \cup If(q.replace, "replace-allowedips") \cup If(q.remove, "remove")
             \cup If(q.ips # <<>>, "allowed-ips"),
           [n \in {"public-key"} |-> q.pk] @@ [n \in {"preshared-key"} |-> q.psk]
             @@ [n \in {"persistent-keepalive-interval"} |-> q.ka] @@ [n \in {"endpoint"} |-> q.ep]
             @@ [n \in {"replace-allowedips", "remove"} |-> TRUE]
             @@ [n \in {"allowed-ips"} |-> [k \in DOMAIN q.ips |-> AipList(q.ips[k])]])

freebsd_set_device(r) ==
    nvlist(If(r.key # None, "private-key") \cup If(r.port # None, "listen-port") \cup If(r.mark # None, "user-cookie")
             \cup If(r.replace, "replace-peers") \cup If(r.peers # <<>>, "peers"),
           [n \in {"private-key"} |-> r.key] @@ [n \in {"listen-port"} |-> r.port] @@ [n \in {"user-cookie"} |-> r.mark]
             @@ [n \in {"replace-peers"} |-> TRUE] @@ [n \in {"peers"} |-> [k \in DOMAIN r.peers |-> PeerList(r.peers[k])]])

\* What the kernel takes from the lists.
Named(l, n, dflt) == IF n \in DOMAIN l THEN l[n] ELSE dflt

FromPeerList(l) ==
    [pk |-> l["public-key"], remove |-> Named(l, "remove", FALSE), replace |-> Named(l, "replace-allowedips", FALSE),
     psk |-> Named(l, "preshared-key", None), ep |-> Named(l, "endpoint", None),
     ka |-> Named(l, "persistent-keepalive-interval", None),
     ips |-> LET a == Named(l, "allowed-ips", <<>>)
             IN  [k \in DOMAIN a |-> [ip |-> <<a[k]["ip"], a[k]["cidr"]>>, del |-> "flags" \in DOMAIN a[k]]]]

FromList(l) ==
    [key |-> Named(l, "private-key", None), port |-> Named(l, "listen-port", None), mark |-> Named(l, "user-cookie", None),
     replace |-> Named(l, "replace-peers", FALSE),
     peers |-> LET p == Named(l, "peers", <<>>) IN [k \in DOMAIN p |-> FromPeerList(p[k])]]

-----------------------------------------------------------------------------
(* The text protocol: "key=value" lines. *)

Line(k, v) == <<[key |-> k, val |-> v]>>
LineIf(c, k, v) == IF c THEN Line(k, v) ELSE <<>>

\* Nothing but its key is sent of a peer to be removed.
PeerLines(q) ==
    IF q.remove THEN Line("public_key", q.pk) \o Line("remove", TRUE)
    ELSE Line("public_key", q.pk)
           \o LineIf(q.psk # None, "preshared_key", q.psk) \o LineIf(q.ep # None, "endpoint", q.ep)
           \o LineIf(q.ka # None, "persistent_keepalive_interval", q.ka) \o LineIf(q.replace, "replace_allowed_ips", TRUE)
           \o Concat([k \in DOMAIN q.ips |-> Line("allowed_ip", q.ips[k])])

userspace_set_lines(r) ==
    LineIf(r.key # None, "private_key", r.key) \o LineIf(r.port # None, "listen_port", r.port)
        \o LineIf(r.mark # None, "fwmark", r.mark) \o LineIf(r.replace, "replace_peers", TRUE)
        \o Concat([k \in DOMAIN r.peers |-> PeerLines(r.peers[k])])

\* What the implementation does with a line: cur is the peer of the last
\* public_key line; a key creates the peer.
UapiLine(d, cur, l) ==
    CASE l.key = "private_key" -> [d EXCEPT !.key = l.val]
      [] l.key = "listen_port" -> [d EXCEPT !.port = l.val]
      [] l.key = "fwmark" -> [d EXCEPT !.mark = l.val]
      [] l.key = "replace_peers" -> [d EXCEPT !.peers = [k \in Keys |-> NoPeer]]
      [] l.key = "public_key" -> IF d.peers[l.val].on THEN d ELSE [d EXCEPT !.peers[l.val] = NewPeer]
      [] l.key = "remove" -> [d EXCEPT !.peers[cur] = NoPeer]
      [] l.key = "preshared_key" -> [d EXCEPT !.peers[cur] = [@ EXCEPT !.on = TRUE, !.psk = l.val]]
      [] l.key = "endpoint" -> [d EXCEPT !.peers[cur] = [@ EXCEPT !.on = TRUE, !.ep = l.val]]
      [] l.key = "persistent_keepalive_interval" -> [d EXCEPT !.peers[cur] = [@ EXCEPT !.on = TRUE, !.ka = l.val]]
      [] l.key = "replace_allowed_ips" -> [d EXCEPT !.peers[cur] = [@ EXCEPT !.on = TRUE, !.ips = {}]]
      [] l.key = "allowed_ip" -> SetIp(d, cur, l.val)

\* The answer is 0 only if errno=0 was read and an empty line ended it;
\* otherwise the errno sent, or an error of its own.
ReadReply(reply) ==
    LET end == {k \in DOMAIN reply : reply[k] = "" /\ \A j \in 1..(k - 1) : reply[j] \in {"errno=0", "errno=1"}}
    IN  IF end = {} \/ \E k \in end : k = 1 THEN "EPROTO"
        ELSE LET e == CHOOSE k \in end : TRUE IN IF reply[e - 1] = "errno=0" THEN "0" ELSE "errno"

=============================================================================
