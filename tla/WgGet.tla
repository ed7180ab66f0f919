-------------------------------- MODULE WgGet --------------------------------
(***************************************************************************)
(* How `wg' and the embeddable library read a device: the attributes of    *)
(* Netlink messages, the structures of the ioctls, the name-value lists of *)
(* FreeBSD and the lines of the text protocol.  A device is what the other *)
(* side has: settings (0 is not set) and a sequence of peers with their    *)
(* allowed IPs; a device read is a wgdevice, with None where no flag is    *)
(* set.                                                                    *)
(***************************************************************************)
EXTENDS WgDevice

CONSTANTS Bad, Unresolvable

\* struct wgdevice and struct wgpeer as they are read.
ReadPeer == [pk |-> None, psk |-> None, ep |-> None, ka |-> 0, hs |-> 0, ips |-> <<>>]
ReadDevice == [key |-> None, port |-> 0, mark |-> 0, peers |-> <<>>]

\* What a complete answer about device d is read as.
AsRead(d) ==
    [key |-> IF d.key = 0 THEN None ELSE d.key, port |-> d.port, mark |-> d.mark,
     peers |-> [k \in DOMAIN d.peers |-> [d.peers[k] EXCEPT !.psk = IF @ = 0 THEN None ELSE @]]]

FamilyOf(ip) == IF ip[2] > 32 THEN 6 ELSE 4
IpOk(fam, cidr) == (fam = 4 /\ cidr <= 32) \/ (fam = 6 /\ cidr <= 128)

-----------------------------------------------------------------------------
(* The messages of the kernel's dump.  A device is a sequence of items: the *)
(* settings of a peer, or one of its IPs; a message holds some of them.    *)

Attr(t, v) == <<[t |-> t, v |-> v]>>

ItemsOf(p) == <<[pk |-> p.pk, head |-> TRUE, p |-> p]>> \o [k \in DOMAIN p.ips |-> [pk |-> p.pk, head |-> FALSE, ip |-> p.ips[k]]]
Items(d) == Concat([k \in DOMAIN d.peers |-> ItemsOf(d.peers[k])])

IpAttrs(ip) == Attr("FAMILY", FamilyOf(ip)) \o Attr("IPADDR", ip[1]) \o Attr("CIDR_MASK", ip[2])
HeadAttrs(p) ==
    Attr("PRESHARED_KEY", p.psk) \o (IF p.ep = None THEN <<>> ELSE Attr("ENDPOINT", p.ep))
        \o Attr("PERSISTENT_KEEPALIVE_INTERVAL", p.ka) \o Attr("LAST_HANDSHAKE_TIME", p.hs)

\* A peer's entry in a message: the rest of its IPs goes under its key alone.
Entry(run) ==
    LET ips == SelectSeq(run, LAMBDA i : ~ i.head)
    IN  Attr("PUBLIC_KEY", run[1].pk) \o (IF run[1].head THEN HeadAttrs(run[1].p) ELSE <<>>)
          \o (IF ips = <<>> THEN <<>> ELSE Attr("ALLOWEDIPS", [k \in DOMAIN ips |-> IpAttrs(ips[k].ip)]))

Entries(items) ==
    LET starts == {k \in DOMAIN items : k = 1 \/ items[k].head}
        s == SetToSortSeq(starts, LAMBDA a, b : a < b)
        end(n) == IF n = Len(s) THEN Len(items) ELSE s[n + 1] - 1
    IN  [n \in DOMAIN s |-> Entry(SubSeq(items, s[n], end(n)))]

\* The message from item number at + 1 on, with n items; the device's own
\* settings are in the first.
DumpMessage(d, at, n) ==
    LET items == SubSeq(Items(d), at + 1, at + n)
    IN  (IF at = 0 THEN (IF d.key = 0 THEN <<>> ELSE Attr("PRIVATE_KEY", d.key)) \o Attr("LISTEN_PORT", d.port) \o Attr("FWMARK", d.mark)
         ELSE <<>>)
          \o (IF items = <<>> THEN <<>> ELSE Attr("PEERS", Entries(items)))

-----------------------------------------------------------------------------
(* ipc-linux.h: the callbacks.  A value is None once one of them has        *)
(* answered MNL_CB_ERROR; an attribute of another type is passed over.     *)

mnl_attr_parse(cb(_, _), attrs, x) == Over(LAMBDA y, a : IF y = None THEN None ELSE cb(y, a), x, attrs)

parse_allowedip(i, a) ==
    CASE a.t = "FAMILY" -> [i EXCEPT !.fam = a.v]
      [] a.t = "IPADDR" -> [i EXCEPT !.ip = a.v]
      [] a.t = "CIDR_MASK" -> [i EXCEPT !.cidr = a.v]
      [] OTHER -> i

parse_allowedips(p, attrs) ==
    LET i == mnl_attr_parse(parse_allowedip, attrs, [fam |-> 0, ip |-> 0, cidr |-> 0])
    IN  IF IpOk(i.fam, i.cidr) THEN [p EXCEPT !.ips = Append(@, <<i.ip, i.cidr>>)] ELSE None

parse_peer(p, a) ==
    CASE a.t = "PUBLIC_KEY" -> [p EXCEPT !.pk = a.v]
      [] a.t = "PRESHARED_KEY" -> [p EXCEPT !.psk = IF a.v = 0 THEN @ ELSE a.v]
      [] a.t = "ENDPOINT" -> [p EXCEPT !.ep = a.v]
      [] a.t = "PERSISTENT_KEEPALIVE_INTERVAL" -> [p EXCEPT !.ka = a.v]
      [] a.t = "LAST_HANDSHAKE_TIME" -> [p EXCEPT !.hs = a.v]
      [] a.t = "ALLOWEDIPS" -> mnl_attr_parse(parse_allowedips, a.v, p)
      [] OTHER -> p

\* A peer without a key is an error.
parse_peers(d, attrs) ==
    LET p == mnl_attr_parse(parse_peer, attrs, ReadPeer)
    IN  IF p = None \/ p.pk = None THEN None ELSE [d EXCEPT !.peers = Append(@, p)]

parse_device(d, a) ==
    CASE a.t = "PRIVATE_KEY" -> [d EXCEPT !.key = a.v]
      [] a.t = "LISTEN_PORT" -> [d EXCEPT !.port = a.v]
      [] a.t = "FWMARK" -> [d EXCEPT !.mark = a.v]
      [] a.t = "PEERS" -> mnl_attr_parse(parse_peers, a.v, d)
      [] OTHER -> d

read_device_cb(d, msg) == mnl_attr_parse(parse_device, msg, d)

\* Neighbours with the same key are one peer.
coalesce_peers(d) ==
    [d EXCEPT !.peers = Over(LAMBDA ps, q : IF ps # <<>> /\ Last(ps).pk = q.pk
                                            THEN Front(ps) \o <<[Last(ps) EXCEPT !.ips = @ \o q.ips]>> ELSE Append(ps, q), <<>>, @)]

-----------------------------------------------------------------------------
(* The structures of OpenBSD and Windows, and the lists of FreeBSD.  A     *)
(* structure is a header with a count, followed by the entries.            *)

IoOf(d) ==
    [flags |-> {"PORT", "RTABLE"} \cup (IF d.key = 0 THEN {} ELSE {"PRIVATE"}), private |-> d.key, port |-> d.port, rtable |-> d.mark,
     count |-> Len(d.peers),
     data |-> [k \in DOMAIN Items(d) |->
                 LET i == Items(d)[k]
                 IN  IF ~ i.head THEN [af |-> FamilyOf(i.ip), ip |-> i.ip[1], cidr |-> i.ip[2]]
                     ELSE [flags |-> {"PUBLIC", "PKA", "PSK"} \cup (IF i.p.ep = None THEN {} ELSE {"ENDPOINT"}),
                           public |-> i.pk, psk |-> i.p.psk, pka |-> i.p.ka, endpoint |-> i.p.ep, hs |-> i.p.hs, count |-> Len(i.p.ips)]]]

\* One wg_peer_io with the wg_aip_io after it, from place at of the data.
PeerFromIo(io, at) ==
    LET w == io.data[at]
    IN  [pk |-> IF "PUBLIC" \in w.flags THEN w.public ELSE None, psk |-> IF "PSK" \in w.flags /\ w.psk # 0 THEN w.psk ELSE None,
         ka |-> IF "PKA" \in w.flags THEN w.pka ELSE 0, ep |-> IF "ENDPOINT" \in w.flags THEN w.endpoint ELSE None, hs |-> w.hs,
         ips |-> [j \in 1..w.count |-> <<io.data[at + j].ip, io.data[at + j].cidr>>]]

\* The entries are walked: the next peer is behind the IPs of this one.
PeersFromIo(io) ==
    Over(LAMBDA x, k : [at |-> x.at + 1 + io.data[x.at].count, peers |-> Append(x.peers, PeerFromIo(io, x.at))],
         [at |-> 1, peers |-> <<>>], [k \in 1..io.count |-> k]).peers

openbsd_device(io) ==
    [key |-> IF "PRIVATE" \in io.flags THEN io.private ELSE None, port |-> IF "PORT" \in io.flags THEN io.port ELSE 0,
     mark |-> IF "RTABLE" \in io.flags THEN io.rtable ELSE 0, peers |-> PeersFromIo(io)]

\* Windows has no mark.
windows_device(io) ==
    [key |-> IF "PRIVATE" \in io.flags THEN io.private ELSE None, port |-> IF "PORT" \in io.flags THEN io.port ELSE 0,
     mark |-> 0, peers |-> PeersFromIo(io)]

NvOf(d) ==
    [n \in {"listen-port", "user-cookie"} \cup (IF d.key = 0 THEN {} ELSE {"private-key"}) \cup (IF d.peers = <<>> THEN {} ELSE {"peers"}) |->
        CASE n = "listen-port" -> d.port [] n = "user-cookie" -> d.mark [] n = "private-key" -> d.key
          [] n = "peers" -> [k \in DOMAIN d.peers |->
               LET p == d.peers[k]
               IN  [m \in {"public-key", "preshared-key", "persistent-keepalive-interval", "last-handshake-time"}
                            \cup (IF p.ep = None THEN {} ELSE {"endpoint"}) \cup (IF p.ips = <<>> THEN {} ELSE {"allowed-ips"}) |->
                      CASE m = "public-key" -> p.pk [] m = "preshared-key" -> p.psk [] m = "persistent-keepalive-interval" -> p.ka
                        [] m = "last-handshake-time" -> p.hs [] m = "endpoint" -> p.ep
                        [] m = "allowed-ips" -> [j \in DOMAIN p.ips |-> [af |-> FamilyOf(p.ips[j]), ip |-> p.ips[j][1], cidr |-> p.ips[j][2]]]]]]

Nv(l, n, dflt) == IF n \in DOMAIN l THEN l[n] ELSE dflt

\* An IP with too long a prefix ends the read.
PeerFromNv(l) ==
    LET aips == Nv(l, "allowed-ips", <<>>)
        psk == Nv(l, "preshared-key", 0)
    IN  IF \E j \in DOMAIN aips : ~ IpOk(aips[j].af, aips[j].cidr) THEN None
        ELSE [pk |-> Nv(l, "public-key", None), psk |-> IF psk = 0 THEN None ELSE psk, ep |-> Nv(l, "endpoint", None),
              ka |-> Nv(l, "persistent-keepalive-interval", 0), hs |-> Nv(l, "last-handshake-time", 0),
              ips |-> [j \in DOMAIN aips |-> <<aips[j].ip, aips[j].cidr>>]]

freebsd_device(l) ==
    LET ps == Nv(l, "peers", <<>>)
        peers == [k \in DOMAIN ps |-> PeerFromNv(ps[k])]
    IN  IF \E k \in DOMAIN ps : peers[k] = None THEN None
        ELSE [key |-> Nv(l, "private-key", None), port |-> Nv(l, "listen-port", 0), mark |-> Nv(l, "user-cookie", 0), peers |-> peers]

-----------------------------------------------------------------------------
(* The text protocol.  A value that the tool cannot read is Bad, or         *)
(* Unresolvable by getaddrinfo; a last line without its newline is cut.    *)

GetLine(k, v) == <<[key |-> k, val |-> v]>>
EmptyLine == [key |-> "", val |-> 0]
CutLine == [key |-> "cut", val |-> 0]

UapiPeer(p) ==
    GetLine("public_key", p.pk) \o GetLine("preshared_key", p.psk) \o (IF p.ep = None THEN <<>> ELSE GetLine("endpoint", p.ep))
        \o GetLine("last_handshake_time_sec", p.hs) \o GetLine("protocol_version", 1) \o GetLine("persistent_keepalive_interval", p.ka)
        \o Concat([j \in DOMAIN p.ips |-> GetLine("allowed_ip", p.ips[j])])

\* The lines of an implementation: what it leaves out is zero.
UapiReply(d) ==
    (IF d.key = 0 THEN <<>> ELSE GetLine("private_key", d.key)) \o (IF d.port = 0 THEN <<>> ELSE GetLine("listen_port", d.port))
        \o (IF d.mark = 0 THEN <<>> ELSE GetLine("fwmark", d.mark)) \o Concat([k \in DOMAIN d.peers |-> UapiPeer(d.peers[k])])
        \o GetLine("errno", 0) \o <<EmptyLine>>

SetLast(x, f, v) == [x EXCEPT !.dev.peers[Len(x.dev.peers)][f] = v]

DeviceKeys == [k \in {"private_key", "listen_port", "fwmark"} |-> CASE k = "private_key" -> "key" [] k = "listen_port" -> "port" [] k = "fwmark" -> "mark"]
PeerKeys == [k \in {"preshared_key", "endpoint", "persistent_keepalive_interval", "last_handshake_time_sec"} |->
                CASE k = "preshared_key" -> "psk" [] k = "endpoint" -> "ep" [] k = "persistent_keepalive_interval" -> "ka"
                  [] k = "last_handshake_time_sec" -> "hs"]

\* The keys that are looked at: the settings of the device come before the
\* first peer.
Recognised(x, k) ==
    \/ k \in {"public_key", "errno"}
    \/ IF x.dev.peers = <<>> THEN k \in DOMAIN DeviceKeys ELSE k \in DOMAIN PeerKeys \cup {"allowed_ip"}

\* How a line of the answer is taken: the device so far, ret, and whether the
\* loop was left by break ("proto": -EPROTO) or by goto err ("end").
TakeLine(x, l) ==
    CASE l.key = "" -> [x EXCEPT !.left = "end"]
      [] l.key = "cut" -> [x EXCEPT !.left = "proto"]
      [] l.key \notin {"", "cut"} /\ ~ Recognised(x, l.key) -> x
      [] Recognised(x, l.key) /\ l.val = Bad -> [x EXCEPT !.left = "proto"]
      [] Recognised(x, l.key) /\ l.val = Unresolvable -> [x EXCEPT !.left = "end", !.ret = "ENETUNREACH"]
      [] Recognised(x, l.key) /\ l.val \notin {Bad, Unresolvable} ->
           CASE l.key \in DOMAIN DeviceKeys -> [x EXCEPT !.dev[DeviceKeys[l.key]] = l.val]
             [] l.key = "public_key" -> [x EXCEPT !.dev.peers = Append(@, [ReadPeer EXCEPT !.pk = l.val])]
             [] l.key \in DOMAIN PeerKeys -> IF l.key = "preshared_key" /\ l.val = 0 THEN x ELSE SetLast(x, PeerKeys[l.key], l.val)
             [] l.key = "allowed_ip" -> IF IpOk(FamilyOf(l.val), l.val[2]) THEN SetLast(x, "ips", Append(Last(x.dev.peers).ips, l.val))
                                        ELSE [x EXCEPT !.left = "proto"]
             [] l.key = "errno" -> [x EXCEPT !.ret = IF l.val = 0 THEN "0" ELSE "errno"]

\* The result: the device if the empty line was reached with ret = 0.
userspace_get_device(lines) ==
    LET x == Over(LAMBDA y, l : IF y.left = "no" THEN TakeLine(y, l) ELSE y,
                  [dev |-> ReadDevice, ret |-> "EPROTO", left |-> "no"], lines)
        ret == IF x.left = "end" THEN x.ret ELSE "EPROTO"
    IN  [ret |-> ret, dev |-> IF ret = "0" THEN x.dev ELSE None]

=============================================================================
