------------------------------- MODULE WgPrint -------------------------------
(***************************************************************************)
(* show.c: what `wg show' prints of a device that was read.  A line is a   *)
(* sequence of fields.  The device's public key, which follows from the    *)
(* private one, and the counters of bytes are left out.                    *)
(***************************************************************************)
EXTENDS WgGet

CONSTANTS Off, NoneShown  \* the words "off" and "(none)"

maybe_key(k) == IF k = None THEN NoneShown ELSE k
OffIf0(n) == IF n = 0 THEN Off ELSE n
endpoint(p) == IF p.ep = None THEN NoneShown ELSE p.ep
allowed_ips(p) == IF p.ips = <<>> THEN NoneShown ELSE p.ips

\* The peer with the later handshake first, those without one last.
peer_cmp(a, b) == IF a.hs = 0 /\ b.hs # 0 THEN 1 ELSE IF b.hs = 0 /\ a.hs # 0 THEN -1 ELSE b.hs - a.hs

\* qsort: any order that the comparison allows.
Sorts(d) ==
    LET n == Len(d.peers)
        perms == {f \in [1..n -> 1..n] : \A i, j \in 1..n : i # j => f[i] # f[j]}
    IN  {f \in perms : \A i, j \in 1..n : i < j => peer_cmp(d.peers[f[i]], d.peers[f[j]]) <= 0}
sort_peers(d) == [d EXCEPT !.peers = LET f == CHOOSE g \in Sorts(d) : TRUE IN [k \in DOMAIN @ |-> @[f[k]]]]

\* The lines of pretty_print: a label and what is shown; secrets are hidden.
pretty_print(d) ==
    LET s == sort_peers(d)
        If(c, l, v) == IF c THEN <<<<l, v>>>> ELSE <<>>
        P(p) == If(TRUE, "peer", p.pk) \o If(p.psk # None, "preshared key", "(hidden)") \o If(p.ep # None, "endpoint", p.ep)
                  \o If(TRUE, "allowed ips", allowed_ips(p)) \o If(p.hs # 0, "latest handshake", p.hs)
                  \o If(p.ka # 0, "persistent keepalive", p.ka)
    IN  If(d.key # None, "private key", "(hidden)") \o If(d.port # 0, "listening port", d.port) \o If(d.mark # 0, "fwmark", d.mark)
          \o Concat([k \in DOMAIN s.peers |-> P(s.peers[k])])

With(name, fields) == IF name = None THEN fields ELSE <<name>> \o fields

\* name is None, or the interface's with `all'.
dump_print(d, name) ==
    <<With(name, <<maybe_key(d.key), d.port, OffIf0(d.mark)>>)>>
      \o [k \in DOMAIN d.peers |->
            LET p == d.peers[k] IN With(name, <<p.pk, maybe_key(p.psk), endpoint(p), allowed_ips(p), p.hs, OffIf0(p.ka)>>)]

\* Mutant: the peers' lines lack the interface.
UglyPrintBare(d, param, name) ==
    LET Each(field(_)) == [k \in DOMAIN d.peers |-> <<d.peers[k].pk, field(d.peers[k])>>]
    IN  CASE param = "private-key" -> <<With(name, <<maybe_key(d.key)>>)>>
          [] param = "listen-port" -> <<With(name, <<d.port>>)>>
          [] param = "fwmark" -> <<With(name, <<OffIf0(d.mark)>>)>>
          [] param = "endpoints" -> Each(endpoint)
          [] param = "allowed-ips" -> Each(allowed_ips)
          [] param = "latest-handshakes" -> Each(LAMBDA p : p.hs)
          [] param = "persistent-keepalive" -> Each(LAMBDA p : OffIf0(p.ka))
          [] param = "preshared-keys" -> Each(LAMBDA p : maybe_key(p.psk))
          [] param = "peers" -> [k \in DOMAIN d.peers |-> <<d.peers[k].pk>>]
          [] param = "dump" -> dump_print(d, name)

ugly_print(d, param, name) ==
    LET Each(field(_)) == [k \in DOMAIN d.peers |-> With(name, <<d.peers[k].pk, field(d.peers[k])>>)]
    IN  CASE param = "private-key" -> <<With(name, <<maybe_key(d.key)>>)>>
          [] param = "listen-port" -> <<With(name, <<d.port>>)>>
          [] param = "fwmark" -> <<With(name, <<OffIf0(d.mark)>>)>>
          [] param = "endpoints" -> Each(endpoint)
          [] param = "allowed-ips" -> Each(allowed_ips)
          [] param = "latest-handshakes" -> Each(LAMBDA p : p.hs)
          [] param = "persistent-keepalive" -> Each(LAMBDA p : OffIf0(p.ka))
          [] param = "preshared-keys" -> Each(LAMBDA p : maybe_key(p.psk))
          [] param = "peers" -> [k \in DOMAIN d.peers |-> With(name, <<d.peers[k].pk>>)]
          [] param = "dump" -> dump_print(d, name)

\* The column of dump that holds each parameter, of the device's line and of
\* the peers' lines.
DeviceColumn == [p \in {"private-key", "listen-port", "fwmark"} |-> CASE p = "private-key" -> 1 [] p = "listen-port" -> 2 [] p = "fwmark" -> 3]
PeerColumn == [p \in {"preshared-keys", "endpoints", "allowed-ips", "latest-handshakes", "persistent-keepalive"} |->
                 CASE p = "preshared-keys" -> 2 [] p = "endpoints" -> 3 [] p = "allowed-ips" -> 4 [] p = "latest-handshakes" -> 5
                   [] p = "persistent-keepalive" -> 6]

=============================================================================
