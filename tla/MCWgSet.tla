------------------------------- MODULE MCWgSet -------------------------------
(* WgSet on small instances. *)
EXTENDS WgSet

L(k, v) == [key |-> k, val |-> v]
Iface == L("[Interface]", Word(""))
Peer(k) == <<L("[Peer]", Word("")), L("PublicKey", Key(k))>>
Ip(mod, ip, cidr) == [mod |-> mod, ip |-> ip, fam |-> IF ip = "d" THEN 6 ELSE 4, cidr |-> cidr]
Aips(l) == L("AllowedIPs", Ips(l))
Addr(n, fam) == [n |-> n, fam |-> fam]
Ep == L("Endpoint", Host(Addr("e", 4), <<"again", "ok">>))

\* Lists on two lines, a name that resolves at the second try.
File1 == <<Iface, L("PrivateKey", Key(1)), L("ListenPort", Num(7)), L("FwMark", Word("off"))>>
           \o Peer(1) \o <<Aips(<<Ip("", "a", None), Ip("", "d", 64)>>), L("", Word("")), Ep, Aips(<<Ip("", "b", 24)>>)>>
           \o Peer(2) \o <<L("PresharedKey", Key(1)), L("PersistentKeepalive", Num(25)), Aips(<<Ip("", "c", None)>>)>>
\* An IP moves from one peer to another within the file.
File2 == Peer(2) \o <<Aips(<<Ip("", "a", None), Ip("", "b", 24)>>)>> \o Peer(1) \o <<Aips(<<Ip("", "a", None), Ip("", "c", None)>>)>>
\* A key twice.
File3 == Peer(1) \o <<Aips(<<Ip("", "a", None), Ip("", "b", 24)>>), L("PersistentKeepalive", Num(9))>>
           \o Peer(2) \o <<Aips(<<Ip("", "b", 24), Ip("", "d", 64)>>)>> \o Peer(1) \o <<Ep, Aips(<<Ip("", "c", None)>>)>>
File4 == <<Iface, L("FwMark", Num(3))>>
\* Signs.
File5 == Peer(1) \o <<Aips(<<Ip("-", "a", None), Ip("+", "c", None)>>)>>
Refused == {<<Iface, L("ListenPort", Word(""))>>, <<L("ListenPort", Num(7))>>, <<L("[Peer]", Word("")), Ep>>,
            <<Iface, L("FwMark", Num(9)), L("ListenPort", Num(7))>>,
            Peer(1) \o <<Aips(<<Ip("", "a", 33)>>)>>, Peer(1) \o <<L("PersistentKeepalive", Num(65536))>>,
            Peer(1) \o <<L("Endpoint", Host(Addr("e", 4), <<"again", "again", "again", "ok">>))>>}

Set1 == <<L("private-key", Word("empty file")), L("fwmark", Num(5)), L("peer", Key(1)), L("remove", Word("")),
          L("allowed-ips", Ips(<<Ip("", "a", None), Ip("", "b", 24)>>)), L("peer", Key(2)), L("preshared-key", Word("empty file")),
          L("endpoint", Host(Addr("f", 6), <<"ok">>)), L("allowed-ips", Ips(<<Ip("+", "d", 64), Ip("-", "c", None)>>))>>
Set2 == <<L("peer", Key(2)), L("allowed-ips", Ips(<<>>)), L("peer", Key(1)), L("persistent-keepalive", Word("off"))>>
Set3 == <<L("peer", Key(2)), L("listen-port", Num(1))>>

P(psk, ep, ka, ips) == [psk |-> psk, ep |-> ep, ka |-> ka, ips |-> ips, on |-> TRUE]
D(p1, p2) == [key |-> 2, port |-> 2, mark |-> 2, peers |-> [k \in Keys |-> IF k = 1 THEN p1 ELSE IF k = 2 THEN p2 ELSE NoPeer]]
MCDevices == {D(NoPeer, NoPeer), D(P(1, Addr("g", 4), 5, {<<"a", 32>>, <<"c", 32>>}), P(0, None, 0, {<<"b", 24>>})),
              D(NoPeer, P(1, Addr("g", 4), 0, {<<"a", 32>>}))}
Cmd(names, files, of) == [name : names, args : files, of : {of}]
MCCommands ==
    Cmd({"setconf", "addconf", "syncconf"}, {File1, File2, File3, File4}, None)
        \cup Cmd({"addconf"}, {File5} \cup Refused, None) \cup Cmd({"set"}, {Set1, Set2, Set3}, None)
        \cup UNION {Cmd({"setconf"}, {showconf_main(d)}, d) : d \in MCDevices}

MCRoamed == Addr("r", 4)
MCBufferSizes == {148 + 8 * n : n \in 0..20} \cup {4096}

=============================================================================
