------------------------------- MODULE MCWgShow -------------------------------
(* WgShow on small instances. *)
EXTENDS WgShow

P(pk, psk, ep, ka, ips) == [pk |-> pk, psk |-> psk, ep |-> ep, ka |-> ka, hs |-> 0, ips |-> ips]
Dev(key, port, mark, peers) == [key |-> key, port |-> port, mark |-> mark, peers |-> peers]

\* Two peers, one with several IPs; the IPs of the other way round; nothing.
D1 == Dev(1, 7, 0, <<P(1, 1, 4, 0, <<<<1, 32>>, <<2, 24>>>>), P(2, 0, None, 25, <<<<3, 64>>>>)>>)
D2 == Dev(1, 7, 3, <<P(1, 0, 4, 0, <<<<1, 32>>, <<3, 64>>, <<2, 24>>>>)>>)
D3 == Dev(0, 0, 0, <<>>)
MCDevices == {D1, D2, D3}

MCOrder == <<"a", "b", "c">>
S(k, d, s) == [kind |-> k, dev |-> d, sock |-> s]
MCStarts ==
    {[i \in {"a", "b", "c"} |-> CASE i = "a" -> S("wireguard", D1, "none") [] i = "b" -> S("tun", D2, b) [] i = "c" -> S(c, D2, "none")] :
        b \in {"live", "stale"}, c \in {"none", "wireguard"}}
MCCommands ==
    {[prog |-> "show", all |-> TRUE, iface |-> None], [prog |-> "showconf", all |-> FALSE, iface |-> "a"],
     [prog |-> "show", all |-> FALSE, iface |-> "b"]}

=============================================================================
