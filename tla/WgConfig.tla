------------------------------- MODULE WgConfig -------------------------------
(***************************************************************************)
(* config.c: a configuration file, or the arguments of `wg set', becomes a *)
(* request.  A line is a key and a value.  A value is what was written: a  *)
(* number, the word off, a key, the contents of a key file, a list of      *)
(* allowed IPs, an endpoint with what the resolver answers, nothing, or    *)
(* anything else.  A parser answers None for what it refuses.              *)
(***************************************************************************)
EXTENDS WgDevice

CONSTANTS
    MarkMax,  \* UINT32_MAX in the code
    Retries   \* parse_dns_retries: 15 in the code

Num(n) == [t |-> "num", n |-> n]
Key(n) == [t |-> "key", n |-> n]
Word(w) == [t |-> w]
Ips(l) == [t |-> "ips", l |-> l]
Host(a, answers) == [t |-> "host", a |-> a, answers |-> answers]

parse_port(v) == IF v.t = "num" THEN v.n ELSE None

parse_fwmark(v) == IF v.t = "off" THEN 0 ELSE IF v.t = "num" /\ v.n <= MarkMax THEN v.n ELSE None

parse_key(v) == IF v.t = "key" THEN v.n ELSE None

\* An empty file is the zero key.
parse_keyfile(v) == IF v.t = "empty file" THEN 0 ELSE parse_key(v)

parse_persistent_keepalive(v) == IF v.t = "off" THEN 0 ELSE IF v.t = "num" /\ v.n <= 65535 THEN v.n ELSE None

\* getaddrinfo is asked again while it answers "again", Retries times at most.
parse_endpoint(v) ==
    IF v.t = "host" /\ \E k \in 1..(Retries + 1) :
            k <= Len(v.answers) /\ v.answers[k] = "ok" /\ \A j \in 1..(k - 1) : v.answers[j] = "again"
    THEN v.a ELSE None

\* The prefix length that is meant, or None.
Cidr(e) ==
    LET max == IF e.fam = 4 THEN 32 ELSE 128
    IN  IF e.cidr = None THEN max ELSE IF e.cidr <= max THEN e.cidr ELSE None

parse_ip(e) == e.fam \in {4, 6}

\* Mutant: the lists of two lines are not joined.
ParseAllowedipsLast(p, v) ==
    IF v.t # "ips" \/ \E k \in DOMAIN v.l : ~ parse_ip(v.l[k]) \/ Cidr(v.l[k]) = None THEN None
    ELSE [p EXCEPT !.replace = \A k \in DOMAIN v.l : v.l[k].mod = "",
                   !.ips = [k \in DOMAIN v.l |-> [ip |-> <<v.l[k].ip, Cidr(v.l[k])>>, fam |-> v.l[k].fam, del |-> v.l[k].mod = "-"]]]

\* Every line asks for the list to be replaced, unless an entry has a sign
\* (parse_ip_prefix); the entries are added to those of earlier lines.
parse_allowedips(p, v) ==
    IF v.t # "ips" \/ \E k \in DOMAIN v.l : ~ parse_ip(v.l[k]) \/ Cidr(v.l[k]) = None THEN None
    ELSE [p EXCEPT !.replace = \A k \in DOMAIN v.l : v.l[k].mod = "",
                   !.ips = @ \o [k \in DOMAIN v.l |-> [ip |-> <<v.l[k].ip, Cidr(v.l[k])>>, fam |-> v.l[k].fam, del |-> v.l[k].mod = "-"]]]

-----------------------------------------------------------------------------
(* Files *)

\* The request so far, the section, and whether all lines were accepted.
config_read_init(append) ==
    [dev |-> IF append THEN wgdevice ELSE [wgdevice EXCEPT !.key = 0, !.port = 0, !.mark = 0, !.replace = TRUE],
     sec |-> "none", ok |-> TRUE]

Refuse(ctx) == [ctx EXCEPT !.ok = FALSE]
SetDev(ctx, f, v) == IF v = None THEN Refuse(ctx) ELSE [ctx EXCEPT !.dev[f] = v]
LastPeer(ctx) == ctx.dev.peers[Len(ctx.dev.peers)]
PutPeer(ctx, p) == [ctx EXCEPT !.dev.peers = Front(@) \o <<p>>]
SetPeerField(ctx, f, v) == IF v = None THEN Refuse(ctx) ELSE PutPeer(ctx, [LastPeer(ctx) EXCEPT ![f] = v])

\* Mutant: the list goes to the first peer.
SetIpsFirst(ctx, v) ==
    LET p == parse_allowedips(ctx.dev.peers[1], v) IN IF p = None THEN Refuse(ctx) ELSE [ctx EXCEPT !.dev.peers[1] = p]

SetIps(ctx, v) ==
    LET p == parse_allowedips(LastPeer(ctx), v) IN IF p = None THEN Refuse(ctx) ELSE PutPeer(ctx, p)

\* A key without a value is not recognised (get_value).
process_line(ctx, l) ==
    LET v == l.val
    IN  IF l.key = "[Interface]" THEN [ctx EXCEPT !.sec = "dev"]
        ELSE IF l.key = "[Peer]" THEN [ctx EXCEPT !.sec = "peer", !.dev.peers = Append(@, [wgpeer EXCEPT !.replace = TRUE])]
        ELSE IF v.t = "" THEN Refuse(ctx)
        ELSE CASE <<ctx.sec, l.key>> = <<"dev", "ListenPort">> -> SetDev(ctx, "port", parse_port(v))
               [] <<ctx.sec, l.key>> = <<"dev", "FwMark">> -> SetDev(ctx, "mark", parse_fwmark(v))
               [] <<ctx.sec, l.key>> = <<"dev", "PrivateKey">> -> SetDev(ctx, "key", parse_key(v))
               [] <<ctx.sec, l.key>> = <<"peer", "PublicKey">> -> SetPeerField(ctx, "pk", parse_key(v))
               [] <<ctx.sec, l.key>> = <<"peer", "PresharedKey">> -> SetPeerField(ctx, "psk", parse_key(v))
               [] <<ctx.sec, l.key>> = <<"peer", "Endpoint">> -> SetPeerField(ctx, "ep", parse_endpoint(v))
               [] <<ctx.sec, l.key>> = <<"peer", "PersistentKeepalive">> -> SetPeerField(ctx, "ka", parse_persistent_keepalive(v))
               [] <<ctx.sec, l.key>> = <<"peer", "AllowedIPs">> -> SetIps(ctx, v)
               [] OTHER -> Refuse(ctx)

\* Blank lines and comments are skipped; nothing is read after a refusal.
config_read_line(ctx, l) == IF ~ ctx.ok \/ l.key = "" THEN ctx ELSE process_line(ctx, l)

\* Every peer must have got a key.
config_read_finish(ctx) ==
    IF ctx.ok /\ \A k \in DOMAIN ctx.dev.peers : ctx.dev.peers[k].pk # None THEN ctx.dev ELSE None

ReadFile(file, append) == config_read_finish(Over(config_read_line, config_read_init(append), file))

-----------------------------------------------------------------------------
(* Arguments of `wg set': an argument and the one after it. *)

ReadArg(ctx, a) ==
    LET v == a.val
    IN  IF ~ ctx.ok THEN ctx
        ELSE IF a.key # "remove" /\ v.t = "missing" THEN Refuse(ctx)
        ELSE CASE ctx.sec = "none" /\ a.key = "listen-port" -> SetDev(ctx, "port", parse_port(v))
               [] ctx.sec = "none" /\ a.key = "fwmark" -> SetDev(ctx, "mark", parse_fwmark(v))
               [] ctx.sec = "none" /\ a.key = "private-key" -> SetDev(ctx, "key", parse_keyfile(v))
               [] a.key = "peer" -> SetPeerField([ctx EXCEPT !.sec = "peer", !.dev.peers = Append(@, wgpeer)], "pk", parse_key(v))
               [] ctx.sec = "peer" /\ a.key = "remove" -> SetPeerField(ctx, "remove", TRUE)
               [] ctx.sec = "peer" /\ a.key = "endpoint" -> SetPeerField(ctx, "ep", parse_endpoint(v))
               [] ctx.sec = "peer" /\ a.key = "persistent-keepalive" -> SetPeerField(ctx, "ka", parse_persistent_keepalive(v))
               [] ctx.sec = "peer" /\ a.key = "preshared-key" -> SetPeerField(ctx, "psk", parse_keyfile(v))
               [] ctx.sec = "peer" /\ a.key = "allowed-ips" -> SetIps(ctx, v)
               [] OTHER -> Refuse(ctx)

config_read_cmd(args) ==
    LET ctx == Over(ReadArg, config_read_init(TRUE), args) IN IF ctx.ok THEN ctx.dev ELSE None

-----------------------------------------------------------------------------
(* showconf: the file that describes a device.  What is zero is not shown. *)

ShowIf(c, k, v) == IF c THEN <<[key |-> k, val |-> v]>> ELSE <<>>

\* Mutant: the lengths of the prefixes are not shown.
ShowIpsPlain(ips) ==
    LET s == SetToSeq(ips) IN Ips([k \in DOMAIN s |-> [mod |-> "", ip |-> s[k][1], fam |-> IF s[k][2] > 32 THEN 6 ELSE 4, cidr |-> None]])

ShowIps(ips) ==
    LET s == SetToSeq(ips) IN Ips([k \in DOMAIN s |-> [mod |-> "", ip |-> s[k][1], fam |-> IF s[k][2] > 32 THEN 6 ELSE 4, cidr |-> s[k][2]]])

ShowPeer(k, p) ==
    ShowIf(TRUE, "[Peer]", Word("")) \o ShowIf(TRUE, "PublicKey", Key(k)) \o ShowIf(p.psk # 0, "PresharedKey", Key(p.psk))
        \o ShowIf(p.ips # {}, "AllowedIPs", ShowIps(p.ips)) \o ShowIf(p.ep # None, "Endpoint", Host(p.ep, <<"ok">>))
        \o ShowIf(p.ka # 0, "PersistentKeepalive", Num(p.ka))

showconf_main(d) ==
    LET on == SetToSortSeq({k \in Keys : d.peers[k].on}, LAMBDA a, b : a < b)
    IN  ShowIf(TRUE, "[Interface]", Word("")) \o ShowIf(d.port # 0, "ListenPort", Num(d.port)) \o ShowIf(d.mark # 0, "FwMark", Num(d.mark))
          \o ShowIf(d.key # 0, "PrivateKey", Key(d.key)) \o Concat([n \in DOMAIN on |-> ShowPeer(on[n], d.peers[on[n]])])

=============================================================================
