-------------------------------- MODULE WgSet --------------------------------
(***************************************************************************)
(* `wg set', `setconf', `addconf' and `syncconf': a request is made from a *)
(* file or from arguments (WgConfig) and sent to the device over one of    *)
(* the interfaces: Netlink, in as many messages as it takes; the ioctls    *)
(* and the text protocol of WgIoctl; or Netlink by way of the embeddable   *)
(* library.  A send can fail, and the device keeps what has reached it.    *)
(* Endpoints change by themselves: a peer roams.                           *)
(***************************************************************************)
EXTENDS WgConfig, WgIoctl, FiniteSets

CONSTANTS
    Commands,    \* records: name, the file or the arguments, and the device the file is a copy of, or None
    Devices,     \* devices at the start
    Transports,  \* subset of {"linux", "library", "openbsd", "freebsd", "windows", "uapi"}
    BufferSizes, \* SOCKET_BUFFER_SIZE: what a message can hold
    Roamed,      \* an endpoint that no file gives
    Faults       \* TRUE: sends and reads can fail

VARIABLES
    dev,        \* the device
    dev0,       \* the device at the start
    command, transport, buflen,
    pc,
    req,        \* the request, or None
    nl,         \* the message that is being put together and the cursors
    left,       \* the text protocol: the lines the other side has not read
    cur,        \*   and the peer it is at
    roamed      \* the peers that have roamed

vars == <<dev, dev0, command, transport, buflen, pc, req, nl, left, cur, roamed>>

NoMessage == [msg |-> wgdevice, len |-> 0, peer |-> 0, ip |-> 0]

\* The library's structures have no flag for an IP that is to be removed.
Minus(args) == \E n \in DOMAIN args : args[n].val.t = "ips" /\ \E j \in DOMAIN args[n].val.l : args[n].val.l[j].mod = "-"

Init ==
    /\ command \in Commands
    /\ transport \in Transports
    /\ buflen \in IF transport \in {"linux", "library"} THEN BufferSizes ELSE {0}
    /\ transport = "library" => ~ Minus(command.args)
    /\ dev0 \in Devices
    /\ dev = dev0
    /\ pc = "read" /\ req = None /\ nl = NoMessage /\ left = <<>> /\ cur = 0 /\ roamed = {}

Fixed == <<dev0, command, transport, buflen>>

-----------------------------------------------------------------------------
(* setconf_main, set_main *)

\* Where ipc_set_device goes.
ipc_set_device == CASE transport \in {"linux", "library"} -> "prepare" [] transport = "uapi" -> "open" [] OTHER -> "ioctl"

Read ==
    /\ pc = "read"
    /\ req' = IF command.name = "set" THEN config_read_cmd(command.args) ELSE ReadFile(command.args, command.name = "addconf")
    /\ pc' = CASE req' = None -> "failed"
               [] req' # None /\ command.name = "syncconf" -> "sync"
               [] req' # None /\ command.name # "syncconf" -> ipc_set_device
    /\ UNCHANGED <<dev, Fixed, nl, left, cur, roamed>>

InFile(r, k) == \E j \in DOMAIN r.peers : r.peers[j].pk = k

\* The entry of the file that qsort puts next to the device's: if the file
\* has a key twice, peer_cmp does not say which.
Nexts(r, k) == {j \in DOMAIN r.peers : r.peers[j].pk = k}

\* What the file does not give is reset, where the device has it set.
Reset(q, p) == [q EXCEPT !.psk = IF q.psk = None /\ p.psk # 0 THEN 0 ELSE @, !.ka = IF q.ka = None /\ p.ka # 0 THEN 0 ELSE @]

\* The device's peers that the file does not have, as removals; the last
\* that is found comes first.
Removals(r, d) ==
    LET gone == SetToSortSeq({k \in Keys : d.peers[k].on /\ ~ InFile(r, k)}, LAMBDA a, b : a > b)
    IN  [k \in DOMAIN gone |-> [wgpeer EXCEPT !.pk = gone[k], !.remove = TRUE]]

\* Mutant: the peers are replaced as setconf does.
SyncReplace(r, d, next) ==
    IF r.peers = <<>> \/ \A k \in Keys : ~ d.peers[k].on THEN r
    ELSE [r EXCEPT !.peers = [j \in DOMAIN r.peers |->
                       LET q == r.peers[j] IN [q EXCEPT !.ep = Given(@, d.peers[q.pk].ep)]]]

\* next gives the entry of the file that is compared with each peer.
sync_conf(r, d, next) ==
    IF r.peers = <<>> \/ \A k \in Keys : ~ d.peers[k].on THEN r
    ELSE [r EXCEPT !.replace = FALSE,
                   !.peers = Removals(r, d) \o [j \in DOMAIN r.peers |->
                       LET q == r.peers[j] IN IF d.peers[q.pk].on /\ next[q.pk] = j THEN Reset(q, d.peers[q.pk]) ELSE q]]

Sync ==
    /\ pc = "sync"
    /\ \E next \in [Keys -> 0..Len(req.peers)] :
          /\ \A k \in Keys : IF Nexts(req, k) = {} THEN next[k] = 0 ELSE next[k] \in Nexts(req, k)
          /\ req' = sync_conf(req, dev, next)
    /\ pc' = ipc_set_device
    /\ UNCHANGED <<dev, Fixed, nl, left, cur, roamed>>

\* The device cannot be read; nothing is read of a file without peers.
SyncFails ==
    /\ Faults /\ pc = "sync" /\ req.peers # <<>>
    /\ pc' = "failed"
    /\ UNCHANGED <<dev, Fixed, req, nl, left, cur, roamed>>

-----------------------------------------------------------------------------
(* Netlink: attributes, with their headers and padding *)

mnl_attr_size(len) == 4 + ((len + 3) \div 4) * 4
nest == 4

\* mnlg_msg_prepare, and the attribute with the interface's name.
HeaderSize == 16 + 4 + mnl_attr_size(4)

SizeIf(c, len) == IF c THEN mnl_attr_size(len) ELSE 0

AttrsSize(r) == SizeIf(r.key # None, 32) + SizeIf(r.port # None, 2) + SizeIf(r.mark # None, 4) + SizeIf(r.replace, 4)

\* A peer without its allowed IPs.
HeadSize(q) ==
    nest + mnl_attr_size(32) + SizeIf(q.psk # None, 32)
        + (IF q.ep = None THEN 0 ELSE IF q.ep.fam = 4 THEN mnl_attr_size(16) ELSE mnl_attr_size(28))
        + SizeIf(q.ka # None, 2) + SizeIf(q.remove \/ q.replace, 4)

IpSize(e) == nest + mnl_attr_size(2) + (IF e.fam = 4 THEN mnl_attr_size(4) ELSE mnl_attr_size(16)) + mnl_attr_size(1) + SizeIf(e.del, 4)

\* Mutant: a continued peer is sent its flags again.
HeadAgain(q, first) ==
    IF first THEN [q EXCEPT !.ips = <<>>]
    ELSE [wgpeer EXCEPT !.pk = q.pk, !.remove = q.remove, !.replace = q.replace]

\* The settings are sent with the first of the peer's messages.
Head1(q, first) ==
    IF first THEN [q EXCEPT !.ips = <<>>]
    ELSE [wgpeer EXCEPT !.pk = q.pk, !.remove = q.remove]

\* The device's settings are in the first message.
Prepare ==
    LET first == nl.peer = 0
    IN  /\ pc = "prepare"
        /\ nl' = [nl EXCEPT !.msg = IF first THEN [req EXCEPT !.peers = <<>>] ELSE wgdevice,
                            !.len = HeaderSize + (IF first THEN AttrsSize(req) ELSE 0) + (IF req.peers = <<>> THEN 0 ELSE nest),
                            !.peer = IF first /\ req.peers # <<>> THEN 1 ELSE @]
        /\ pc' = IF req.peers = <<>> THEN "send" ELSE "peer"
        /\ UNCHANGED <<dev, Fixed, req, left, cur, roamed>>

Fits(n) == nl.len + n <= buflen

\* A peer that does not fit is left to the next message (toobig_peers); one
\* whose list does not fit is sent without (toobig_allowedips).
PutHead ==
    LET q == req.peers[nl.peer]
        h == Head1(q, nl.ip = 0)
        n == HeadSize(h)
        put == [nl EXCEPT !.msg.peers = Append(@, h), !.len = @ + n]
    IN  /\ pc = "peer"
        /\ IF nl.peer > Len(req.peers) THEN nl' = [nl EXCEPT !.peer = 0] /\ pc' = "send"
           ELSE IF ~ Fits(n) THEN nl' = nl /\ pc' = "send"
           ELSE IF q.ips = <<>> THEN nl' = [put EXCEPT !.peer = @ + 1] /\ pc' = "peer"
           ELSE /\ nl' = [put EXCEPT !.ip = IF @ = 0 THEN 1 ELSE @, !.len = IF Fits(n + nest) THEN @ + nest ELSE @]
                /\ pc' = IF Fits(n + nest) THEN "ip" ELSE "send"
        /\ UNCHANGED <<dev, Fixed, req, left, cur, roamed>>

\* Mutant: the size is not checked.
PutIpBig ==
    LET ips == req.peers[nl.peer].ips
        e == ips[nl.ip]
    IN  /\ pc = "ip"
        /\ IF nl.ip > Len(ips) THEN nl' = [nl EXCEPT !.ip = 0, !.peer = @ + 1] /\ pc' = "peer"
           ELSE nl' = [nl EXCEPT !.msg.peers[Len(nl.msg.peers)].ips = Append(@, e), !.len = @ + IpSize(e), !.ip = @ + 1] /\ pc' = pc
        /\ UNCHANGED <<dev, Fixed, req, left, cur, roamed>>

\* Mutant: the peer is begun again in the next message.
PutIpRestart ==
    LET ips == req.peers[nl.peer].ips
        e == ips[nl.ip]
    IN  /\ pc = "ip"
        /\ IF nl.ip > Len(ips) THEN nl' = [nl EXCEPT !.ip = 0, !.peer = @ + 1] /\ pc' = "peer"
           ELSE IF ~ Fits(IpSize(e)) THEN nl' = [nl EXCEPT !.ip = 0] /\ pc' = "send"
           ELSE nl' = [nl EXCEPT !.msg.peers[Len(nl.msg.peers)].ips = Append(@, e), !.len = @ + IpSize(e), !.ip = @ + 1] /\ pc' = pc
        /\ UNCHANGED <<dev, Fixed, req, left, cur, roamed>>

PutIp ==
    LET ips == req.peers[nl.peer].ips
        e == ips[nl.ip]
    IN  /\ pc = "ip"
        /\ IF nl.ip > Len(ips) THEN nl' = [nl EXCEPT !.ip = 0, !.peer = @ + 1] /\ pc' = "peer"
           ELSE IF ~ Fits(IpSize(e)) THEN nl' = nl /\ pc' = "send"
           ELSE nl' = [nl EXCEPT !.msg.peers[Len(nl.msg.peers)].ips = Append(@, e), !.len = @ + IpSize(e), !.ip = @ + 1] /\ pc' = pc
        /\ UNCHANGED <<dev, Fixed, req, left, cur, roamed>>

\* The message is acknowledged; there is another while the cursor is set.
Send ==
    /\ pc = "send"
    /\ dev' = Apply(dev, nl.msg)
    /\ pc' = IF nl.peer = 0 THEN "ok" ELSE "prepare"
    /\ UNCHANGED <<Fixed, req, nl, left, cur, roamed>>

\* An error, after some of the message's peers.
SendFails ==
    /\ Faults /\ pc = "send"
    /\ \E n \in 0..Len(nl.msg.peers) : dev' = Apply(dev, [nl.msg EXCEPT !.peers = SubSeq(@, 1, n)])
    /\ pc' = "failed"
    /\ UNCHANGED <<Fixed, req, nl, left, cur, roamed>>

-----------------------------------------------------------------------------
(* The other interfaces *)

Ioctl ==
    LET r == CASE transport = "openbsd" -> openbsd_set_device(req)
               [] transport = "freebsd" -> freebsd_set_device(req)
               [] transport = "windows" -> windows_set_device(req)
    IN  /\ pc = "ioctl"
        /\ IF transport = "openbsd" /\ r = None THEN dev' = dev /\ pc' = "failed"
           ELSE dev' = Apply(dev, IF transport = "freebsd" THEN FromList(r) ELSE FromIo(r)) /\ pc' = "ok"
        /\ UNCHANGED <<Fixed, req, nl, left, cur, roamed>>

IoctlFails == Faults /\ pc = "ioctl" /\ pc' = "failed" /\ UNCHANGED <<dev, Fixed, req, nl, left, cur, roamed>>

\* Everything is written before anything is read.
Open ==
    /\ pc = "open"
    /\ left' = userspace_set_lines(req)
    /\ pc' = "lines"
    /\ UNCHANGED <<dev, Fixed, req, nl, cur, roamed>>

\* The other side reads a line; or it refuses it, or it dies.
UapiReads ==
    /\ pc = "lines" /\ left # <<>>
    /\ dev' = UapiLine(dev, cur, Head(left))
    /\ cur' = IF Head(left).key = "public_key" THEN Head(left).val ELSE cur
    /\ left' = Tail(left)
    /\ UNCHANGED <<Fixed, pc, req, nl, roamed>>

\* What has been read when the answer ends.
Answer(reply) ==
    /\ pc = "lines"
    /\ pc' = IF ReadReply(reply) = "0" THEN "ok" ELSE "failed"
    /\ UNCHANGED <<dev, Fixed, req, nl, left, cur, roamed>>

\* errno=0 is sent when all is done; the connection can be lost at any time.
UapiAnswers ==
    \/ left = <<>> /\ Answer(<<"errno=0", "">>)
    \/ Faults /\ left # <<>> /\ Answer(<<"errno=1", "">>)
    \/ Faults /\ \E reply \in {<<>>, <<"">>} : Answer(reply)
    \/ Faults /\ left = <<>> /\ Answer(<<"errno=0">>)

\* The device learns a new endpoint of a peer.
Roam(k) ==
    /\ pc \notin {"ok", "failed"} /\ k \notin roamed
    /\ dev.peers[k].on
    /\ dev' = [dev EXCEPT !.peers[k].ep = Roamed]
    /\ roamed' = roamed \cup {k}
    /\ UNCHANGED <<Fixed, pc, req, nl, left, cur>>

\* The tool's function and the library's differ in what a request can say.
kernel_set_device == transport = "linux" /\ (Prepare \/ PutHead \/ PutIp \/ Send \/ SendFails)
wg_set_device == transport = "library" /\ (Prepare \/ PutHead \/ PutIp \/ Send \/ SendFails)

Next ==
    \/ Read \/ Sync \/ SyncFails
    \/ kernel_set_device \/ wg_set_device
    \/ Ioctl \/ IoctlFails
    \/ Open \/ UapiReads \/ UapiAnswers
    \/ \E k \in Keys : Roam(k)

\* The tool goes on by itself, and a kernel answers; the other side of a
\* socket need not.
Steps == Read \/ Sync \/ Prepare \/ PutHead \/ PutIp \/ Send \/ Ioctl \/ Open

Spec == Init /\ [][Next]_vars /\ WF_vars(Steps)

-----------------------------------------------------------------------------
(* What a file means, by its lines: the section a line is in, its peer.    *)

Lines(k) == {n \in DOMAIN command.args : command.args[n].key = k}
SectionOf(n) == Max({m \in Lines("[Peer]") : m <= n} \cup {0})
PeerOf(m) == command.args[Max({n \in Lines("PublicKey") : SectionOf(n) = m})].val.n
FilePeers == {PeerOf(m) : m \in Lines("[Peer]")}

\* The value of the last line that gives it, or what it was.
LastGiven(lines, Value(_), old) == IF lines = {} THEN old ELSE Value(command.args[Max(lines)].val)
OfPeer(name, k) == {n \in Lines(name) : PeerOf(SectionOf(n)) = k}
Mentioned(m) == UNION {{<<v.ip, Cidr(v)>> : v \in Range(command.args[n].val.l)} : n \in {x \in Lines("AllowedIPs") : SectionOf(x) = m}}

\* The peer's last section lists its IPs, but for those listed later.
FileIps(k) ==
    LET m == Max({x \in Lines("[Peer]") : PeerOf(x) = k})
    IN  Mentioned(m) \ UNION {Mentioned(x) : x \in {y \in Lines("[Peer]") : y > m}}

Base(k) ==
    CASE command.name = "setconf" -> NewPeer
      [] command.name = "syncconf" -> [NewPeer EXCEPT !.ep = dev0.peers[k].ep]
      [] command.name = "addconf" -> IF dev0.peers[k].on THEN dev0.peers[k] ELSE NewPeer

NumOr0(v) == IF v.t \in {"num", "key"} THEN v.n ELSE 0
Address(v) == v.a

PeerMeant(k) ==
    IF k \in FilePeers
    THEN [on |-> TRUE, psk |-> LastGiven(OfPeer("PresharedKey", k), NumOr0, Base(k).psk),
          ka |-> LastGiven(OfPeer("PersistentKeepalive", k), NumOr0, Base(k).ka),
          ep |-> LastGiven(OfPeer("Endpoint", k), Address, Base(k).ep), ips |-> FileIps(k)]
    ELSE IF command.name # "addconf" THEN NoPeer
    ELSE [dev0.peers[k] EXCEPT !.ips = @ \ UNION {Mentioned(m) : m \in Lines("[Peer]")}]

DeviceMeant ==
    LET old == IF command.name = "addconf" THEN dev0 ELSE [key |-> 0, port |-> 0, mark |-> 0]
    IN  [key |-> LastGiven(Lines("PrivateKey"), NumOr0, old.key), port |-> LastGiven(Lines("ListenPort"), NumOr0, old.port),
         mark |-> LastGiven(Lines("FwMark"), NumOr0, old.mark), peers |-> [k \in Keys |-> PeerMeant(k)]]

Signed == \E n \in Lines("AllowedIPs") : \E j \in DOMAIN command.args[n].val.l : command.args[n].val.l[j].mod # ""
Repeated == \E m, n \in Lines("[Peer]") : m # n /\ PeerOf(m) = PeerOf(n)

\* Equal but for the endpoints of peers that have roamed, and for the mark,
\* which Windows does not have.
Same(a, b) ==
    /\ a.key = b.key /\ a.port = b.port /\ (transport = "windows" \/ a.mark = b.mark)
    /\ \A k \in Keys : IF k \in roamed THEN [a.peers[k] EXCEPT !.ep = None] = [b.peers[k] EXCEPT !.ep = None]
                       ELSE a.peers[k] = b.peers[k]

Ended == pc \in {"ok", "failed"}

-----------------------------------------------------------------------------
(* Properties *)

\* An allowed IP belongs to one peer, a peer that is gone has none, and the
\* cursors of kernel_set_device stay within the request.
TypeOK ==
    /\ \A k \in Keys : dev.peers[k].on \/ dev.peers[k].ips = {}
    /\ \A k, j \in Keys : k # j => dev.peers[k].ips \cap dev.peers[j].ips = {}
    /\ pc \in {"read", "sync", "prepare", "peer", "ip", "send", "ioctl", "open", "lines", "ok", "failed"}
    /\ req # None => nl.peer \in 0..(Len(req.peers) + 1) /\ (nl.ip # 0 => nl.ip \in 1..(Len(req.peers[nl.peer].ips) + 1))
    /\ nl.len <= buflen

\* kernel_set_device, userspace_set_device: when the tool reports success the
\* device is what the request makes of it in one piece, however many messages
\* it was sent in and wherever they were cut.
SetExact == pc = "ok" => Same(dev, Apply(dev0, req))

\* setconf, addconf, syncconf: when the tool reports success, the device is
\* what the file says: its lines over nothing, over what was there, or over
\* the endpoints that were there (syncconf, if no key is in the file twice).
FileExact ==
    pc = "ok" /\ command.name # "set" /\ ~ Signed /\ ~ (command.name = "syncconf" /\ Repeated) => Same(dev, DeviceMeant)

\* The IPs that the file, or the arguments, list for a peer.
Asked(k) ==
    CASE req = None -> {}
      [] req # None /\ command.name = "set" -> UNION {{e.ip : e \in Range(q.ips)} : q \in {x \in Range(req.peers) : x.pk = k}}
      [] req # None /\ command.name # "set" -> UNION {Mentioned(m) : m \in {x \in Lines("[Peer]") : PeerOf(x) = k}}

\* At no time, also not after a failure halfway, has an allowed IP been given
\* to a peer that did not have it before and for which it was not listed.
NoMisrouting == \A k \in Keys : dev.peers[k].ips \ dev0.peers[k].ips \subseteq Asked(k)

\* wg(8) of syncconf: "has the benefit of not disrupting current peer
\* sessions": a peer of the device and of the file is never removed on the
\* way, and its endpoint changes only if the file gives one or it roams.
SyncKeepsPeers ==
    [][command.name = "syncconf" => \A k \in FilePeers : dev.peers[k].on =>
          /\ dev'.peers[k].on
          /\ dev'.peers[k].ep # dev.peers[k].ep => k \in roamed' \ roamed \/ OfPeer("Endpoint", k) # {}]_vars

\* showconf, setconf: the file that showconf prints of a device makes any
\* other device equal to it.
Copies == pc = "ok" /\ command.of # None => Same(dev, command.of)

\* kernel_set_device and the ioctls end: every message takes something.
Terminates == transport # "uapi" => <>Ended

=============================================================================
