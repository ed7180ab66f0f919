-------------------------------- MODULE WgShow --------------------------------
(***************************************************************************)
(* `wg show' and `wg showconf', and the same done with the embeddable      *)
(* library: the interfaces are listed, and each is read while it and the   *)
(* others change.  On Linux a dump comes in messages, and the kernel marks *)
(* a message if the device has changed since the one before; elsewhere a   *)
(* device is read in one call, once the buffer is large enough.            *)
(***************************************************************************)
EXTENDS WgPrint, FiniteSets

CONSTANTS
    Order,       \* the names of the interfaces, in the order of a dump or a directory
    Systems,     \* subset of {"linux", "library", "openbsd", "freebsd", "windows"}
    Commands,    \* records: prog ("show" or "showconf"), all, iface
    Starts,      \* the interfaces at the start: name -> record of kind, dev, sock
    Devices,     \* what a device can be changed to
    MaxItems,    \* peers and IPs in a message
    MaxChanges,
    Faults

VARIABLES
    system, command,
    kind,     \* "none", "wireguard" or "tun", by name
    dev,      \* the device, by name
    sock,     \* "none", "stale" or "live": the socket of a user-space implementation
    changes,  \* how often something has changed
    intr,     \* the next message of the dump is marked
    pc, list, todo, cur,
    at,       \* the cursor of a dump or a directory, or the size of the buffer
    more,     \* the dump has more messages
    err,      \* ret of the function that reads a device
    buf,      \* the device so far
    cache,    \* Windows: the names of pipes seen by the listing, or None
    ret, shown,
    seen,     \* what the device has been since its read began
    met       \* what happened: names that were there at some time, all the time; errors

vars == <<system, command, kind, dev, sock, changes, intr, pc, list, todo, cur, at, more, err, buf, cache, ret, shown, seen, met>>

Ifaces == Range(Order)
World == <<kind, dev, sock, changes>>
Fixed == <<system, command>>

\* The interfaces that are there: of the kernel, or with a process behind the socket.
Present(k, s) == {i \in Ifaces : k[i] = "wireguard" \/ (system # "library" /\ s[i] = "live")}

Init ==
    /\ system \in Systems
    /\ command \in Commands
    /\ \E s \in Starts : kind = [i \in Ifaces |-> s[i].kind] /\ dev = [i \in Ifaces |-> s[i].dev] /\ sock = [i \in Ifaces |-> s[i].sock]
    /\ changes = 0 /\ intr = FALSE
    /\ pc = IF command.all THEN "list" ELSE "next"
    /\ list = <<>> /\ todo = (IF command.all THEN <<>> ELSE <<command.iface>>)
    /\ cur = None /\ at = 0 /\ more = FALSE /\ err = "0" /\ buf = ReadDevice /\ cache = None
    /\ ret = 0 /\ shown = <<>> /\ seen = {}
    /\ met = [some |-> Present(kind, sock), always |-> Present(kind, sock), failed |-> {}, partial |-> FALSE]

-----------------------------------------------------------------------------
(* What changes by itself *)

Happens ==
    /\ pc # "exit" /\ changes < MaxChanges
    /\ changes' = changes + 1
    /\ met' = [met EXCEPT !.some = @ \cup Present(kind', sock'), !.always = @ \cap Present(kind', sock')]
    /\ seen' = IF cur = None THEN seen ELSE seen \cup {dev'[cur]}
    /\ UNCHANGED <<Fixed, pc, list, todo, cur, at, more, err, buf, cache, ret, shown>>

\* Another `wg set': the kernel counts it.
Change(i) ==
    /\ kind[i] = "wireguard"
    /\ \E d \in Devices : d # dev[i] /\ dev' = [dev EXCEPT ![i] = d]
    /\ intr' = (intr \/ (i = cur /\ pc = "dump"))
    /\ UNCHANGED <<kind, sock>>
    /\ Happens

\* A handshake is not counted.
Handshake(i) ==
    /\ kind[i] = "wireguard"
    /\ \E k \in DOMAIN dev[i].peers : dev' = [dev EXCEPT ![i].peers[k].hs = @ + 1]
    /\ UNCHANGED <<kind, sock, intr>>
    /\ Happens

\* An interface comes, or goes (not in the middle of a dump of it).
Link(i) ==
    /\ kind[i] # "tun" /\ ~ (i = cur /\ pc = "dump")
    /\ kind' = [kind EXCEPT ![i] = IF @ = "none" THEN "wireguard" ELSE "none"]
    /\ intr' = (intr \/ pc = "links")
    /\ UNCHANGED <<dev, sock>>
    /\ Happens

\* A user-space implementation dies, and leaves its socket, or starts, and
\* puts its own in place.  A pipe of Windows is gone with its process.
Daemon(i) ==
    /\ kind[i] = "tun"
    /\ sock' = [sock EXCEPT ![i] = IF @ # "live" THEN "live" ELSE IF system = "windows" THEN "none" ELSE "stale"]
    /\ UNCHANGED <<kind, dev, intr>>
    /\ Happens

-----------------------------------------------------------------------------
(* ipc_list_devices *)

string_list_add(l, name) == IF name = "" THEN l ELSE Append(l, name)

AfterKernel == IF system = "library" THEN "listed" ELSE "socks"

ListStart ==
    /\ pc = "list"
    /\ at' = 0 /\ intr' = FALSE
    /\ pc' = CASE system \in {"linux", "library"} -> "links" [] system \in {"openbsd", "freebsd"} -> "group" [] system = "windows" -> "adapters"
    /\ UNCHANGED <<Fixed, World, list, todo, cur, more, err, buf, cache, ret, shown, seen, met>>

\* A link's message: its name is taken if its kind is WireGuard's.
read_devices_cb(l, i) == IF kind[i] = "wireguard" THEN string_list_add(l, i) ELSE l

\* Mutant: the end is taken one message early.
ListLinksShort ==
    /\ pc = "links"
    /\ IF at + 1 = Len(Order) \/ intr THEN pc' = AfterKernel /\ at' = 0 /\ list' = list /\ met' = [met EXCEPT !.partial = intr]
       ELSE pc' = pc /\ at' = at + 1 /\ list' = read_devices_cb(list, Order[at + 1]) /\ met' = met
    /\ UNCHANGED <<Fixed, World, intr, todo, cur, more, err, buf, cache, ret, shown, seen>>

\* A marked message ends the listing, with what there is; so does the end.
ListLinks ==
    /\ pc = "links"
    /\ IF at = Len(Order) \/ intr THEN pc' = AfterKernel /\ at' = 0 /\ list' = list /\ met' = [met EXCEPT !.partial = intr]
       ELSE pc' = pc /\ at' = at + 1 /\ list' = read_devices_cb(list, Order[at + 1]) /\ met' = met
    /\ UNCHANGED <<Fixed, World, intr, todo, cur, more, err, buf, cache, ret, shown, seen>>

KernelNames == SelectSeq(Order, LAMBDA i : kind[i] = "wireguard")

\* The BSDs: the size of the group, then its members; what is missing is "".
\* A group without members does not exist.
ListGroup ==
    /\ pc = "group"
    /\ at' = Len(KernelNames) /\ pc' = IF KernelNames = <<>> THEN "socks" ELSE "members"
    /\ UNCHANGED <<Fixed, World, intr, list, todo, cur, more, err, buf, cache, ret, shown, seen, met>>

ListMembers ==
    LET n == Len(KernelNames)
    IN  /\ pc = "members"
        /\ IF n > at \/ n = 0 THEN pc' = "exit" /\ ret' = 1 /\ list' = list /\ met' = [met EXCEPT !.partial = TRUE]
           ELSE /\ pc' = "socks" /\ ret' = ret /\ met' = met
                /\ list' = Over(string_list_add, list, [k \in 1..at |-> IF k <= n THEN KernelNames[k] ELSE ""])
        /\ at' = 0
        /\ UNCHANGED <<Fixed, World, intr, todo, cur, more, err, buf, cache, shown, seen>>

\* Windows: the adapters; the pipes, whose names are kept.
ListAdapters ==
    LET pipes == SelectSeq(Order, LAMBDA i : sock[i] = "live")
    IN  /\ pc = "adapters"
        /\ list' = Over(string_list_add, list, KernelNames \o pipes)
        /\ cache' = Range(pipes)
        /\ pc' = "listed"
        /\ UNCHANGED <<Fixed, World, intr, todo, cur, at, more, err, buf, ret, shown, seen, met>>

\* The directory of the sockets; each is tried (userspace_has_wireguard_interface).
ListSocks ==
    LET i == Order[at + 1]
    IN  /\ pc = "socks"
        /\ IF at = Len(Order) THEN pc' = "listed" /\ UNCHANGED <<list, at, cur>>
           ELSE /\ at' = at + 1
                /\ list' = IF sock[i] = "live" THEN string_list_add(list, i) ELSE list
                /\ pc' = IF sock[i] = "stale" THEN "unlink" ELSE pc
                /\ cur' = IF sock[i] = "stale" THEN i ELSE cur
        /\ UNCHANGED <<Fixed, World, intr, todo, more, err, buf, cache, ret, shown, seen, met>>

\* The process was gone when it was asked.
ListUnlink ==
    /\ pc = "unlink"
    /\ sock' = [sock EXCEPT ![cur] = "none"]
    /\ pc' = "socks" /\ cur' = None
    /\ UNCHANGED <<Fixed, kind, dev, changes, intr, list, todo, at, more, err, buf, cache, ret, shown, seen, met>>

\* show_main: ret is 1 until an interface has been shown, if there is one.
Listed ==
    /\ pc = "listed"
    /\ todo' = list /\ ret' = IF list = <<>> THEN 0 ELSE 1
    /\ pc' = "next"
    /\ UNCHANGED <<Fixed, World, intr, list, cur, at, more, err, buf, cache, shown, seen, met>>

-----------------------------------------------------------------------------
(* show_main, showconf_main, ipc_get_device *)

NextIface ==
    /\ pc = "next"
    /\ IF todo = <<>> THEN pc' = "exit" /\ UNCHANGED <<todo, cur, seen>>
       ELSE cur' = Head(todo) /\ todo' = Tail(todo) /\ seen' = {dev[Head(todo)]} /\ pc' = IF system = "library" THEN "call" ELSE "has"
    /\ UNCHANGED <<Fixed, World, intr, list, at, more, err, buf, cache, ret, shown, met>>

\* Windows asks the cache, if there is one.
userspace_has_wireguard_interface == IF system = "windows" /\ cache # None THEN cur \in cache ELSE sock[cur] = "live"

Has ==
    /\ pc = "has"
    /\ pc' = CASE userspace_has_wireguard_interface -> "connect" [] sock[cur] = "stale" -> "hasunlink" [] OTHER -> "call"
    /\ UNCHANGED <<Fixed, World, intr, list, todo, cur, at, more, err, buf, cache, ret, shown, seen, met>>

HasUnlink ==
    /\ pc = "hasunlink"
    /\ sock' = [sock EXCEPT ![cur] = "none"]
    /\ pc' = "call"
    /\ UNCHANGED <<Fixed, kind, dev, changes, intr, list, todo, cur, at, more, err, buf, cache, ret, shown, seen, met>>

\* What is done with an answer: an error is reported and the next interface is
\* taken; with a device, it is printed.  show_main goes on with any answer
\* that is not negative; showconf_main with 0 only.
Answered(r) ==
    /\ IF r.dev # None
       THEN /\ shown' = Append(shown, [iface |-> cur, dev |-> r.dev, seen |-> seen])
            /\ ret' = 0 /\ pc' = "next" /\ met' = met
       ELSE /\ shown' = shown
            /\ met' = [met EXCEPT !.failed = @ \cup {cur}]
            /\ ret' = IF command.all THEN ret ELSE 1
            /\ pc' = IF command.prog = "show" /\ r.ret = "ENETUNREACH" THEN "crash" ELSE "next"
    /\ cur' = None /\ seen' = {} /\ at' = 0 /\ more' = FALSE /\ err' = "0" /\ buf' = ReadDevice /\ intr' = FALSE
    /\ UNCHANGED <<Fixed, kind, dev, changes, list, todo, cache>>

Error == [ret |-> "error", dev |-> None]
Device(d) == [ret |-> "0", dev |-> d]

\* The answers of the other side: all of it, up to some line, or with a value
\* that is no number.
Replies(d) ==
    LET r == UapiReply(d)
    IN  {r} \cup (IF ~ Faults THEN {} ELSE {SubSeq(r, 1, n) : n \in 0..(Len(r) - 1)} \cup {SubSeq(r, 1, n) \o <<CutLine>> : n \in {1, 3}}
                                            \cup {[r EXCEPT ![n].val = Bad] : n \in {m \in DOMAIN r : r[m].key # ""}}
                                            \cup {<<[key |-> "errno", val |-> 1], EmptyLine>>})

\* userspace_interface_file, and the answer to get=1.
Userspace ==
    /\ pc = "connect"
    /\ CASE sock[cur] = "live" -> (\E lines \in Replies(dev[cur]) : \E r \in {userspace_get_device(lines)} : Answered(r)) /\ sock' = sock
         [] sock[cur] = "none" -> Answered(Error) /\ sock' = sock
         [] sock[cur] = "stale" -> pc' = "connunlink" /\ UNCHANGED <<Fixed, World, intr, list, todo, cur, at, more, err, buf, cache, ret, shown, seen, met>>

ConnUnlink ==
    /\ pc = "connunlink"
    /\ sock' = [sock EXCEPT ![cur] = "none"]
    /\ Answered(Error)

-----------------------------------------------------------------------------
(* kernel_get_device *)

There == kind[cur] = "wireguard"

\* Mutant: ret is not cleared.
MnlgSocketOpenKeeps ==
    /\ pc = "call" /\ system \in {"linux", "library"}
    /\ IF ~ There THEN Answered(Error) /\ sock' = sock
       ELSE /\ pc' = "dump" /\ at' = 0 /\ more' = TRUE /\ buf' = ReadDevice /\ intr' = FALSE
            /\ UNCHANGED <<Fixed, World, list, todo, cur, err, cache, ret, shown, seen, met>>

\* Linux: a socket, a request.  try_again: the tool's function clears ret,
\* the library's does not.
mnlg_socket_open ==
    /\ pc = "call" /\ system \in {"linux", "library"}
    /\ IF ~ There THEN Answered(Error) /\ sock' = sock
       ELSE /\ pc' = "dump" /\ at' = 0 /\ more' = TRUE /\ buf' = ReadDevice /\ intr' = FALSE
            /\ err' = IF system = "linux" THEN "0" ELSE err
            /\ UNCHANGED <<Fixed, World, list, todo, cur, cache, ret, shown, seen, met>>

\* How much the kernel can put into a message.
Cuts == LET left == Len(Items(dev[cur])) - at IN IF left <= 0 THEN {0} ELSE 1..Min({left, MaxItems})

\* Mutant: marks are not looked at.
RecvUnmarked ==
    /\ pc = "dump" /\ more
    /\ \E n \in Cuts :
          /\ buf' \in {read_device_cb(buf, m) : m \in {DumpMessage(dev[cur], at, n)}}
          /\ at' = at + n /\ more' = (at + n < Len(Items(dev[cur])))
    /\ intr' = FALSE /\ pc' = pc /\ err' = err
    /\ UNCHANGED <<Fixed, World, list, todo, cur, cache, ret, shown, seen, met>>

\* A message of the dump; a marked one is EINTR, and the read begins again.
mnlg_socket_recv_run ==
    /\ pc = "dump" /\ more
    /\ IF intr /\ at > 0 THEN pc' = "call" /\ err' = "EINTR" /\ UNCHANGED <<at, more, buf, intr>>
       ELSE /\ \E n \in Cuts :
                  /\ buf' \in {read_device_cb(buf, m) : m \in {DumpMessage(dev[cur], at, n)}}
                  /\ at' = at + n /\ more' = (at + n < Len(Items(dev[cur])))
            /\ intr' = FALSE /\ pc' = pc /\ err' = err
    /\ UNCHANGED <<Fixed, World, list, todo, cur, cache, ret, shown, seen, met>>

\* The end of the dump: what is left of an earlier try counts.
GetDone ==
    /\ pc = "dump" /\ ~ more
    /\ IF err = "EINTR" THEN pc' = "call" /\ UNCHANGED <<Fixed, World, intr, list, todo, cur, at, more, err, buf, cache, ret, shown, seen, met>>
       ELSE (\E r \in {IF buf = None THEN Error ELSE Device(coalesce_peers(buf))} : Answered(r)) /\ sock' = sock

kernel_get_device == system = "linux" /\ (mnlg_socket_open \/ mnlg_socket_recv_run \/ GetDone)
wg_get_device == system = "library" /\ (mnlg_socket_open \/ mnlg_socket_recv_run \/ GetDone)

Size(d) == 1 + Len(Items(d))

\* Larger buffers are tried until the answer fits.
IoctlGrow ==
    /\ pc = "call" /\ system \in {"openbsd", "windows"}
    /\ IF ~ There THEN Answered(Error)
       ELSE IF at >= Size(dev[cur])
       THEN \E io \in {IoOf(dev[cur])} : \E d \in {IF system = "openbsd" THEN openbsd_device(io) ELSE windows_device(io)} : Answered(Device(d))
       ELSE at' = Size(dev[cur]) /\ UNCHANGED <<Fixed, World, intr, pc, list, todo, cur, more, err, buf, cache, ret, shown, seen, met>>
    /\ sock' = sock

\* FreeBSD: the size, and then the data or an error.
IoctlTwice ==
    /\ pc = "call" /\ system = "freebsd"
    /\ IF ~ There \/ (at > 0 /\ at < Size(dev[cur])) THEN Answered(Error)
       ELSE IF at > 0 THEN \E d \in {freebsd_device(NvOf(dev[cur]))} : Answered(IF d = None THEN Error ELSE Device(d))
       ELSE at' = Size(dev[cur]) /\ UNCHANGED <<Fixed, World, intr, pc, list, todo, cur, more, err, buf, cache, ret, shown, seen, met>>
    /\ sock' = sock

\* A call of the operating system fails.
CallFails ==
    /\ Faults /\ pc \in {"call", "dump"}
    /\ Answered(Error) /\ sock' = sock

-----------------------------------------------------------------------------

Tool ==
    \/ ListStart \/ ListLinks \/ ListGroup \/ ListMembers \/ ListAdapters \/ ListSocks \/ ListUnlink \/ Listed
    \/ NextIface \/ Has \/ HasUnlink \/ Userspace \/ ConnUnlink
    \/ kernel_get_device \/ wg_get_device \/ IoctlGrow \/ IoctlTwice

Environment == \E i \in Ifaces : Change(i) \/ Handshake(i) \/ Link(i) \/ Daemon(i)

Next == Tool \/ CallFails \/ Environment

\* The tool goes on, and what it asks is answered: weak fairness of Tool, which
\* is enabled until the tool has ended.
Fairness == []<>(pc \in {"exit", "crash"}) \/ []<><<Tool>>_vars

Spec == Init /\ [][Next]_vars /\ Fairness

-----------------------------------------------------------------------------
(* Properties *)

\* The settings of a device read, without what changes by itself.
Settings(r) == [key |-> r.key, port |-> r.port, mark |-> IF system = "windows" THEN 0 ELSE r.mark,
                peers |-> [k \in DOMAIN r.peers |-> [r.peers[k] EXCEPT !.hs = 0]]]
HandshakesOf(ds, pk) == UNION {{d.peers[k].hs : k \in {j \in DOMAIN d.peers : d.peers[j].pk = pk}} : d \in ds}

\* The cursors stay within what is read, and an exit status is 0 or 1.
TypeOK ==
    /\ pc \in {"list", "links", "group", "members", "adapters", "socks", "unlink", "listed", "next", "has", "hasunlink", "connect",
               "connunlink", "call", "dump", "exit"}
    /\ cur = None \/ cur \in Ifaces
    /\ (cur = None) = (pc \notin {"unlink", "has", "hasunlink", "connect", "connunlink", "call", "dump"})
    /\ ret \in {0, 1} /\ err \in {"0", "EINTR"}
    /\ pc \in {"links", "socks"} => at \in 0..Len(Order)

\* kernel_get_device, userspace_get_device: what is shown of a device is what
\* it was, as a whole, at one moment of the read, whatever changed meanwhile;
\* each time of a handshake is one that the peer had.
ReadExact ==
    \A n \in DOMAIN shown :
        LET r == shown[n].dev
        IN  /\ \E d \in shown[n].seen : Settings(AsRead(d)) = Settings(r)
            /\ \A k \in DOMAIN r.peers : r.peers[k].hs \in HandshakesOf(shown[n].seen, r.peers[k].pk)

\* ipc_list_devices, show_main: an interface that was there from the start to
\* the end is shown, unless the listing was cut short by a change or the read
\* of it failed; nothing is listed twice or that has not been a WireGuard
\* interface since the listing began; and the exit status tells whether nothing
\* could be shown.
ShowComplete ==
    /\ Range(list) \subseteq met.some /\ \A m, n \in DOMAIN list : m # n => list[m] # list[n]
    /\ pc = "exit" /\ command.all /\ ~ met.partial =>
          /\ \A i \in met.always \ met.failed : \E n \in DOMAIN shown : shown[n].iface = i
          /\ (ret = 0) = (shown # <<>> \/ list = <<>>)

\* wg(8) of show: the columns of dump are what is shown by each parameter, for
\* the same peers in the same order, and with `all' the first field of every
\* line is the interface; the display for the terminal has every peer once.
DumpAgrees ==
    \A n \in DOMAIN shown :
        LET d == shown[n].dev
            name == IF command.all THEN shown[n].iface ELSE None
            o == IF command.all THEN 1 ELSE 0
            dump == dump_print(d, name)
            labels == SelectSeq(pretty_print(d), LAMBDA l : l[1] = "peer")
        IN  /\ \A p \in DOMAIN PeerColumn : \A k \in DOMAIN d.peers : Len(ugly_print(d, p, name)[k]) = o + 2
            /\ \A p \in DOMAIN DeviceColumn : ugly_print(d, p, name)[1][o + 1] = dump[1][o + DeviceColumn[p]]
            /\ \A p \in DOMAIN PeerColumn : \A k \in DOMAIN d.peers :
                  LET line == ugly_print(d, p, name)[k]
                  IN  line[o + 1] = dump[k + 1][o + 1] /\ line[o + 2] = dump[k + 1][o + PeerColumn[p]]
            /\ \A p \in DOMAIN DeviceColumn \cup DOMAIN PeerColumn \cup {"peers", "dump"} :
                  \A k \in DOMAIN ugly_print(d, p, name) : command.all => ugly_print(d, p, name)[k][1] = shown[n].iface
            /\ Len(labels) = Len(d.peers) /\ {l[2] : l \in Range(labels)} = {d.peers[k].pk : k \in DOMAIN d.peers}

\* wg: the tool comes to an end once the devices have stopped changing.
Terminates == system # "library" => <>(pc = "exit")

\* The example of the library, test.c, gets a device and goes on, with it or
\* with an error: wg_get_device returns once the device has stopped changing.
LibraryReturns == system = "library" => <>(pc = "exit")

\* "If the process is gone, we try to clean up the socket": the socket of a
\* process that is there is not removed.
LiveSocketKept == [][\A i \in Ifaces : sock[i] = "live" /\ changes' = changes => sock'[i] = "live"]_vars

=============================================================================
