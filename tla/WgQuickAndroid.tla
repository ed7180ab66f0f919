---------------------------- MODULE WgQuickAndroid ----------------------------
(***************************************************************************)
(* wg-quick for Android: `up' and `down' are sequences of shell commands   *)
(* (cmd), of requests to netd (cndc) and of listings whose output decides  *)
(* what is run next (cmd_ret).  A process is the list of what it has still *)
(* to run.  Every command can fail; a failure of `up' runs cmd_up_cleanup. *)
(*                                                                         *)
(* The kernel's links, iptables and netd are shared by all processes.  An  *)
(* interface name is a sequence of characters, because the expression that *)
(* finds the interface's rule is not anchored at its end.                  *)
(***************************************************************************)
EXTENDS Lists

CONSTANTS
    Ifaces,     \* interface names
    AppIfaces,  \* the interfaces the app raises and lowers; the others are a shell's
    Files,      \* configuration files: sequences of lines
    Netids,     \* the values `random() & 0xfffe' can take
    Packages,   \* packages.list: the uid of every application
    MaxUid,     \* 99999 in the code
    Batch,      \* 18 in the code: ranges per command
    RouteMtu,   \* the MTU of the route to every endpoint and of "default", or -1
    Binder,     \* TRUE: the DNS resolver is reached through Binder
    MaxFaults,  \* bound: commands that fail although they could succeed
    None

ASSUME WgQuickAndroidAssumption ==
    /\ MaxUid \in Nat \ {0} /\ Batch \in Nat \ {0} /\ MaxFaults \in Nat
    /\ {Packages[a] : a \in DOMAIN Packages} \subseteq 1..MaxUid
    /\ None \notin Netids \cup Ifaces /\ \A i \in Ifaces : i \in Seq(STRING)
    /\ \A f \in Files : f \in Seq(Range(f)) /\ \A l \in Range(f) : l.val \in Seq(Range(l.val))

VARIABLES
    link,    \* kernel: what is known of every interface
    rules,   \* iptables and ip6tables: the rules that name an interface
    nets,    \* netd: the networks
    run,     \* the process that works on each interface
    faults,  \* failures so far
    dirty    \* names for which a deletion has failed at some time

vars == <<link, rules, nets, run, faults, dirty>>

NoLink == [exists |-> FALSE, up |-> FALSE, mark |-> FALSE, config |-> <<>>, addrs |-> {}, mtu |-> 0]
NoNet == [exists |-> FALSE, iface |-> None, dns |-> {}, routes |-> {}, users |-> {}]

-----------------------------------------------------------------------------
(* parse_options: the lines of a file.  A line is a key with the list of   *)
(* values it gives; sections are keys too.                                 *)

NoOptions == [in |-> FALSE, config |-> <<>>, addrs |-> <<>>, dnses |-> <<>>, excluded |-> None, included |-> None, mtu |-> 0]

\* The comma-separated lists of two lines are concatenated.
concat_and_free(old, new) == IF old = None THEN new ELSE old \o new

ParseLine(o, l) ==
    LET in == IF l.key \in {"[Interface]", "[Peer]"} THEN l.key = "[Interface]" ELSE o.in
        s  == [o EXCEPT !.in = in]
    IN  CASE in /\ l.key = "Address" /\ l.val # <<>> -> [s EXCEPT !.addrs = @ \o l.val]
          [] in /\ l.key = "DNS" /\ l.val # <<>> -> [s EXCEPT !.dnses = @ \o l.val]
          [] in /\ l.key = "ExcludedApplications" -> [s EXCEPT !.excluded = concat_and_free(@, l.val)]
          [] in /\ l.key = "IncludedApplications" -> [s EXCEPT !.included = concat_and_free(@, l.val)]
          [] in /\ l.key = "MTU" /\ l.val # <<>> -> [s EXCEPT !.mtu = l.val[1]]
          [] OTHER -> [s EXCEPT !.config = Append(@, l)]

parse_options(file) == FoldLeft(ParseLine, NoOptions, file)

\* What `wg show' reports of a device that was given these lines.
Values(config, key) == Flatten([k \in DOMAIN config |-> IF config[k].key = key THEN config[k].val ELSE <<>>])

-----------------------------------------------------------------------------
(* The commands each function runs, in order. *)

Is6(a) == a \in {"a6", "b6"}

add_if == << <<"link add">> >>

set_config == << <<"wg addconf">> >>

\* The link is set down again once the port has been read.
determine_listen_port == << <<"link up">>, <<"wg show listen-port">> >>

\* Mutant: the link is not set up again.
UpIfDown(port) ==
    << <<"wg set fwmark">>, <<"rule", "4", "OUTPUT">>, <<"rule", "6", "OUTPUT">> >>
        \o (IF port = 0 THEN <<>> ELSE << <<"rule", "4", "INPUT">>, <<"rule", "6", "INPUT">> >>)
        \o << <<"network create">>, <<"network interface add">> >>

up_if(port) ==
    << <<"wg set fwmark">>, <<"rule", "4", "OUTPUT">>, <<"rule", "6", "OUTPUT">> >>
        \o (IF port = 0 THEN <<>> ELSE << <<"rule", "4", "INPUT">>, <<"rule", "6", "INPUT">> >>)
        \o << <<"link up">>, <<"network create">>, <<"network interface add">> >>

add_addr(addr) == IF Is6(addr) THEN << <<"ipv6 enable">>, <<"addr add", addr>> >> ELSE << <<"addr add", addr>> >>

set_addr(addrs) == Flatten([k \in DOMAIN addrs |-> add_addr(addrs[k])])

\* Servers and search domains; without a server nothing is set.
set_dnses(dnses) ==
    LET servers == Range(dnses) \ {"host"}
        domains == Range(dnses) \cap {"host"}
        set     == << <<"dns", servers, domains>> >>
    IN  IF servers = {} THEN <<>> ELSE IF Binder THEN << <<"createNetworkCache">> >> \o set ELSE set

set_routes == << <<"wg show allowed-ips">> >>

compare_uid(a, b) == a <= b

\* The uids of a sorted list that compare as less or equal are in front.
Place(uids, uid) == Max({0} \cup {k \in DOMAIN uids : compare_uid(uids[k], uid)}) + 1

AddUid(uids, app) ==
    IF app \in DOMAIN Packages THEN InsertedAt(uids, Place(uids, Packages[app]), Packages[app]) ELSE uids

\* A uid for every entry of the list that names a package, sorted.
get_uid_list(list) == IF list = None THEN <<>> ELSE FoldLeft(AddUid, <<>>, list)

\* Mutant: the range before a uid includes the uid.
NextRangeOff(acc, uid) == [start |-> uid + 1, ranges |-> Append(acc.ranges, acc.start..uid)]

NextRange(acc, uid) ==
    [start |-> uid + 1,
     ranges |-> IF acc.start > uid - 1 THEN acc.ranges ELSE Append(acc.ranges, acc.start..(uid - 1))]

\* The ranges between the uids of a sorted list, and the one after the last.
ExcludedRanges(uids) ==
    LET acc == FoldLeft(NextRange, [start |-> 0, ranges |-> <<>>], uids)
    IN  IF acc.start < MaxUid THEN Append(acc.ranges, acc.start..MaxUid) ELSE acc.ranges

\* args_per_command counts the ranges of the command that is being put together.
AddRange(acc, range) ==
    IF acc.args + 1 = Batch
    THEN [args |-> 0, users |-> {}, cmds |-> Append(acc.cmds, <<"users add", acc.users \cup range>>)]
    ELSE [args |-> acc.args + 1, users |-> acc.users \cup range, cmds |-> acc.cmds]

\* One command for every Batch ranges, and one for the rest.
Batches(ranges) ==
    LET acc == FoldLeft(AddRange, [args |-> 0, users |-> {}, cmds |-> <<>>], ranges)
    IN  IF acc.args = 0 THEN acc.cmds ELSE Append(acc.cmds, <<"users add", acc.users>>)

set_users(excluded, included) ==
    LET list  == IF included = None THEN excluded ELSE included
        uids  == get_uid_list(list)
        open  == IF list = None THEN <<>> ELSE << <<"fopen packages.list">> >>
    IN  IF excluded # None /\ included # None THEN << <<"exit">> >>
        ELSE open \o Batches(IF included = None THEN ExcludedRanges(uids) ELSE [k \in DOMAIN uids |-> {uids[k]}])

\* Not when the app itself runs wg-quick.
broadcast_change(p) == IF p \in AppIfaces THEN <<>> ELSE << <<"am broadcast">> >>

\* Mutant: the network is left.
DelIfNoNet == << <<"link del">>, <<"save", "4">>, <<"save", "6">> >>

del_if == << <<"link del">>, <<"save", "4">>, <<"save", "6">>, <<"ip rule show">> >>

\* What is left of cmd_up when the port has been read.
AfterPort(p, port) ==
    LET o == run[p].opts IN
    << <<"link down">> >> \o up_if(port) \o set_addr(o.addrs) \o set_dnses(o.dnses) \o set_routes
        \o << <<"setmtu">> >> \o set_users(o.excluded, o.included) \o broadcast_change(p)

\* The first command of each; the rest follows when it has answered.
cmd_up == << <<"ip link show">> >>
cmd_down == << <<"wg show interfaces">> >>
-----------------------------------------------------------------------------
(* What the listings decide. *)

\* An endpoint as `wg show endpoints' prints it, "none" for "(none)".
should_block_ipv6(config) ==
    LET eps == Range(Values(config, "Endpoint"))
    IN  (\A e \in eps : ~ Is6(e)) /\ (\E e \in eps : e # "none")

\* A line of `wg show endpoints': the key, a tab, the endpoint, a newline.
EndpointLine(e) == <<"key", "\t", e, "\n">>

\* The whole line must be an endpoint.
regex_endpoint(line) == Len(line) = 1 /\ line[1] # "none"

get_route_mtu(dest) == RouteMtu[dest]

\* The smallest of the MTUs of the routes, less 80.
set_mtu(config, mtu) ==
    LET eps  == {e \in Range(Values(config, "Endpoint")) : regex_endpoint(EndpointLine(e))}
        dflt == IF get_route_mtu("default") = -1 THEN 1500 ELSE get_route_mtu("default")
        all  == {dflt} \cup {get_route_mtu(e) : e \in {x \in eps : get_route_mtu(x) > 0}}
    IN  IF mtu # 0 THEN mtu ELSE Min(all) - 80

-----------------------------------------------------------------------------
(* Processes *)

Idle == [op |-> "down", status |-> "idle", opts |-> NoOptions, todo |-> <<>>,
         netid |-> None, cleanup |-> FALSE, exiting |-> FALSE, missed |-> FALSE]

Init ==
    /\ link = [i \in Ifaces |-> NoLink]
    /\ rules = {}
    /\ nets = [n \in Netids |-> NoNet]
    /\ run = [p \in Ifaces |-> Idle]
    /\ faults = 0
    /\ dirty = {}

Running(p) == run[p].status = "running"

\* main: the options are parsed, then one of the commands is started.  Two
\* processes do not work on the same interface: p is the interface.
main(p, op, file) ==
    /\ ~ Running(p)
    /\ run' = [run EXCEPT ![p] = IF op = "up"
                                THEN [Idle EXCEPT !.op = op, !.status = "running", !.opts = parse_options(file), !.todo = cmd_up]
                                ELSE [Idle EXCEPT !.op = op, !.status = "running", !.todo = cmd_down]]
    /\ UNCHANGED <<link, rules, nets, faults, dirty>>

At(p, c) == Running(p) /\ run[p].todo # <<>> /\ Head(run[p].todo)[1] = c
Arg(p) == Head(run[p].todo)[2]

\* The command has succeeded; the commands in more are run next.
Go(p, more) == run' = [run EXCEPT ![p].todo = more \o Tail(@)]
Done(p) == Go(p, <<>>)

Exit(p, status) == run' = [run EXCEPT ![p] = [Idle EXCEPT !.status = status]]

\* exit: cmd_up_cleanup runs once it is registered, unless all is done.
Cleanup(p) ==
    IF run[p].cleanup /\ ~ run[p].exiting THEN run' = [run EXCEPT ![p].exiting = TRUE, ![p].todo = del_if]
    ELSE Exit(p, "failed")

SetLink(p, l) == link' = [link EXCEPT ![p] = l] /\ Done(p) /\ UNCHANGED <<rules, nets, faults, dirty>>
SetNet(p, n, r) == nets' = [nets EXCEPT ![n] = r] /\ Done(p) /\ UNCHANGED <<link, rules, faults, dirty>>
Env == <<link, rules, nets, faults, dirty>>
Link(p) == link[p]
Net(p) == nets[run[p].netid]

ShowLink(p) ==
    /\ At(p, "ip link show")
    /\ IF Link(p).exists THEN Exit(p, "failed")
       ELSE run' = [run EXCEPT ![p].cleanup = TRUE, ![p].todo = add_if \o set_config \o determine_listen_port]
    /\ UNCHANGED Env

\* Mutant: `down' leaves the network.
ShowInterfacesKeepNet(p) ==
    /\ At(p, "wg show interfaces")
    /\ IF Link(p).exists THEN Go(p, SubSeq(del_if, 1, 3) \o broadcast_change(p)) ELSE Exit(p, "failed")
    /\ UNCHANGED Env

ShowInterfaces(p) ==
    /\ At(p, "wg show interfaces")
    /\ IF Link(p).exists THEN Go(p, del_if \o broadcast_change(p)) ELSE Exit(p, "failed")
    /\ UNCHANGED Env

AddLink(p) == At(p, "link add") /\ ~ Link(p).exists /\ SetLink(p, [NoLink EXCEPT !.exists = TRUE])
AddConf(p) == At(p, "wg addconf") /\ SetLink(p, [Link(p) EXCEPT !.config = run[p].opts.config])
LinkUp(p) == At(p, "link up") /\ SetLink(p, [Link(p) EXCEPT !.up = TRUE])
LinkDown(p) == At(p, "link down") /\ SetLink(p, [Link(p) EXCEPT !.up = FALSE])
SetMark(p) == At(p, "wg set fwmark") /\ SetLink(p, [Link(p) EXCEPT !.mark = TRUE])
AddAddr(p) == At(p, "addr add") /\ SetLink(p, [Link(p) EXCEPT !.addrs = @ \cup {Arg(p)}])
SetMtu(p) == At(p, "setmtu") /\ SetLink(p, [Link(p) EXCEPT !.mtu = set_mtu(Link(p).config, run[p].opts.mtu)])

\* The kernel has chosen a port when the link came up, if the file has none.
\* The number of the network is drawn here.
ShowPort(p, n) ==
    /\ At(p, "wg show listen-port")
    /\ run' = [run EXCEPT ![p].netid = n, ![p].todo = AfterPort(p, 1)]
    /\ UNCHANGED Env

\* A new rule; the one for incoming IPv6 accepts or drops.
AddRule(p) ==
    LET c == Head(run[p].todo)
    IN  /\ At(p, "rule")
        /\ rules' = rules \cup {[iface |-> p, fam |-> c[2], chain |-> c[3],
                                 drop |-> c = <<"rule", "6", "INPUT">> /\ should_block_ipv6(Link(p).config)]}
        /\ Done(p)
        /\ UNCHANGED <<link, nets, faults, dirty>>

\* Mutant: a network that exists is taken over.
CreateNetworkAnyway(p) == At(p, "network create") /\ SetNet(p, run[p].netid, [NoNet EXCEPT !.exists = TRUE])

CreateNetwork(p) ==
    /\ At(p, "network create")
    /\ ~ Net(p).exists
    /\ SetNet(p, run[p].netid, [NoNet EXCEPT !.exists = TRUE])
AddInterface(p) == At(p, "network interface add") /\ Net(p).exists /\ SetNet(p, run[p].netid, [Net(p) EXCEPT !.iface = p])
CreateCache(p) == At(p, "createNetworkCache") /\ Done(p) /\ UNCHANGED Env
SetDns(p) ==
    LET c == Head(run[p].todo)
    IN  At(p, "dns") /\ Net(p).exists /\ SetNet(p, run[p].netid, [Net(p) EXCEPT !.dns = c[2] \cup c[3]])
AddRoute(p) == At(p, "route add") /\ Net(p).exists /\ SetNet(p, run[p].netid, [Net(p) EXCEPT !.routes = @ \cup {Arg(p)}])
AddUsers(p) == At(p, "users add") /\ Net(p).exists /\ SetNet(p, run[p].netid, [Net(p) EXCEPT !.users = @ \cup Arg(p)])

\* One command for every allowed IP that is listed.
ListAllowedIps(p) ==
    LET ips == Values(Link(p).config, "AllowedIPs")
    IN  /\ At(p, "wg show allowed-ips")
        /\ Go(p, [k \in DOMAIN ips |-> <<"route add", ips[k]>>])
        /\ UNCHANGED Env

\* Commands whose effect is not part of the state.
Plain(p) ==
    /\ \E c \in {"ipv6 enable", "fopen packages.list", "am broadcast"} : At(p, c)
    /\ Done(p)
    /\ UNCHANGED Env

DelLink(p) == At(p, "link del") /\ Link(p).exists /\ SetLink(p, NoLink)

\* S in any order.
Listings(S) == UNION {Bijection(1..n, S) : n \in 0..Cardinality(S)}

\* iptables-save: every rule with the comment is deleted, in the order listed.
SaveRules(p) ==
    LET mine == {r \in rules : r.iface = p /\ r.fam = Arg(p)}
    IN  /\ At(p, "save")
        /\ \E listed \in Listings(mine) : Go(p, [k \in DOMAIN listed |-> <<"rule del", listed[k]>>])
        /\ UNCHANGED Env

DelRule(p) ==
    /\ At(p, "rule del")
    /\ rules' = rules \ {Arg(p)}
    /\ Done(p)
    /\ UNCHANGED <<link, nets, faults, dirty>>

\* rule_regex: the name listed begins with the interface's.
rule_regex(iface, name) == Len(iface) <= Len(name) /\ SubSeq(name, 1, Len(iface)) = iface

\* The first rule that matches gives the network; rules have no fixed order.
ShowRules(p) ==
    LET match == {n \in Netids : nets[n].exists /\ nets[n].iface # None /\ rule_regex(p, nets[n].iface)}
    IN  /\ At(p, "ip rule show")
        /\ IF match = {} THEN Done(p) ELSE \E n \in match : Go(p, << <<"network destroy", n>> >>)
        /\ UNCHANGED Env

DestroyNetwork(p) == At(p, "network destroy") /\ nets[Arg(p)].exists /\ SetNet(p, Arg(p), NoNet)

-----------------------------------------------------------------------------
(* Failures *)

\* What the kernel or netd refuse: a link or a network that exists already
\* or is gone, two lists of applications.
Refused(p) ==
    \/ At(p, "link add") /\ Link(p).exists
    \/ At(p, "link del") /\ ~ Link(p).exists
    \/ At(p, "network create") /\ Net(p).exists
    \/ \E c \in {"network interface add", "dns", "route add", "users add"} : At(p, c) /\ ~ Net(p).exists
    \/ At(p, "network destroy") /\ ~ nets[Arg(p)].exists
    \/ At(p, "exit")

Listing(p) == \E c \in {"ip link show", "wg show listen-port", "wg show allowed-ips", "save", "ip rule show"} : At(p, c)

Deleting(p) == \E c \in {"link del", "save", "rule del", "ip rule show", "network destroy"} : At(p, c)

\* Something that is there is not deleted.
Soil(p) == dirty' = IF Deleting(p) /\ ~ Refused(p) THEN dirty \cup {p} ELSE dirty

\* A command or a request fails, or a listing cannot be started.  cmd does not
\* exit a second time, the others do.
Fail(p) ==
    /\ Running(p) /\ run[p].todo # <<>>
    /\ Refused(p) \/ faults < MaxFaults
    /\ faults' = IF Refused(p) THEN faults ELSE faults + 1
    /\ IF run[p].exiting /\ ~ At(p, "network destroy") /\ ~ Listing(p) THEN Done(p) ELSE Cleanup(p)
    /\ Soil(p)
    /\ UNCHANGED <<link, rules, nets>>

\* A listing that fails is an empty listing.
ListNothing(p, n) ==
    /\ Listing(p)
    /\ faults < MaxFaults
    /\ faults' = faults + 1
    /\ run' = [run EXCEPT ![p].missed = TRUE,
                          ![p].cleanup = @ \/ At(p, "ip link show"),
                          ![p].netid = IF At(p, "wg show listen-port") THEN n ELSE @,
                          ![p].todo = CASE At(p, "ip link show") -> add_if \o set_config \o determine_listen_port
                                        [] At(p, "wg show listen-port") -> AfterPort(p, 0)
                                        [] OTHER -> Tail(@)]
    /\ Soil(p)
    /\ UNCHANGED <<link, rules, nets>>

Finish(p) == Running(p) /\ run[p].todo = <<>> /\ Exit(p, IF run[p].exiting THEN "failed" ELSE "ok") /\ UNCHANGED Env

Next ==
    \E p \in Ifaces :
        \/ \E op \in {"up", "down"}, f \in Files : main(p, op, f)
        \/ ShowLink(p)
        \/ ShowInterfaces(p)
        \/ AddLink(p)
        \/ AddConf(p)
        \/ LinkUp(p)
        \/ LinkDown(p)
        \/ SetMark(p)
        \/ AddAddr(p)
        \/ SetMtu(p)
        \/ \E n \in Netids : ShowPort(p, n)
        \/ AddRule(p)
        \/ CreateNetwork(p)
        \/ AddInterface(p)
        \/ CreateCache(p)
        \/ SetDns(p)
        \/ AddRoute(p)
        \/ AddUsers(p)
        \/ ListAllowedIps(p)
        \/ Plain(p)
        \/ DelLink(p)
        \/ SaveRules(p)
        \/ DelRule(p)
        \/ ShowRules(p)
        \/ DestroyNetwork(p)
        \/ Fail(p)
        \/ \E n \in Netids : ListNothing(p, n)
        \/ Finish(p)

Spec == Init /\ [][Next]_vars

-----------------------------------------------------------------------------
(* Properties *)

NetsOf(i) == {n \in Netids : nets[n].exists /\ nets[n].iface = i}
RulesOf(i) == {r \in rules : r.iface = i}
Traces(i) == <<link[i], RulesOf(i), {<<n, nets[n]>> : n \in NetsOf(i)}>>
NoTraces(i) == ~ link[i].exists /\ RulesOf(i) = {} /\ NetsOf(i) = {}

Ends(p, op, status) == Running(p) /\ run[p].op = op /\ run'[p].status = status

\* The variables hold links, rules, networks and processes of the right form,
\* and a process that cleans up after itself is a failed `up'.
TypeOK ==
    /\ \A i \in Ifaces : link[i].exists \/ link[i] = NoLink
    /\ \A r \in rules : r.iface \in Ifaces /\ r.fam \in {"4", "6"} /\ r.chain \in {"OUTPUT", "INPUT"} /\ r.drop \in BOOLEAN
    /\ \A n \in Netids : nets[n].iface \in Ifaces \cup {None} /\ nets[n].users \subseteq 0..MaxUid
    /\ \A p \in Ifaces : run[p].exiting => run[p].cleanup /\ run[p].op = "up"
    /\ faults \in 0..MaxFaults /\ dirty \subseteq Ifaces

\* cmd_up: when it exits with success and no listing was lost, the interface
\* is up with the file's configuration, addresses and routes, its network has
\* the file's DNS servers, and the packets of the tunnel are let through.
UpComplete ==
    [][\A p \in Ifaces : Ends(p, "up", "ok") /\ ~ run[p].missed =>
          LET o == run[p].opts
              n == run[p].netid
          IN  /\ link[p].exists /\ link[p].up /\ link[p].mark
              /\ link[p].config = o.config
              /\ link[p].addrs = Range(o.addrs)
              /\ nets[n].exists /\ nets[n].iface = p
              /\ nets[n].routes = Range(Values(o.config, "AllowedIPs"))
              /\ nets[n].dns = IF Range(o.dnses) \subseteq {"host"} THEN {} ELSE Range(o.dnses)
              /\ {<<r.fam, r.chain>> : r \in RulesOf(p)} = {"4", "6"} \X {"OUTPUT", "INPUT"}]_vars

\* set_users: a successful `up' has routed into the tunnel the uids of the
\* included applications, or all but those of the excluded ones.  The last
\* uid alone is never added: it is missed when the one before it is excluded.
UsersExact ==
    [][\A p \in Ifaces : Ends(p, "up", "ok") =>
          LET o    == run[p].opts
              Of(l) == {Packages[a] : a \in Range(l) \cap DOMAIN Packages}
              out  == IF o.excluded = None THEN {} ELSE Of(o.excluded)
          IN  nets[run[p].netid].users =
                 IF o.included # None THEN Of(o.included)
                 ELSE (0..MaxUid) \ (out \cup (IF MaxUid - 1 \in out THEN {MaxUid} ELSE {}))]_vars

\* cmd_up_cleanup: an `up' that fails leaves no link, no rule and no network
\* with the interface, whichever command failed, if the cleanup itself did
\* not fail.
FailureClean ==
    [][\A p \in Ifaces : Ends(p, "up", "failed") /\ run[p].cleanup /\ p \notin dirty' => NoTraces(p)']_vars

\* cmd_down: a `down' that succeeds leaves none either.
DownComplete ==
    [][\A p \in Ifaces : Ends(p, "down", "ok") /\ p \notin dirty => NoTraces(p)]_vars

\* The state of an interface changes only by a process that was given its
\* name: not by the failures of another, nor by its cleanup, nor by a number
\* of a network drawn twice (up_if draws it without looking).
OthersUntouched ==
    [][\A i \in Ifaces : Traces(i)' # Traces(i) => Running(i) /\ run'[i] # run[i]]_vars

\* wg-quick(8): "MTU - if not specified, the MTU is automatically determined
\* from the endpoint addresses or the system default route": when `up' is
\* done, the interface's packets fit the route to every endpoint.
MtuFits ==
    \A p \in Ifaces :
        Running(p) /\ run[p].op = "up" /\ run[p].todo = <<>> /\ ~ run[p].exiting /\ run[p].opts.mtu = 0 =>
            \A e \in Range(Values(link[p].config, "Endpoint")) : RouteMtu[e] > 0 => link[p].mtu + 80 <= RouteMtu[e]

=============================================================================
