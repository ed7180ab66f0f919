------------------------- MODULE WgQuickAndroidProofs -------------------------
(***************************************************************************)
(* wg-quick for Android: every step keeps the invariant, whatever fails and *)
(* whatever the other processes do; the properties of the run follow from  *)
(* it, for any files, packages, names and networks.                        *)
(***************************************************************************)
EXTENDS WgQuickAndroidInvariant

-----------------------------------------------------------------------------
(* The steps of a process, action by action *)

\* A step of p, within its frame, before cmd_up has made the link.
LEMMA RestingTurn ==
  ASSUME NEW p \in Ifaces, Frame(p), RestingNow(p)'
  PROVE  Turn(p)
  BY Zenon DEF Turn, PlacedNow, Placed, RestingNow

\* The same while add_if makes the link.
LEMMA MakingTurn ==
  ASSUME NEW p \in Ifaces, Frame(p), MakingNow(p)'
  PROVE  Turn(p)
  BY Zenon DEF Turn, PlacedNow, Placed, MakingNow

\* The same while up_if marks the link and makes its network.
LEMMA MarkingTurn ==
  ASSUME NEW p \in Ifaces, Frame(p), MarkingNow(p)'
  PROVE  Turn(p)
  BY Zenon DEF Turn, PlacedNow, Placed, MarkingNow

\* The same from the time that the network has the interface.
LEMMA FillingTurn ==
  ASSUME NEW p \in Ifaces, Frame(p), FillingNow(p)'
  PROVE  Turn(p)
  BY Zenon DEF Turn, PlacedNow, Placed, FillingNow

\* The same while del_if is run.
LEMMA ClearingTurn ==
  ASSUME NEW p \in Ifaces, Frame(p), ClearingNow(p)'
  PROVE  Turn(p)
  BY Zenon DEF Turn, PlacedNow, Placed, ClearingNow

\* A step that changes neither the kernel nor netd: a listing, a broadcast.
LEMMA EnvKept ==
  ASSUME Inv, NEW p \in Ifaces, run' \in [Ifaces -> Proc], Others(p), UNCHANGED Env
  PROVE  /\ Frame(p) /\ link'[p] = link[p] /\ RulesOf(p)' = RulesOf(p) /\ NetsOf(p)' = NetsOf(p)
         /\ nets' = nets /\ dirty' = dirty
  <1>1. UNCHANGED <<link, rules, nets>> /\ faults' = faults /\ dirty' = dirty /\ nets' = nets
    BY Zenon DEF Env
  <1>2. faults' \in 0..MaxFaults
    BY <1>1, Zenon DEF Inv, Types
  <1> QED
    BY <1>1, <1>2, KeptIs, Zenon

\* From where nothing has been left, or a deletion has failed.
LEMMA ExitTurn ==
  ASSUME Inv, NEW p \in Ifaces, NEW status \in {"ok", "failed"}, Exit(p, status),
         UNCHANGED <<link, rules, nets>>, faults' \in 0..MaxFaults, dirty' = dirty \/ dirty' = dirty \cup {p},
         p \in dirty' \/ Settled(link[p], RulesOf(p), NetsOf(p))
  PROVE  Turn(p)
  <1>1. Types
    BY Zenon DEF Inv
  <1>2. /\ run' \in [Ifaces -> Proc] /\ Others(p)
        /\ run'[p].status = status /\ ~ run'[p].cleanup /\ ~ run'[p].exiting
    BY <1>1, ExitIs, Zenon
  <1>3. Frame(p) /\ link'[p] = link[p] /\ RulesOf(p)' = RulesOf(p) /\ NetsOf(p)' = NetsOf(p)
    BY <1>2, KeptIs, Zenon
  <1>4. RestingNow(p)'
    BY <1>2, <1>3, Zenon DEF RestingNow, Resting
  <1> QED
    BY <1>3, <1>4, RestingTurn, Zenon

\* Before `link show' and `wg show interfaces' have been answered.
LEMMA RestingIs ==
  ASSUME Inv, NEW p \in Ifaces, NEW c \in {"ip link show", "wg show interfaces"}, At(p, c)
  PROVE  /\ RestingNow(p) /\ Types /\ Running(p) /\ run[p].todo # <<>> /\ Tail(run[p].todo) = <<>>
         /\ run[p] \in Proc /\ ~ run[p].cleanup /\ ~ run[p].exiting
         /\ p \in dirty \/ Settled(link[p], RulesOf(p), NetsOf(p))
         /\ run[p].op = IF c = "ip link show" THEN "up" ELSE "down"
  <1>1. RestingNow(p) /\ Types /\ Running(p) /\ run[p].todo # <<>> /\ Head(run[p].todo)[1] = c /\ run[p] \in Proc
    BY StageAt, Zenon
  <1>2. /\ (run[p].op = "up" /\ run[p].todo = cmd_up) \/ (run[p].op = "down" /\ run[p].todo = cmd_down)
        /\ ~ run[p].cleanup /\ ~ run[p].exiting
        /\ p \in dirty \/ Settled(link[p], RulesOf(p), NetsOf(p))
    BY <1>1, Zenon DEF RestingNow, Resting, Running
  <1>3. /\ Head(cmd_up) = <<"ip link show">> /\ Tail(cmd_up) = <<>>
        /\ Head(cmd_down) = <<"wg show interfaces">> /\ Tail(cmd_down) = <<>>
    BY FirstIs, Zenon DEF cmd_up, cmd_down
  <1>4. Head(cmd_up)[1] = "ip link show" /\ Head(cmd_down)[1] = "wg show interfaces"
    BY <1>3, FirstIs, Zenon
  <1> QED
    BY <1>1, <1>2, <1>3, <1>4, Zenon

\* The link is about to be made.
LEMMA MakeTurn ==
  ASSUME Inv, NEW p \in Ifaces, At(p, "ip link show"), NEW r, Others(p), run' \in [Ifaces -> Proc], run'[p] = r,
         r.op = run[p].op, r.status = run[p].status, r.exiting = run[p].exiting, r.cleanup,
         r.todo = add_if \o set_config \o determine_listen_port,
         UNCHANGED <<link, rules, nets>>, faults' \in 0..MaxFaults, dirty' = dirty \/ dirty' = dirty \cup {p}
  PROVE  Turn(p)
  <1>1. /\ RestingNow(p) /\ Running(p) /\ ~ run[p].exiting /\ run[p].op = "up"
        /\ p \in dirty \/ Settled(link[p], RulesOf(p), NetsOf(p))
    BY RestingIs, Zenon
  <1>2. r.todo \in MakingLists /\ Head(r.todo) = <<"link add">>
    BY MakeList, Zenon
  <1>3. Frame(p) /\ link'[p] = link[p] /\ RulesOf(p)' = RulesOf(p) /\ NetsOf(p)' = NetsOf(p)
    BY KeptIs, Zenon
  <1>4. Up(r)
    BY <1>1, Zenon DEF Up, Running
  <1>5. MakingNow(p)'
    BY <1>1, <1>2, <1>3, <1>4, Zenon DEF MakingNow, Making
  <1> QED
    BY <1>3, <1>5, MakingTurn, Zenon

\* Everything there is will be deleted by del_if.
LEMMA ClearingStarts ==
  ASSUME Types, NEW p \in Ifaces, NEW r, NEW D, NEW b \in Seq(Cmd), Len(b) <= 1, Broadcasts(b), r.todo = del_if \o b,
         r.status = "running",
         \/ r.op = "down" /\ ~ r.cleanup /\ ~ r.exiting /\ link[p].exists
         \/ r.op = "up" /\ r.cleanup /\ r.exiting,
         p \in D \/ AtMostOne(NetsOf(p))
  PROVE  Clearing(p, r, link[p], RulesOf(p), NetsOf(p), D)
  <1> DEFINE T == Range(r.todo)
  <1>1. /\ IsClearing(r.todo)
        /\ <<"link del">> \in T /\ <<"ip rule show">> \in T
        /\ <<"save", "4">> \in T /\ <<"save", "6">> \in T
        /\ \A c \in T : c[1] # "rule del" /\ c[1] # "network destroy"
    BY DelList, Zenon
  <1>2. \A x \in RulesOf(p) : x.fam \in Family
    <2>1. rules \subseteq Rule /\ RulesOf(p) \subseteq rules
      BY Zenon DEF Types, RulesOf
    <2>2. \A x \in Rule : x.fam \in Family
      BY DEF Rule
    <2> QED
      BY <2>1, <2>2, Zenon
  <1>3. \A x \in RulesOf(p) : <<"save", x.fam>> \in T
    BY <1>1, <1>2, Zenon DEF Family
  <1>4. p \in D \/ Covered(link[p], RulesOf(p), NetsOf(p), T)
    BY <1>1, <1>3, Zenon DEF Covered
  <1> QED
    BY <1>1, <1>4, Zenon DEF Clearing

\* A process starts, and finds out what there is: main, cmd_up and cmd_down.
LEMMA StartTurns ==
  ASSUME Inv, NEW p \in Ifaces,
         (\E op \in {"up", "down"}, f \in Files : main(p, op, f)) \/ ShowLink(p) \/ ShowInterfaces(p)
  PROVE  Turn(p)
  <1>a. ASSUME NEW op \in {"up", "down"}, NEW f \in Files, main(p, op, f) PROVE Turn(p)
    <2> USE <1>a
    <2> DEFINE o == parse_options(f)
               u == [Idle EXCEPT !.op = op, !.status = "running", !.opts = o, !.todo = cmd_up]
               d == [Idle EXCEPT !.op = op, !.status = "running", !.todo = cmd_down]
               r == IF op = "up" THEN u ELSE d
    <2>1. ~ Running(p) /\ run' = [run EXCEPT ![p] = r] /\ UNCHANGED <<link, rules, nets, faults, dirty>>
      BY Zenon DEF main
    <2>2. RestingNow(p)
      <3>1. Stage(p) /\ run[p].status # "running"
        BY <2>1, Zenon DEF Inv, Running
      <3> QED
        BY <3>1, Zenon DEF Stage, PlacedNow, LinkingNow, Placed, RestingNow, Making, Marking, Linking, Filling, Clearing, Up
    <2>3. u \in Proc /\ d \in Proc
      <3>1. <<>> \in Seq(Cmd) /\ <<>> \in Seq(Line) /\ <<>> \in Seq(Value) /\ None \in Lst
        BY DEF Lst
      <3>2. NoOptions \in Options
        BY <3>1 DEF NoOptions, Options
      <3>3. cmd_up \in Seq(Cmd) /\ cmd_down \in Seq(Cmd)
        <4>1. <<"ip link show">> \in Cmd /\ <<"wg show interfaces">> \in Cmd
          BY Zenon DEF Cmd, Words
        <4> QED
          BY <4>1, OneIs, Zenon DEF cmd_up, cmd_down
      <3>4. o \in Options
        BY ParseTyped, Zenon
      <3> HIDE DEF o
      <3> QED
        BY <3>1, <3>2, <3>3, <3>4, Zenon DEF Proc, Idle
    <2>4. /\ u.status = "running" /\ u.op = op /\ u.todo = cmd_up /\ ~ u.cleanup /\ ~ u.exiting
          /\ d.status = "running" /\ d.op = op /\ d.todo = cmd_down /\ ~ d.cleanup /\ ~ d.exiting
      BY DEF Idle
    <2> HIDE DEF u, d
    <2>5. /\ r \in Proc /\ r.status = "running" /\ ~ r.cleanup /\ ~ r.exiting
          /\ (r.op = "up" /\ r.todo = cmd_up) \/ (r.op = "down" /\ r.todo = cmd_down)
      BY <2>3, <2>4, Zenon
    <2> HIDE DEF r
    <2>6. run' \in [Ifaces -> Proc] /\ Others(p) /\ run'[p] = r
      <3>1. run \in [Ifaces -> Proc] /\ r \in Proc
        BY <2>5, Zenon DEF Inv, Types
      <3> QED
        BY <2>1, <3>1 DEF Others
    <2>7. faults' \in 0..MaxFaults /\ dirty' = dirty
      BY <2>1, Zenon DEF Inv, Types
    <2>8. Frame(p) /\ link'[p] = link[p] /\ RulesOf(p)' = RulesOf(p) /\ NetsOf(p)' = NetsOf(p)
      BY <2>1, <2>6, <2>7, KeptIs, Zenon
    <2>9. RestingNow(p)'
      BY <2>2, <2>5, <2>6, <2>7, <2>8, Zenon DEF RestingNow, Resting
    <2> QED
      BY <2>8, <2>9, RestingTurn, Zenon
  <1>b. ASSUME ShowLink(p) PROVE Turn(p)
    <2> USE <1>b
    <2>1. Running(p) /\ Types
      BY RestingIs, Zenon DEF ShowLink
    <2>2. UNCHANGED Env /\ At(p, "ip link show")
      BY Zenon DEF ShowLink
    <2>3. UNCHANGED <<link, rules, nets>> /\ dirty' = dirty /\ faults' \in 0..MaxFaults
      BY <2>1, <2>2, Zenon DEF Env, Types
    <2>4. p \in dirty' \/ Settled(link[p], RulesOf(p), NetsOf(p))
      BY <2>3, RestingIs, Zenon DEF ShowLink
    <2>5. CASE Exit(p, "failed")
      BY <2>3, <2>4, <2>5, ExitTurn, Zenon
    <2> DEFINE t == add_if \o set_config \o determine_listen_port
    <2>6. CASE run' = [run EXCEPT ![p].cleanup = TRUE, ![p].todo = t]
      <3>1. run \in [Ifaces -> Proc] /\ t \in Seq(Cmd)
        BY <2>1, MakeList, Zenon DEF Types
      <3> HIDE DEF t
      <3>2. run'[p] = [run[p] EXCEPT !.cleanup = TRUE, !.todo = t] /\ Others(p) /\ run[p] \in Proc
        BY <2>6, <3>1 DEF Others
      <3>3. /\ run'[p] \in Proc /\ run'[p].op = run[p].op /\ run'[p].status = run[p].status
            /\ run'[p].exiting = run[p].exiting /\ run'[p].cleanup /\ run'[p].todo = t
        BY <3>1, <3>2, Zenon DEF Proc
      <3>4. run' \in [Ifaces -> Proc]
        <4>1. run' = [run EXCEPT ![p] = run'[p]]
          BY <2>6, <3>1, Zenon
        <4> QED
          BY <3>1, <3>3, <4>1
      <3> QED
        BY <2>2, <2>3, <3>2, <3>3, <3>4, MakeTurn, Zenon DEF t
    <2> QED
      BY <2>5, <2>6, Zenon DEF ShowLink
  <1>c. ASSUME ShowInterfaces(p) PROVE Turn(p)
    <2> USE <1>c
    <2>a. broadcast_change(p) \in Seq(Cmd) /\ Len(broadcast_change(p)) <= 1 /\ Broadcasts(broadcast_change(p))
      <3> DEFINE e == <<"am broadcast">>
      <3>1. broadcast_change(p) = <<>> \/ broadcast_change(p) = <<e>>
        BY Zenon DEF broadcast_change
      <3>2. e \in Cmd /\ e[1] = "am broadcast"
        BY FirstIs, Zenon DEF Cmd, Words
      <3> HIDE DEF e
      <3>3. Len(<<>>) <= 1 /\ Len(<<e>>) <= 1
        OBVIOUS
      <3> QED
        BY <3>1, <3>2, <3>3, OneIs, Zenon DEF Broadcasts
    <2>1. UNCHANGED Env /\ At(p, "wg show interfaces")
      BY Zenon DEF ShowInterfaces
    <2>2. /\ RestingNow(p) /\ Types /\ Running(p) /\ run[p].todo # <<>> /\ Tail(run[p].todo) = <<>>
          /\ run[p] \in Proc /\ ~ run[p].cleanup /\ ~ run[p].exiting
          /\ p \in dirty \/ Settled(link[p], RulesOf(p), NetsOf(p))
          /\ run[p].op = "down"
      BY <2>1, RestingIs, Zenon
    <2>3. UNCHANGED <<link, rules, nets>> /\ dirty' = dirty /\ faults' \in 0..MaxFaults
      BY <2>1, <2>2, Zenon DEF Env, Types
    <2>4. CASE Exit(p, "failed")
      BY <2>2, <2>3, <2>4, ExitTurn, Zenon
    <2> DEFINE b == broadcast_change(p)
               t == del_if \o b
    <2>5. CASE link[p].exists /\ Go(p, t)
      <3>1. b \in Seq(Cmd) /\ Len(b) <= 1 /\ Broadcasts(b)
        BY <2>a, Zenon
      <3> HIDE DEF b
      <3>2. t \in Seq(Cmd)
        BY <3>1, DelList, Zenon
      <3> HIDE DEF t
      <3>3. /\ run' \in [Ifaces -> Proc] /\ Others(p)
            /\ Same(run[p], run'[p]) /\ run'[p].todo = t \o Tail(run[p].todo)
        BY <2>2, <2>5, <3>2, GoIs, Zenon
      <3>4. t \o <<>> = t
        BY <3>2
      <3>5. run'[p].todo = t
        BY <2>2, <3>3, <3>4, Zenon
      <3>6. /\ Frame(p) /\ link'[p] = link[p] /\ RulesOf(p)' = RulesOf(p) /\ NetsOf(p)' = NetsOf(p) /\ dirty' = dirty
        BY <2>1, <3>3, EnvKept, Zenon
      <3>7. /\ run'[p].status = "running" /\ run'[p].op = "down" /\ ~ run'[p].cleanup /\ ~ run'[p].exiting
        BY <2>2, <3>3, Zenon DEF Same, Running
      <3>8. p \in dirty' \/ AtMostOne(NetsOf(p))
        BY <2>2, <2>3, Zenon DEF Settled
      <3>9. run'[p].todo = del_if \o b
        BY <3>5, Zenon DEF t
      <3>10. Clearing(p, run'[p], link[p], RulesOf(p), NetsOf(p), dirty')
        BY <2>2, <2>5, <3>1, <3>7, <3>8, <3>9, ClearingStarts, Zenon
      <3>11. ClearingNow(p)'
        BY <3>6, <3>10, Zenon DEF ClearingNow
      <3> QED
        BY <3>6, <3>11, ClearingTurn, Zenon
    <2> QED
      BY <2>4, <2>5, Zenon DEF ShowInterfaces, Link
  <1> QED
    BY <1>a, <1>b, <1>c, Zenon

\* While the link is made.
LEMMA MakingHas ==
  ASSUME Inv, NEW p \in Ifaces, NEW c, At(p, c), MakingNow(p)
  PROVE  LET t == run[p].todo
         IN  /\ Types /\ Running(p) /\ t # <<>> /\ link[p] \in LinkType /\ run[p] \in Proc /\ Up(run[p])
             /\ p \in dirty \/ Settled(link[p], RulesOf(p), NetsOf(p))
             /\ c = "link add" => Tail(t) \in MakingLists /\ Head(Tail(t)) = <<"wg addconf">>
             /\ c = "wg addconf" => Tail(t) \in MakingLists /\ Head(Tail(t)) = <<"link up">>
             /\ c = "link up" => Tail(t) \in MakingLists /\ Head(Tail(t)) = <<"wg show listen-port">>
             /\ c # "link add" => link[p].exists /\ link[p].addrs = {} /\ (p \in dirty \/ NetsOf(p) = {})
             /\ c # "link add" /\ c # "wg addconf" => link[p].config = run[p].opts.config
  <1> DEFINE t == run[p].todo
  <1>1. Types /\ Running(p) /\ t # <<>> /\ Head(t)[1] = c /\ run[p] \in Proc
    BY StageAt, Zenon
  <1>2. link[p] \in LinkType
    BY <1>1, Zenon DEF Types
  <1>3. /\ Up(run[p]) /\ t \in MakingLists
        /\ p \in dirty \/ Settled(link[p], RulesOf(p), NetsOf(p))
        /\ \/ Head(t) = <<"link add">>
           \/ /\ link[p].exists /\ link[p].addrs = {} /\ (p \in dirty \/ NetsOf(p) = {})
              /\ Head(t) = <<"wg addconf">> \/ link[p].config = run[p].opts.config
    BY Zenon DEF MakingNow, Making
  <1>4. /\ <<"link add">>[1] = "link add" /\ <<"wg addconf">>[1] = "wg addconf" /\ <<"link up">>[1] = "link up"
        /\ <<"wg show listen-port">>[1] = "wg show listen-port"
    BY FirstIs, Zenon
  <1>5. \/ Head(t) = <<"link add">> /\ Tail(t) \in MakingLists /\ Head(Tail(t)) = <<"wg addconf">>
        \/ Head(t) = <<"wg addconf">> /\ Tail(t) \in MakingLists /\ Head(Tail(t)) = <<"link up">>
        \/ Head(t) = <<"link up">> /\ Tail(t) \in MakingLists /\ Head(Tail(t)) = <<"wg show listen-port">>
        \/ Head(t) = <<"wg show listen-port">>
    BY <1>3, MakingIs, Zenon
  <1> HIDE DEF t
  <1>6. /\ c = "link add" => Tail(t) \in MakingLists /\ Head(Tail(t)) = <<"wg addconf">>
        /\ c = "wg addconf" => Tail(t) \in MakingLists /\ Head(Tail(t)) = <<"link up">>
        /\ c = "link up" => Tail(t) \in MakingLists /\ Head(Tail(t)) = <<"wg show listen-port">>
    BY <1>1, <1>4, <1>5, Zenon
  <1>7. /\ c # "link add" => link[p].exists /\ link[p].addrs = {} /\ (p \in dirty \/ NetsOf(p) = {})
        /\ c # "link add" /\ c # "wg addconf" => link[p].config = run[p].opts.config
    BY <1>1, <1>3, <1>4, Zenon
  <1> QED
    BY <1>1, <1>2, <1>3, <1>6, <1>7, Zenon DEF t

\* An `up' stays one.
LEMMA SameUp ==
  ASSUME NEW r, NEW s, Same(r, s), Up(r)
  PROVE  Up(s)
  BY Zenon DEF Same, Up

\* The port has been read, or could not be.
LEMMA PortTurn ==
  ASSUME Inv, NEW p \in Ifaces, At(p, "wg show listen-port"), NEW port \in {0, 1},
         run' \in [Ifaces -> Proc], Others(p), run'[p].netid \in Netids, run'[p].todo = AfterPort(p, port),
         run'[p].op = run[p].op, run'[p].status = run[p].status, run'[p].opts = run[p].opts,
         run'[p].cleanup = run[p].cleanup, run'[p].exiting = run[p].exiting, port = 1 \/ run'[p].missed,
         UNCHANGED <<link, rules, nets>>, faults' \in 0..MaxFaults, dirty' = dirty
  PROVE  Turn(p)
  <1> DEFINE r == run'[p]
             o == run[p].opts
             l == link[p]
             T == Range(r.todo)
  <1>1. MakingNow(p)
    BY StageAt, Zenon
  <1>2. /\ Types /\ Up(run[p]) /\ run[p] \in Proc
        /\ l.exists /\ l.addrs = {} /\ (p \in dirty \/ NetsOf(p) = {})
        /\ l.config = o.config
    <2>1. "wg show listen-port" # "link add" /\ "wg show listen-port" # "wg addconf"
      BY Zenon
    <2> QED
      BY <1>1, <2>1, MakingHas, Zenon
  <1>3. o \in Options /\ r.missed \in BOOLEAN
    BY <1>2, Zenon DEF Proc
  <1>4. /\ IsMarking(r.todo)
        /\ <<"wg set fwmark">> \in T /\ <<"link up">> \in T
        /\ \A a \in Value : a \in Range(o.addrs) <=> <<"addr add", a>> \in T
        /\ port = 1 => \A f \in Family : \A d \in Chain : <<"rule", f, d>> \in T
        /\ \A m \in BOOLEAN : NetFilled(o, m, NoNet, T)
    BY <1>3, AfterPortIs, Zenon
  <1>5. /\ Frame(p) /\ link'[p] = link[p] /\ RulesOf(p)' = RulesOf(p) /\ NetsOf(p)' = NetsOf(p)
    BY KeptIs, Zenon
  <1>6. LinkFilled(o, l, T)
    BY <1>2, <1>4, Zenon DEF LinkFilled
  <1>7. RulesFilled(r.missed, RulesOf(p), T)
    BY <1>4, Zenon DEF RulesFilled
  <1>8. NetFilled(o, r.missed, NoNet, T)
    BY <1>3, <1>4, Zenon
  <1>9. Filled(r, l, RulesOf(p), NoNet) /\ Up(r)
    BY <1>2, <1>6, <1>7, <1>8, Zenon DEF Filled, Up
  <1>10. MarkingNow(p)'
    BY <1>2, <1>4, <1>5, <1>9, Zenon DEF MarkingNow, Marking
  <1> QED
    BY <1>5, <1>10, MarkingTurn, Zenon

\* cmd_up makes the link and reads its port: add_if, set_config, listen_port.
LEMMA MakingTurns ==
  ASSUME Inv, NEW p \in Ifaces,
         AddLink(p) \/ AddConf(p) \/ (\E n \in Netids : ShowPort(p, n))
  PROVE  Turn(p)
  <1>a. ASSUME AddLink(p) PROVE Turn(p)
    <2> USE <1>a
    <2> DEFINE l == [NoLink EXCEPT !.exists = TRUE]
    <2>1. At(p, "link add") /\ ~ link[p].exists /\ SetLink(p, l)
      BY Zenon DEF AddLink, Link
    <2>2. MakingNow(p)
      BY <2>1, StageAt, Zenon
    <2>3. /\ Types /\ Running(p) /\ run[p].todo # <<>> /\ Up(run[p])
          /\ p \in dirty \/ Settled(link[p], RulesOf(p), NetsOf(p))
          /\ Tail(run[p].todo) \in MakingLists /\ Head(Tail(run[p].todo)) = <<"wg addconf">>
      BY <2>1, <2>2, MakingHas, Zenon
    <2>4. l \in LinkType /\ l.exists /\ l.addrs = {}
      <3>1. <<>> \in Seq(Line)
        OBVIOUS
      <3>2. 0 \in Mtus
        BY DEF Mtus
      <3> QED
        BY <3>1, <3>2, Zenon DEF LinkType, NoLink
    <2> HIDE DEF l
    <2>5. /\ Frame(p) /\ link'[p] = l /\ RulesOf(p)' = RulesOf(p) /\ NetsOf(p)' = NetsOf(p)
          /\ dirty' = dirty /\ Same(run[p], run'[p]) /\ run'[p].todo = Tail(run[p].todo)
      BY <2>1, <2>3, <2>4, SetLinkIs, Zenon
    <2>6. p \in dirty \/ (NetsOf(p) = {} /\ Settled(l, RulesOf(p), NetsOf(p)))
      BY <2>1, <2>3, <2>4, Zenon DEF Settled, AtMostOne
    <2>7. MakingNow(p)'
      BY <2>3, <2>4, <2>5, <2>6, SameUp, Zenon DEF MakingNow, Making
    <2> QED
      BY <2>5, <2>7, MakingTurn, Zenon
  <1>b. ASSUME AddConf(p) PROVE Turn(p)
    <2> USE <1>b
    <2> DEFINE l == [link[p] EXCEPT !.config = run[p].opts.config]
    <2>1. At(p, "wg addconf") /\ SetLink(p, l)
      BY Zenon DEF AddConf, Link
    <2>2. MakingNow(p)
      BY <2>1, StageAt, Zenon
    <2>3. /\ Types /\ Running(p) /\ run[p].todo # <<>> /\ Up(run[p]) /\ link[p] \in LinkType /\ run[p] \in Proc
          /\ p \in dirty \/ Settled(link[p], RulesOf(p), NetsOf(p))
          /\ Tail(run[p].todo) \in MakingLists /\ Head(Tail(run[p].todo)) = <<"link up">>
          /\ link[p].exists /\ link[p].addrs = {} /\ (p \in dirty \/ NetsOf(p) = {})
      <3>1. "wg addconf" # "link add"
        OBVIOUS
      <3>2. /\ Types /\ Running(p) /\ run[p].todo # <<>> /\ Up(run[p]) /\ link[p] \in LinkType /\ run[p] \in Proc
            /\ p \in dirty \/ Settled(link[p], RulesOf(p), NetsOf(p))
            /\ Tail(run[p].todo) \in MakingLists /\ Head(Tail(run[p].todo)) = <<"link up">>
        BY <2>1, <2>2, MakingHas, Zenon
      <3>3. link[p].exists /\ link[p].addrs = {} /\ (p \in dirty \/ NetsOf(p) = {})
        BY <2>1, <2>2, <3>1, MakingHas, Zenon
      <3> QED
        BY <3>2, <3>3, Zenon
    <2>4. l \in LinkType /\ l.exists = link[p].exists /\ l.addrs = link[p].addrs /\ l.config = run[p].opts.config
      <3>1. run[p].opts.config \in Seq(Line) /\ link[p] \in LinkType
        BY <2>3, Zenon DEF Proc, Options
      <3> QED
        BY <3>1 DEF LinkType
    <2> HIDE DEF l
    <2>5. /\ Frame(p) /\ link'[p] = l /\ RulesOf(p)' = RulesOf(p) /\ NetsOf(p)' = NetsOf(p)
          /\ dirty' = dirty /\ Same(run[p], run'[p]) /\ run'[p].todo = Tail(run[p].todo)
      BY <2>1, <2>3, <2>4, SetLinkIs, Zenon
    <2>6. p \in dirty \/ Settled(l, RulesOf(p), NetsOf(p))
      BY <2>3, <2>4, Zenon DEF Settled
    <2>7. run'[p].opts = run[p].opts /\ Up(run'[p])
      BY <2>3, <2>5, SameUp, Zenon DEF Same
    <2>8. MakingNow(p)'
      BY <2>3, <2>4, <2>5, <2>6, <2>7, Zenon DEF MakingNow, Making
    <2> QED
      BY <2>5, <2>8, MakingTurn, Zenon
  <1>c. ASSUME NEW n \in Netids, ShowPort(p, n) PROVE Turn(p)
    <2> USE <1>c
    <2> DEFINE t == AfterPort(p, 1)
    <2>1. At(p, "wg show listen-port") /\ run' = [run EXCEPT ![p].netid = n, ![p].todo = t] /\ UNCHANGED Env
      BY Zenon DEF ShowPort
    <2>2. run[p] \in Proc /\ Types
      BY <2>1, StageAt, Zenon
    <2>3. t \in Seq(Cmd)
      <3>1. run[p].opts \in Options
        BY <2>2 DEF Proc
      <3>2. 1 \in {0, 1}
        OBVIOUS
      <3> QED
        BY <3>1, <3>2, AfterPortIs, Zenon
    <2> HIDE DEF t
    <2>4. run \in [Ifaces -> Proc]
      BY <2>2, Zenon DEF Types
    <2>5. run'[p] = [run[p] EXCEPT !.netid = n, !.todo = t] /\ Others(p)
      BY <2>1, <2>4, Zenon DEF Others
    <2>6. /\ run'[p] \in Proc /\ run'[p].netid = n /\ run'[p].todo = t
          /\ run'[p].op = run[p].op /\ run'[p].status = run[p].status /\ run'[p].opts = run[p].opts
          /\ run'[p].cleanup = run[p].cleanup /\ run'[p].exiting = run[p].exiting
      BY <2>2, <2>3, <2>5, Zenon DEF Proc
    <2>7. run' \in [Ifaces -> Proc]
      <3>1. run' = [run EXCEPT ![p] = run'[p]]
        BY <2>1, <2>4, Zenon
      <3> QED
        BY <2>4, <2>6, <3>1
    <2>8. UNCHANGED <<link, rules, nets>> /\ dirty' = dirty /\ faults' \in 0..MaxFaults
      BY <2>1, <2>2, Zenon DEF Env, Types
    <2>9. 1 \in {0, 1}
      OBVIOUS
    <2> QED
      BY <2>1, <2>5, <2>6, <2>7, <2>8, <2>9, PortTurn, Zenon DEF t
  <1> QED
    BY <1>a, <1>b, <1>c, Zenon

\* cmd_up marks the link and makes its network: up_if.
LEMMA MarkingTurns ==
  ASSUME Inv, NEW p \in Ifaces,
         LinkUp(p) \/ LinkDown(p) \/ SetMark(p) \/ AddRule(p) \/ CreateNetwork(p)
  PROVE  Turn(p)
  \* Before the network is created.
  <1>a. ASSUME NEW c, At(p, c), MarkingNow(p)
        PROVE  LET r == run[p]
                   h == Head(r.todo)
                   U == Range(Tail(r.todo))
               IN  /\ Types /\ Running(p) /\ r.todo # <<>> /\ link[p] \in LinkType /\ link[p].exists /\ r \in Proc /\ Up(r)
                   /\ r.netid \in Netids /\ (p \in dirty \/ NetsOf(p) = {}) /\ h \in Cmd /\ h[1] = c
                   /\ LinkFilled(r.opts, link[p], {h} \cup U)
                   /\ RulesFilled(r.missed, RulesOf(p), {h} \cup U)
                   /\ NetFilled(r.opts, r.missed, NoNet, U)
                   /\ c \in PreNames => IsMarking(Tail(r.todo)) /\ <<"link down">> \notin U
                   /\ c = "network create" => IsLinking(Tail(r.todo))
    <2> USE <1>a
    <2> DEFINE r == run[p]
               t == r.todo
               h == Head(t)
               U == Range(Tail(t))
    <2>1. Types /\ Running(p) /\ t # <<>> /\ h[1] = c /\ r \in Proc /\ h \in Cmd
      BY StageAt, Zenon
    <2>2. link[p] \in LinkType
      BY <2>1, Zenon DEF Types
    <2>3. t \in Seq(Cmd) /\ Range(t) = {h} \cup U
      BY <2>1, AtIs, Zenon
    <2>4. /\ Up(r) /\ IsMarking(t) /\ (p \in dirty \/ NetsOf(p) = {}) /\ link[p].exists /\ r.netid \in Netids
          /\ LinkFilled(r.opts, link[p], Range(t)) /\ RulesFilled(r.missed, RulesOf(p), Range(t))
          /\ NetFilled(r.opts, r.missed, NoNet, Range(t))
      BY Zenon DEF MarkingNow, Marking, Filled
    <2>5. \/ h = <<"network create">> /\ IsLinking(Tail(t))
          \/ h[1] \in PreNames /\ IsMarking(Tail(t)) /\ <<"link down">> \notin U
      BY <2>3, <2>4, MarkingTail, Zenon
    <2> HIDE DEF t, h, U
    <2>6. /\ c \in PreNames => IsMarking(Tail(t)) /\ <<"link down">> \notin U
          /\ c = "network create" => IsLinking(Tail(t))
          /\ c \in PreNames \cup {"network create"}
      BY <2>1, <2>5, FirstIs, Zenon DEF PreNames
    <2>7. c \notin {"wg show allowed-ips", "route add", "dns", "users add", "exit"}
      BY <2>6, Zenon DEF PreNames
    <2>8. NetFilled(r.opts, r.missed, NoNet, U)
      BY <2>1, <2>3, <2>4, <2>7, NetKept, Zenon
    <2> QED
      BY <2>1, <2>2, <2>3, <2>4, <2>6, <2>8, Zenon DEF t, h, U
  <1>b. ASSUME NEW c \in PreNames, At(p, c), MarkingNow(p), Frame(p),
               Same(run[p], run'[p]), run'[p].todo = Tail(run[p].todo), dirty' = dirty, NetsOf(p)' = NetsOf(p),
               link'[p].exists, LinkFilled(run[p].opts, link'[p], Range(Tail(run[p].todo))),
               RulesFilled(run[p].missed, RulesOf(p)', Range(Tail(run[p].todo)))
        PROVE  Turn(p)
    <2> USE <1>b
    <2>1. /\ Up(run[p]) /\ run[p].netid \in Netids /\ (p \in dirty \/ NetsOf(p) = {})
          /\ NetFilled(run[p].opts, run[p].missed, NoNet, Range(Tail(run[p].todo)))
          /\ IsMarking(Tail(run[p].todo))
      BY <1>a, Zenon
    <2>2. /\ Up(run'[p]) /\ run'[p].opts = run[p].opts /\ run'[p].netid = run[p].netid /\ run'[p].missed = run[p].missed
      BY <2>1, SameUp, Zenon DEF Same
    <2>3. MarkingNow(p)'
      BY <2>1, <2>2, Zenon DEF MarkingNow, Marking, Filled
    <2> QED
      BY <2>3, MarkingTurn, Zenon
  <1>c. ASSUME LinkUp(p) PROVE Turn(p)
    <2> USE <1>c
    <2>a. ASSUME LinkUp(p), MakingNow(p) PROVE Turn(p)
      <3> USE <2>a
      <3> DEFINE l == [link[p] EXCEPT !.up = TRUE]
      <3>1. At(p, "link up") /\ SetLink(p, l)
        BY Zenon DEF LinkUp, Link
      <3>3. /\ Types /\ Running(p) /\ run[p].todo # <<>> /\ Up(run[p]) /\ link[p] \in LinkType /\ run[p] \in Proc
            /\ p \in dirty \/ Settled(link[p], RulesOf(p), NetsOf(p))
            /\ Tail(run[p].todo) \in MakingLists /\ Head(Tail(run[p].todo)) = <<"wg show listen-port">>
            /\ link[p].exists /\ link[p].addrs = {} /\ (p \in dirty \/ NetsOf(p) = {})
            /\ link[p].config = run[p].opts.config
        <4>1. "link up" # "link add" /\ "link up" # "wg addconf"
          OBVIOUS
        <4> QED
          BY <3>1, <4>1, MakingHas, Zenon
      <3>4. l \in LinkType /\ l.exists = link[p].exists /\ l.addrs = link[p].addrs /\ l.config = link[p].config
        <4>1. link[p] \in LinkType
          BY <3>3, Zenon
        <4> QED
          BY <4>1, Zenon DEF LinkType
      <3> HIDE DEF l
      <3>5. /\ Frame(p) /\ link'[p] = l /\ RulesOf(p)' = RulesOf(p) /\ NetsOf(p)' = NetsOf(p)
            /\ dirty' = dirty /\ Same(run[p], run'[p]) /\ run'[p].todo = Tail(run[p].todo)
        BY <3>1, <3>3, <3>4, SetLinkIs, Zenon
      <3>6. p \in dirty \/ Settled(l, RulesOf(p), NetsOf(p))
        BY <3>3, <3>4, Zenon DEF Settled
      <3>7. run'[p].opts = run[p].opts /\ Up(run'[p])
        BY <3>3, <3>5, SameUp, Zenon DEF Same
      <3>8. MakingNow(p)'
        BY <3>3, <3>4, <3>5, <3>6, <3>7, Zenon DEF MakingNow, Making
      <3> QED
        BY <3>5, <3>8, MakingTurn, Zenon
    <2>b. ASSUME LinkUp(p), MarkingNow(p) PROVE Turn(p)
      <3> USE <2>b
      <3>a. ASSUME NEW o, NEW l, NEW k, NEW U, LinkFilled(o, l, {<<"link up">>} \cup U), <<"link down">> \notin U,
                   k.config = l.config, k.mark = l.mark, k.up, k.addrs = l.addrs
            PROVE  LinkFilled(o, k, U)
        <4> USE <3>a
        <4>1. <<"wg set fwmark">> # <<"link up">> /\ \A a : <<"addr add", a>> # <<"link up">>
          BY Zenon
        <4> QED
          BY <4>1, Zenon DEF LinkFilled
      <3> DEFINE l == [link[p] EXCEPT !.up = TRUE]
                 h == Head(run[p].todo)
                 U == Range(Tail(run[p].todo))
                 o == run[p].opts
      <3>1. At(p, "link up") /\ SetLink(p, l)
        BY Zenon DEF LinkUp, Link
      <3>2. "link up" \in PreNames /\ "link up" \in Words /\ "link up" # "rule"
        BY Zenon DEF PreNames, Words
      <3>3. /\ Types /\ Running(p) /\ run[p].todo # <<>> /\ link[p] \in LinkType /\ link[p].exists
            /\ h \in Cmd /\ h[1] = "link up" /\ <<"link down">> \notin U
            /\ LinkFilled(o, link[p], {h} \cup U) /\ RulesFilled(run[p].missed, RulesOf(p), {h} \cup U)
        BY <3>1, <3>2, <1>a, Zenon
      <3>4. h = <<"link up">>
        BY <3>2, <3>3, CmdIs, Zenon
      <3>5. /\ l \in LinkType /\ l.exists = link[p].exists /\ l.addrs = link[p].addrs /\ l.config = link[p].config
            /\ l.mark = link[p].mark /\ l.up
        <4>1. link[p] \in LinkType
          BY <3>3, Zenon
        <4> QED
          BY <4>1, Zenon DEF LinkType
      <3> HIDE DEF l, h, U, o
      <3>6. /\ Frame(p) /\ link'[p] = l /\ RulesOf(p)' = RulesOf(p) /\ NetsOf(p)' = NetsOf(p)
            /\ dirty' = dirty /\ Same(run[p], run'[p]) /\ run'[p].todo = Tail(run[p].todo)
        BY <3>1, <3>3, <3>5, SetLinkIs, Zenon
      <3>7. LinkFilled(o, l, U)
        BY <3>3, <3>4, <3>5, <3>a, Zenon
      <3>8. RulesFilled(run[p].missed, RulesOf(p), U)
        BY <3>2, <3>3, RulesKept, Zenon
      <3> QED
        BY <3>1, <3>2, <3>3, <3>5, <3>6, <3>7, <3>8, <1>b, Zenon DEF U, o
    <2>1. MakingNow(p) \/ MarkingNow(p)
      BY StageAt, Zenon DEF LinkUp
    <2> QED
      BY <2>1, <2>a, <2>b, Zenon
  <1>d. ASSUME LinkDown(p) PROVE Turn(p)
    <2> USE <1>d
    <2>a. ASSUME NEW o, NEW l, NEW k, NEW U, LinkFilled(o, l, {<<"link down">>} \cup U),
                 k.config = l.config, k.mark = l.mark, k.addrs = l.addrs
          PROVE  LinkFilled(o, k, U)
      <3> USE <2>a
      <3>1. <<"wg set fwmark">> # <<"link down">> /\ <<"link up">> # <<"link down">> /\ \A a : <<"addr add", a>> # <<"link down">>
        BY Zenon
      <3> QED
        BY <3>1, Zenon DEF LinkFilled
    <2> DEFINE l == [link[p] EXCEPT !.up = FALSE]
               h == Head(run[p].todo)
               U == Range(Tail(run[p].todo))
               o == run[p].opts
    <2>1. At(p, "link down") /\ SetLink(p, l)
      BY Zenon DEF LinkDown, Link
    <2>2. "link down" \in PreNames /\ "link down" \in Words /\ "link down" # "rule"
      BY Zenon DEF PreNames, Words
    <2>0. MarkingNow(p)
      BY <2>1, StageAt, Zenon
    <2>3. /\ Types /\ Running(p) /\ run[p].todo # <<>> /\ link[p] \in LinkType /\ link[p].exists
          /\ h \in Cmd /\ h[1] = "link down"
          /\ LinkFilled(o, link[p], {h} \cup U) /\ RulesFilled(run[p].missed, RulesOf(p), {h} \cup U)
      BY <2>0, <2>1, <1>a, Zenon
    <2>4. h = <<"link down">>
      BY <2>2, <2>3, CmdIs, Zenon
    <2>5. /\ l \in LinkType /\ l.exists = link[p].exists /\ l.addrs = link[p].addrs /\ l.config = link[p].config
          /\ l.mark = link[p].mark
      <3>1. link[p] \in LinkType
        BY <2>3, Zenon
      <3> QED
        BY <3>1, Zenon DEF LinkType
    <2> HIDE DEF l, h, U, o
    <2>6. /\ Frame(p) /\ link'[p] = l /\ RulesOf(p)' = RulesOf(p) /\ NetsOf(p)' = NetsOf(p)
          /\ dirty' = dirty /\ Same(run[p], run'[p]) /\ run'[p].todo = Tail(run[p].todo)
      BY <2>1, <2>3, <2>5, SetLinkIs, Zenon
    <2>7. LinkFilled(o, l, U)
      BY <2>3, <2>4, <2>5, <2>a, Zenon
    <2>8. RulesFilled(run[p].missed, RulesOf(p), U)
      BY <2>2, <2>3, RulesKept, Zenon
    <2> QED
      BY <2>0, <2>1, <2>2, <2>3, <2>5, <2>6, <2>7, <2>8, <1>b, Zenon DEF U, o
  <1>e. ASSUME SetMark(p) PROVE Turn(p)
    <2> USE <1>e
    <2>a. ASSUME NEW o, NEW l, NEW k, NEW U, LinkFilled(o, l, {<<"wg set fwmark">>} \cup U),
                 k.config = l.config, k.mark, k.up = l.up, k.addrs = l.addrs
          PROVE  LinkFilled(o, k, U)
      <3> USE <2>a
      <3>1. <<"link up">> # <<"wg set fwmark">> /\ \A a : <<"addr add", a>> # <<"wg set fwmark">>
        BY Zenon
      <3> QED
        BY <3>1, Zenon DEF LinkFilled
    <2> DEFINE l == [link[p] EXCEPT !.mark = TRUE]
               h == Head(run[p].todo)
               U == Range(Tail(run[p].todo))
               o == run[p].opts
    <2>1. At(p, "wg set fwmark") /\ SetLink(p, l)
      BY Zenon DEF SetMark, Link
    <2>2. "wg set fwmark" \in PreNames /\ "wg set fwmark" \in Words /\ "wg set fwmark" # "rule"
      BY Zenon DEF PreNames, Words
    <2>0. MarkingNow(p)
      BY <2>1, StageAt, Zenon
    <2>3. /\ Types /\ Running(p) /\ run[p].todo # <<>> /\ link[p] \in LinkType /\ link[p].exists
          /\ h \in Cmd /\ h[1] = "wg set fwmark"
          /\ LinkFilled(o, link[p], {h} \cup U) /\ RulesFilled(run[p].missed, RulesOf(p), {h} \cup U)
      BY <2>0, <2>1, <1>a, Zenon
    <2>4. h = <<"wg set fwmark">>
      BY <2>2, <2>3, CmdIs, Zenon
    <2>5. /\ l \in LinkType /\ l.exists = link[p].exists /\ l.addrs = link[p].addrs /\ l.config = link[p].config
          /\ l.up = link[p].up /\ l.mark
      <3>1. link[p] \in LinkType
        BY <2>3, Zenon
      <3> QED
        BY <3>1, Zenon DEF LinkType
    <2> HIDE DEF l, h, U, o
    <2>6. /\ Frame(p) /\ link'[p] = l /\ RulesOf(p)' = RulesOf(p) /\ NetsOf(p)' = NetsOf(p)
          /\ dirty' = dirty /\ Same(run[p], run'[p]) /\ run'[p].todo = Tail(run[p].todo)
      BY <2>1, <2>3, <2>5, SetLinkIs, Zenon
    <2>7. LinkFilled(o, l, U)
      BY <2>3, <2>4, <2>5, <2>a, Zenon
    <2>8. RulesFilled(run[p].missed, RulesOf(p), U)
      BY <2>2, <2>3, RulesKept, Zenon
    <2> QED
      BY <2>0, <2>1, <2>2, <2>3, <2>5, <2>6, <2>7, <2>8, <1>b, Zenon DEF U, o
  <1>f. ASSUME AddRule(p) PROVE Turn(p)
    <2> USE <1>f
    <2>a. ASSUME NEW m, NEW R, NEW g, NEW e, NEW r, NEW U, RulesFilled(m, R, {<<"rule", g, e>>} \cup U), r.fam = g, r.chain = e
          PROVE  RulesFilled(m, R \cup {r}, U)
      <3> USE <2>a
      <3>1. \A f, d : <<"rule", f, d>> = <<"rule", g, e>> => f = g /\ d = e
        OBVIOUS
      <3>2. ASSUME ~ m, NEW f \in Family, NEW d \in Chain
            PROVE  <<"rule", f, d>> \in U \/ \E x \in R \cup {r} : x.fam = f /\ x.chain = d
        BY <3>1, <3>2 DEF RulesFilled
      <3> QED
        BY <3>2, Zenon DEF RulesFilled
    <2> DEFINE h == Head(run[p].todo)
               U == Range(Tail(run[p].todo))
               o == run[p].opts
               b == h = <<"rule", "6", "INPUT">> /\ should_block_ipv6(link[p].config)
               x == [iface |-> p, fam |-> h[2], chain |-> h[3], drop |-> b]
    <2>1. At(p, "rule") /\ rules' = rules \cup {x} /\ Done(p) /\ UNCHANGED <<link, nets, faults, dirty>>
      BY Zenon DEF AddRule, Link
    <2>2. "rule" \in PreNames /\ "rule" \notin {"wg set fwmark", "link up", "addr add"}
      BY Zenon DEF PreNames
    <2>0. MarkingNow(p)
      BY <2>1, StageAt, Zenon
    <2>3. /\ Types /\ Running(p) /\ run[p].todo # <<>> /\ link[p] \in LinkType /\ link[p].exists
          /\ h \in Cmd /\ h[1] = "rule"
          /\ LinkFilled(o, link[p], {h} \cup U) /\ RulesFilled(run[p].missed, RulesOf(p), {h} \cup U)
      BY <2>0, <2>1, <1>a, Zenon
    <2>4. h = <<"rule", h[2], h[3]>> /\ h[2] \in Family /\ h[3] \in Chain
      BY <2>3, CmdIs, Zenon
    <2>5. b \in BOOLEAN
      BY Zenon
    <2> HIDE DEF b, h
    <2>6. x \in Rule /\ x.iface = p /\ x.fam = h[2] /\ x.chain = h[3]
      BY <2>4, <2>5 DEF Rule
    <2> HIDE DEF x, U, o
    <2>7. rules \in SUBSET Rule
      BY <2>3, Zenon DEF Types
    <2>8. rules' \in SUBSET Rule /\ \A r \in Rule : r.iface # p => (r \in rules' <=> r \in rules)
      BY <2>1, <2>6, <2>7, Zenon
    <2>9. /\ Frame(p) /\ link'[p] = link[p] /\ NetsOf(p)' = NetsOf(p) /\ dirty' = dirty
          /\ Same(run[p], run'[p]) /\ run'[p].todo = Tail(run[p].todo)
      BY <2>1, <2>3, <2>8, SetRulesIs, Zenon
    <2>10. RulesOf(p)' = RulesOf(p) \cup {x}
      BY <2>1, <2>6, Zenon DEF RulesOf
    <2>11. LinkFilled(o, link[p], U)
      BY <2>2, <2>3, LinkKept, Zenon
    <2>12. RulesFilled(run[p].missed, RulesOf(p) \cup {x}, U)
      BY <2>3, <2>4, <2>6, <2>a, Zenon
    <2> QED
      BY <2>0, <2>1, <2>2, <2>3, <2>9, <2>10, <2>11, <2>12, <1>b, Zenon DEF U, o
  <1>g. ASSUME CreateNetwork(p) PROVE Turn(p)
    <2> USE <1>g
    <2> DEFINE h == Head(run[p].todo)
               u == Tail(run[p].todo)
               U == Range(u)
               o == run[p].opts
               n == run[p].netid
               m == [NoNet EXCEPT !.exists = TRUE]
    <2>1. At(p, "network create") /\ ~ nets[n].exists /\ SetNet(p, n, m)
      BY Zenon DEF CreateNetwork, Net
    <2>2. "network create" \notin {"wg set fwmark", "link up", "addr add"} /\ "network create" # "rule"
      BY Zenon
    <2>0. MarkingNow(p)
      BY <2>1, StageAt, Zenon
    <2>3. /\ Types /\ Running(p) /\ run[p].todo # <<>> /\ link[p].exists /\ Up(run[p]) /\ n \in Netids
          /\ (p \in dirty \/ NetsOf(p) = {}) /\ h \in Cmd /\ h[1] = "network create"
          /\ LinkFilled(o, link[p], {h} \cup U) /\ RulesFilled(run[p].missed, RulesOf(p), {h} \cup U)
          /\ NetFilled(o, run[p].missed, NoNet, U) /\ IsLinking(u)
      BY <2>0, <2>1, <1>a, Zenon
    <2>4. /\ m \in NetType /\ m.exists /\ m.iface = None
          /\ m.routes = NoNet.routes /\ m.dns = NoNet.dns /\ m.users = NoNet.users
      BY Zenon DEF NetType, NoNet
    <2>5. nets \in [Netids -> NetType] /\ nets' = [nets EXCEPT ![n] = m]
      BY <2>1, <2>3, Zenon DEF Types, SetNet
    <2> HIDE DEF m, n, o, u, U, h
    <2>6. nets'[n] = m
      BY <2>3, <2>5, Zenon
    <2>7. NetStep(p, n)
      BY <2>1, <2>4, <2>6, Zenon DEF NetStep
    <2>8. /\ Frame(p) /\ link'[p] = link[p] /\ RulesOf(p)' = RulesOf(p) /\ dirty' = dirty
          /\ \A k \in Netids : k # n => nets'[k] = nets[k]
          /\ Same(run[p], run'[p]) /\ run'[p].todo = Tail(run[p].todo)
      BY <2>1, <2>3, <2>4, <2>7, SetNetIs, Zenon
    <2>9. NetsOf(p)' = NetsOf(p)
      <3>1. p # None
        BY WgQuickAndroidAssumption, Zenon
      <3> QED
        BY <2>1, <2>4, <2>6, <2>8, <3>1, Zenon DEF NetsOf
    <2>10. LinkFilled(o, link[p], U) /\ RulesFilled(run[p].missed, RulesOf(p), U)
      BY <2>2, <2>3, LinkKept, RulesKept, Zenon
    <2>11. NetFilled(o, run[p].missed, m, U)
      BY <2>3, <2>4, Zenon DEF NetFilled, RoutesFilled, DnsFilled, UsersFilled
    <2>12. /\ Up(run'[p]) /\ run'[p].opts = o /\ run'[p].netid = n /\ run'[p].missed = run[p].missed /\ run'[p].todo = u
      BY <2>3, <2>8, SameUp, Zenon DEF Same, o, n, u
    <2>13. LinkingNow(p)'
      BY <2>3, <2>4, <2>6, <2>8, <2>9, <2>10, <2>11, <2>12, Zenon DEF LinkingNow, Linking, Filled, U
    <2> QED
      BY <2>1, <2>8, <2>12, <2>13, Zenon DEF Turn, n
  <1> QED
    BY <1>c, <1>d, <1>e, <1>f, <1>g, Zenon

\* The commands that are left then.
LEMMA FillingNext ==
  ASSUME Inv, NEW p \in Ifaces, Frame(p), Up(run'[p]), IsFilling(run'[p].todo), run'[p].netid \in Netids, link'[p].exists,
         p \in dirty' \/ AtMostOne(NetsOf(p)'),
         nets'[run'[p].netid].exists, nets'[run'[p].netid].iface = p,
         LinkFilled(run'[p].opts, link'[p], Range(run'[p].todo)),
         RulesFilled(run'[p].missed, RulesOf(p)', Range(run'[p].todo)),
         NetFilled(run'[p].opts, run'[p].missed, nets'[run'[p].netid], Range(run'[p].todo))
  PROVE  Turn(p)
  <1>1. FillingNow(p)'
    BY Zenon DEF FillingNow, Filling, Filled
  <1> QED
    BY <1>1, FillingTurn, Zenon

\* From the time that the network has the interface.
LEMMA FillingHas ==
  ASSUME Inv, NEW p \in Ifaces, NEW c, At(p, c), FillingNow(p)
  PROVE  LET r == run[p]
             h == Head(r.todo)
             U == Range(Tail(r.todo))
             net == nets[r.netid]
         IN  /\ Types /\ Running(p) /\ r.todo # <<>> /\ link[p] \in LinkType /\ link[p].exists /\ r \in Proc /\ Up(r)
             /\ r.netid \in Netids /\ nets \in [Netids -> NetType] /\ net \in NetType /\ net.exists /\ net.iface = p
             /\ (p \in dirty \/ AtMostOne(NetsOf(p))) /\ h \in Cmd /\ h[1] = c
             /\ IsFilling(Tail(r.todo))
             /\ LinkFilled(r.opts, link[p], {h} \cup U)
             /\ RulesFilled(r.missed, RulesOf(p), U)
             /\ NetFilled(r.opts, r.missed, net, {h} \cup U)
  <1> DEFINE r == run[p]
             t == r.todo
             h == Head(t)
             U == Range(Tail(t))
             net == nets[r.netid]
  <1>1. Types /\ Running(p) /\ t # <<>> /\ h[1] = c /\ r \in Proc /\ h \in Cmd
    BY StageAt, Zenon
  <1>2. link[p] \in LinkType /\ nets \in [Netids -> NetType]
    BY <1>1, Zenon DEF Types
  <1>3. t \in Seq(Cmd) /\ Range(t) = {h} \cup U
    BY <1>1, AtIs, Zenon
  <1>4. /\ Up(r) /\ IsFilling(t) /\ (p \in dirty \/ AtMostOne(NetsOf(p))) /\ link[p].exists /\ r.netid \in Netids
        /\ net.exists /\ net.iface = p
        /\ LinkFilled(r.opts, link[p], Range(t)) /\ RulesFilled(r.missed, RulesOf(p), Range(t))
        /\ NetFilled(r.opts, r.missed, net, Range(t))
    BY Zenon DEF FillingNow, Filling, Filled
  <1>5. net \in NetType
    BY <1>2, <1>4, Zenon
  <1>6. h[1] \in PostNames /\ IsFilling(Tail(t))
    BY <1>1, <1>3, <1>4, FillingTail, Zenon
  <1>7. h[1] # "rule"
    BY <1>6, Zenon DEF PostNames
  <1> HIDE DEF t, h, U, net
  <1>8. RulesFilled(r.missed, RulesOf(p), U)
    BY <1>3, <1>4, <1>7, RulesKept, Zenon
  <1> QED
    BY <1>1, <1>2, <1>3, <1>4, <1>5, <1>6, <1>8, Zenon DEF t, h, U, net

\* A command that changes the link.
LEMMA FillingLinkTurn ==
  ASSUME Inv, NEW p \in Ifaces, NEW c, At(p, c), FillingNow(p),
         c \notin {"wg show allowed-ips", "route add", "dns", "users add", "exit"},
         NEW l \in LinkType, l.exists, SetLink(p, l), LinkFilled(run[p].opts, l, Range(Tail(run[p].todo)))
  PROVE  Turn(p)
  <1> DEFINE r == run[p]
             h == Head(r.todo)
             u == Tail(r.todo)
             U == Range(u)
             net == nets[r.netid]
  <1>1. /\ Types /\ Running(p) /\ r.todo # <<>> /\ Up(r)
        /\ r.netid \in Netids /\ net.exists /\ net.iface = p
        /\ (p \in dirty \/ AtMostOne(NetsOf(p))) /\ h[1] = c /\ IsFilling(u)
        /\ RulesFilled(r.missed, RulesOf(p), U)
        /\ NetFilled(r.opts, r.missed, net, {h} \cup U)
    BY FillingHas, Zenon
  <1>2. /\ Frame(p) /\ link'[p] = l /\ RulesOf(p)' = RulesOf(p) /\ NetsOf(p)' = NetsOf(p)
        /\ nets' = nets /\ dirty' = dirty /\ Same(run[p], run'[p]) /\ run'[p].todo = Tail(run[p].todo)
    BY <1>1, SetLinkIs, Zenon
  <1>3. NetFilled(r.opts, r.missed, net, U)
    <2> HIDE DEF net, h, U, u
    <2> QED
      BY <1>1, NetKept, Zenon
  <1>4. /\ Up(run'[p]) /\ run'[p].opts = r.opts /\ run'[p].netid = r.netid /\ run'[p].missed = r.missed /\ run'[p].todo = u
    BY <1>1, <1>2, SameUp, Zenon DEF Same
  <1> QED
    BY <1>1, <1>2, <1>3, <1>4, FillingNext, Zenon

\* A command that changes the network.
LEMMA FillingNetTurn ==
  ASSUME Inv, NEW p \in Ifaces, NEW c, At(p, c), FillingNow(p), c \notin {"wg set fwmark", "link up", "addr add"},
         NEW m \in NetType, m.exists, m.iface = p, SetNet(p, run[p].netid, m),
         NetFilled(run[p].opts, run[p].missed, m, Range(Tail(run[p].todo)))
  PROVE  Turn(p)
  <1> DEFINE r == run[p]
             h == Head(r.todo)
             u == Tail(r.todo)
             U == Range(u)
             n == r.netid
  <1>1. /\ Types /\ Running(p) /\ r.todo # <<>> /\ Up(r) /\ link[p].exists
        /\ n \in Netids /\ nets[n].exists /\ nets[n].iface = p /\ nets \in [Netids -> NetType]
        /\ (p \in dirty \/ AtMostOne(NetsOf(p))) /\ h[1] = c /\ IsFilling(u)
        /\ RulesFilled(r.missed, RulesOf(p), U)
        /\ LinkFilled(r.opts, link[p], {h} \cup U)
    BY FillingHas, Zenon
  <1>2. nets' = [nets EXCEPT ![n] = m]
    BY Zenon DEF SetNet
  <1>3. nets'[n] = m
    <2> HIDE DEF n
    <2> QED
      BY <1>1, <1>2
  <1>4. NetStep(p, n)
    BY <1>1, <1>3, Zenon DEF NetStep
  <1>5. /\ Frame(p) /\ link'[p] = link[p] /\ RulesOf(p)' = RulesOf(p) /\ dirty' = dirty
        /\ \A k \in Netids : k # n => nets'[k] = nets[k]
        /\ Same(run[p], run'[p]) /\ run'[p].todo = Tail(run[p].todo)
    BY <1>1, <1>4, SetNetIs, Zenon
  <1>6. NetsOf(p)' = NetsOf(p)
    <2>1. nets'[n].exists /\ nets'[n].iface = p
      BY <1>3, Zenon
    <2>2. ASSUME NEW k \in Netids
          PROVE  (nets'[k].exists /\ nets'[k].iface = p) <=> (nets[k].exists /\ nets[k].iface = p)
      <3>1. CASE k = n
        BY <1>1, <2>1, <3>1, Zenon
      <3>2. CASE k # n
        BY <1>5, <3>2, Zenon
      <3> QED
        BY <3>1, <3>2, Zenon
    <2> QED
      BY <2>2, Zenon DEF NetsOf
  <1>7. LinkFilled(r.opts, link[p], U)
    <2> HIDE DEF h, U, u
    <2> QED
      BY <1>1, LinkKept, Zenon
  <1>8. /\ Up(run'[p]) /\ run'[p].opts = r.opts /\ run'[p].netid = r.netid /\ run'[p].missed = r.missed /\ run'[p].todo = u
    BY <1>1, <1>5, SameUp, Zenon DEF Same
  <1>9. nets'[run'[p].netid] = m /\ run'[p].netid \in Netids
    BY <1>1, <1>3, <1>8, Zenon
  <1>10. /\ LinkFilled(run'[p].opts, link'[p], Range(run'[p].todo))
         /\ RulesFilled(run'[p].missed, RulesOf(p)', Range(run'[p].todo))
         /\ NetFilled(run'[p].opts, run'[p].missed, nets'[run'[p].netid], Range(run'[p].todo))
    BY <1>1, <1>5, <1>7, <1>8, <1>9, Zenon
  <1>11. Frame(p) /\ Up(run'[p]) /\ IsFilling(run'[p].todo) /\ link'[p].exists /\ (p \in dirty' \/ AtMostOne(NetsOf(p)'))
    BY <1>1, <1>5, <1>6, <1>8, Zenon
  <1> QED
    BY <1>9, <1>10, <1>11, FillingNext, Zenon

\* A command that changes neither.
LEMMA FillingKeptTurn ==
  ASSUME Inv, NEW p \in Ifaces, NEW c, At(p, c), FillingNow(p),
         c \notin {"wg set fwmark", "link up", "addr add"},
         c \notin {"wg show allowed-ips", "route add", "dns", "users add", "exit"},
         Done(p), UNCHANGED Env
  PROVE  Turn(p)
  <1> DEFINE r == run[p]
             h == Head(r.todo)
             u == Tail(r.todo)
             U == Range(u)
             net == nets[r.netid]
  <1>1. /\ Types /\ Running(p) /\ r.todo # <<>> /\ Up(r) /\ link[p].exists
        /\ r.netid \in Netids /\ net.exists /\ net.iface = p
        /\ (p \in dirty \/ AtMostOne(NetsOf(p))) /\ h[1] = c /\ IsFilling(u)
        /\ RulesFilled(r.missed, RulesOf(p), U)
        /\ LinkFilled(r.opts, link[p], {h} \cup U)
        /\ NetFilled(r.opts, r.missed, net, {h} \cup U)
    BY FillingHas, Zenon
  <1>2. /\ run' \in [Ifaces -> Proc] /\ Others(p) /\ Same(run[p], run'[p]) /\ run'[p].todo = Tail(run[p].todo)
    BY <1>1, DoneIs, Zenon
  <1>3. /\ Frame(p) /\ link'[p] = link[p] /\ RulesOf(p)' = RulesOf(p) /\ NetsOf(p)' = NetsOf(p)
        /\ nets' = nets /\ dirty' = dirty
    BY <1>2, EnvKept, Zenon
  <1>4. LinkFilled(r.opts, link[p], U) /\ NetFilled(r.opts, r.missed, net, U)
    <2> HIDE DEF net, h, U, u
    <2> QED
      BY <1>1, LinkKept, NetKept, Zenon
  <1>5. /\ Up(run'[p]) /\ run'[p].opts = r.opts /\ run'[p].netid = r.netid /\ run'[p].missed = r.missed /\ run'[p].todo = u
    BY <1>1, <1>2, SameUp, Zenon DEF Same
  <1> QED
    BY <1>1, <1>3, <1>4, <1>5, FillingNext, Zenon

\* set_mtu has not been run.
LEMMA NoMtu == 0 \in Mtus
  BY DEF Mtus

\* The allowed IPs have been listed, or the listing is lost.
LEMMA ListedTurn ==
  ASSUME Inv, NEW p \in Ifaces, At(p, "wg show allowed-ips"), run' \in [Ifaces -> Proc], Others(p),
         NEW r, run'[p] = r, r.op = run[p].op, r.status = run[p].status, r.opts = run[p].opts, r.netid = run[p].netid,
         r.cleanup = run[p].cleanup, r.exiting = run[p].exiting,
         NEW A, (A = RouteCmds(run[p].opts) /\ r.missed = run[p].missed) \/ (A = {} /\ r.missed),
         Range(r.todo) = A \cup Range(Tail(run[p].todo)),
         UNCHANGED <<link, rules, nets>>, faults' \in 0..MaxFaults, dirty' = dirty \/ dirty' = dirty \cup {p}
  PROVE  Turn(p)
  <1> DEFINE h == Head(run[p].todo)
             u == Tail(run[p].todo)
             U == Range(u)
             o == run[p].opts
             net == nets[run[p].netid]
  <1>1. "wg show allowed-ips" \in PostNames \ {"am broadcast"} /\ "wg show allowed-ips" \in Words
        /\ "wg show allowed-ips" \notin {"wg set fwmark", "link up", "addr add"} /\ "route add" \in PostNames
    BY Zenon DEF PostNames, Words
  <1>2. FillingNow(p)
    BY <1>1, StageAt, Zenon
  <1>3. /\ Types /\ Up(run[p]) /\ link[p].exists
        /\ run[p].netid \in Netids /\ net.exists /\ net.iface = p
        /\ (p \in dirty \/ AtMostOne(NetsOf(p))) /\ h \in Cmd /\ h[1] = "wg show allowed-ips" /\ IsFilling(u)
        /\ RulesFilled(run[p].missed, RulesOf(p), U)
        /\ LinkFilled(o, link[p], {h} \cup U)
        /\ NetFilled(o, run[p].missed, net, {h} \cup U)
    BY <1>2, FillingHas, Zenon
  <1>4. h = <<"wg show allowed-ips">>
    BY <1>1, <1>3, CmdIs, Zenon
  <1>5. Frame(p) /\ link'[p] = link[p] /\ RulesOf(p)' = RulesOf(p) /\ NetsOf(p)' = NetsOf(p)
    BY KeptIs, Zenon
  <1>6. \A c \in A : \E v : c = <<"route add", v>>
    BY Zenon DEF RouteCmds
  <1>7. \A v : <<"route add", v>>[1] = "route add"
    BY Zenon
  <1>8. \A c \in A : c[1] = "route add"
    BY <1>6, <1>7, Zenon
  <1>b. (A = RouteCmds(o) /\ r.missed = run[p].missed) \/ (A = {} /\ r.missed)
    BY Zenon
  <1>c. NetFilled(o, run[p].missed, net, {<<"wg show allowed-ips">>} \cup U)
    BY <1>3, <1>4, Zenon
  <1> HIDE DEF h, U, u, o, net
  <1>a. NetFilled(o, r.missed, net, A \cup U)
    <2>1. CASE A = {} /\ r.missed
      BY <1>c, <2>1, NetListed, Zenon
    <2>2. CASE A = RouteCmds(o) /\ r.missed = run[p].missed
      BY <1>c, <2>2, NetListed, Zenon
    <2> QED
      BY <1>b, <2>1, <2>2, Zenon
  <1>9. LinkFilled(o, link[p], U)
    BY <1>1, <1>3, LinkKept, Zenon
  <1>10. LinkFilled(o, link[p], A \cup U)
    <2>1. "route add" # "link down" /\ "route add" # "addr add"
      BY Zenon
    <2>2. <<"link down">> \notin A /\ \A v : <<"addr add", v>> \notin A
      BY <1>8, <2>1, OtherPending, Zenon
    <2> QED
      BY <1>9, <2>2, Zenon DEF LinkFilled
  <1>11. RulesFilled(r.missed, RulesOf(p), A \cup U)
    BY <1>3, Zenon DEF RulesFilled
  <1>12. Range(r.todo) = A \cup U
    BY Zenon DEF U, u
  <1>13. IsFilling(r.todo)
    BY <1>1, <1>3, <1>8, <1>12, Zenon DEF IsFilling, U
  <1>14. Up(r)
    BY <1>3, Zenon DEF Up
  <1>15. nets' = nets /\ (p \in dirty' \/ AtMostOne(NetsOf(p)))
    BY <1>3, Zenon
  <1>16. r.opts = o /\ nets[r.netid] = net /\ r.netid \in Netids
    BY <1>3, Zenon DEF o, net
  <1>17. FillingNow(p)'
    BY <1>3, <1>5, <1>10, <1>11, <1>12, <1>13, <1>14, <1>15, <1>16, <1>a, Zenon DEF FillingNow, Filling, Filled
  <1> QED
    BY <1>5, <1>17, FillingTurn, Zenon

\* cmd_up fills the link and the network: up_if, add_addr, set_dnses, set_routes, set_mtu, set_users.
LEMMA FillingTurns ==
  ASSUME Inv, NEW p \in Ifaces,
         AddInterface(p) \/ AddAddr(p) \/ SetMtu(p) \/ SetDns(p) \/ AddRoute(p) \/ AddUsers(p)
         \/ CreateCache(p) \/ ListAllowedIps(p)
  PROVE  Turn(p)
  <1>a. ASSUME AddInterface(p) PROVE Turn(p)
    <2> USE <1>a
    <2> DEFINE h == Head(run[p].todo)
               u == Tail(run[p].todo)
               U == Range(u)
               o == run[p].opts
               n == run[p].netid
               m == [nets[n] EXCEPT !.iface = p]
    <2>1. At(p, "network interface add") /\ nets[n].exists /\ SetNet(p, n, m)
      BY Zenon DEF AddInterface, Net
    <2>2. /\ "network interface add" \notin {"wg set fwmark", "link up", "addr add"} /\ "network interface add" # "rule"
          /\ "network interface add" \notin {"wg show allowed-ips", "route add", "dns", "users add", "exit"}
      BY Zenon
    <2>0. /\ LinkingNow(p) /\ Types /\ Running(p) /\ run[p].todo # <<>> /\ h \in Cmd /\ h[1] = "network interface add"
          /\ run[p] \in Proc
      BY <2>1, StageAt, Zenon
    <2>a. Range(run[p].todo) = {h} \cup U
      BY <2>0, AtIs, Zenon
    <2>3. /\ link[p].exists /\ Up(run[p]) /\ n \in Netids
          /\ (p \in dirty \/ NetsOf(p) = {}) /\ nets[n].iface = None
          /\ LinkFilled(o, link[p], {h} \cup U) /\ RulesFilled(run[p].missed, RulesOf(p), {h} \cup U)
          /\ NetFilled(o, run[p].missed, nets[n], {h} \cup U) /\ IsFilling(u)
      BY <2>0, <2>a, Zenon DEF LinkingNow, Linking, Filled, IsLinking
    <2>5. nets \in [Netids -> NetType] /\ nets' = [nets EXCEPT ![n] = m]
      BY <2>0, <2>1, Zenon DEF Types, SetNet
    <2>4. /\ m \in NetType /\ m.exists = nets[n].exists /\ m.iface = p
          /\ m.routes = nets[n].routes /\ m.dns = nets[n].dns /\ m.users = nets[n].users
      <3>1. nets[n] \in NetType
        BY <2>3, <2>5
      <3> QED
        BY <3>1 DEF NetType
    <2> HIDE DEF m, n, o, u, U, h
    <2>6. nets'[n] = m
      BY <2>3, <2>5, Zenon
    <2>7. NetStep(p, n)
      BY <2>1, <2>3, <2>4, <2>6, Zenon DEF NetStep, n
    <2>8. /\ Frame(p) /\ link'[p] = link[p] /\ RulesOf(p)' = RulesOf(p) /\ dirty' = dirty
          /\ \A k \in Netids : k # n => nets'[k] = nets[k]
          /\ Same(run[p], run'[p]) /\ run'[p].todo = Tail(run[p].todo)
      BY <2>0, <2>1, <2>3, <2>4, <2>7, SetNetIs, Zenon
    <2>9. p \in dirty' \/ AtMostOne(NetsOf(p)')
      <3>1. ASSUME NetsOf(p) = {}, NEW x \in NetsOf(p)' PROVE x = n
        BY <2>8, <3>1, Zenon DEF NetsOf
      <3> QED
        BY <2>3, <2>8, <3>1, Zenon DEF AtMostOne
    <2>10. LinkFilled(o, link[p], U) /\ RulesFilled(run[p].missed, RulesOf(p), U)
      BY <2>0, <2>2, <2>3, LinkKept, RulesKept, Zenon
    <2>11. NetFilled(o, run[p].missed, m, U)
      BY <2>0, <2>2, <2>3, <2>4, NetKept, Zenon
    <2>12. /\ Up(run'[p]) /\ run'[p].opts = o /\ run'[p].netid = n /\ run'[p].missed = run[p].missed /\ run'[p].todo = u
      BY <2>3, <2>8, SameUp, Zenon DEF Same, o, n, u
    <2> QED
      BY <2>1, <2>3, <2>4, <2>6, <2>8, <2>9, <2>10, <2>11, <2>12, FillingNext, Zenon DEF U
  <1>b. ASSUME AddAddr(p) PROVE Turn(p)
    <2> USE <1>b
    <2>a. ASSUME NEW o, NEW l, NEW k, NEW a, NEW U, LinkFilled(o, l, {<<"addr add", a>>} \cup U),
                 k.config = l.config, k.mark = l.mark, k.up = l.up, k.addrs = l.addrs \cup {a}
          PROVE  LinkFilled(o, k, U)
      <3> USE <2>a
      <3>1. <<"link up">> # <<"addr add", a>> /\ <<"wg set fwmark">> # <<"addr add", a>>
        BY Zenon
      <3>2. \A b : <<"addr add", b>> = <<"addr add", a>> <=> b = a
        BY Zenon
      <3> QED
        BY <3>1, <3>2, Zenon DEF LinkFilled
    <2> DEFINE h == Head(run[p].todo)
               U == Range(Tail(run[p].todo))
               o == run[p].opts
               a == h[2]
               l == [link[p] EXCEPT !.addrs = @ \cup {a}]
    <2>1. At(p, "addr add") /\ SetLink(p, l)
      BY Zenon DEF AddAddr, Link, Arg
    <2>2. "addr add" \in PostNames \ {"am broadcast"}
          /\ "addr add" \notin {"wg show allowed-ips", "route add", "dns", "users add", "exit"}
      BY Zenon DEF PostNames
    <2>3. FillingNow(p)
      BY <2>1, <2>2, StageAt, Zenon
    <2>4. /\ link[p] \in LinkType /\ link[p].exists /\ h \in Cmd /\ h[1] = "addr add"
          /\ LinkFilled(o, link[p], {h} \cup U)
      BY <2>1, <2>3, FillingHas, Zenon
    <2>5. h = <<"addr add", a>> /\ a \in Value
      BY <2>4, CmdIs, Zenon
    <2> HIDE DEF h, U, o, a
    <2>6. /\ l \in LinkType /\ l.exists = link[p].exists /\ l.config = link[p].config
          /\ l.mark = link[p].mark /\ l.up = link[p].up /\ l.addrs = link[p].addrs \cup {a}
      <3>1. link[p] \in LinkType /\ a \in Value
        BY <2>4, <2>5, Zenon
      <3> QED
        BY <3>1 DEF LinkType
    <2> HIDE DEF l
    <2>7. LinkFilled(o, l, U)
      BY <2>4, <2>5, <2>6, <2>a, Zenon
    <2> QED
      BY <2>1, <2>2, <2>3, <2>4, <2>6, <2>7, FillingLinkTurn, Zenon DEF U, o
  <1>c. ASSUME SetMtu(p) PROVE Turn(p)
    <2> USE <1>c
    \* set_mtu of a file.
    <2>a. ASSUME NEW c \in Seq(Line), NEW m \in {0} \cup Value PROVE set_mtu(c, m) \in Mtus
      BY DEF Mtus
    <2> DEFINE h == Head(run[p].todo)
               U == Range(Tail(run[p].todo))
               o == run[p].opts
               v == set_mtu(link[p].config, run[p].opts.mtu)
               l == [link[p] EXCEPT !.mtu = v]
    <2>1. At(p, "setmtu") /\ SetLink(p, l)
      BY Zenon DEF SetMtu, Link
    <2>2. /\ "setmtu" \in PostNames \ {"am broadcast"}
          /\ "setmtu" \notin {"wg show allowed-ips", "route add", "dns", "users add", "exit"}
          /\ "setmtu" \notin {"wg set fwmark", "link up", "addr add"}
      BY Zenon DEF PostNames
    <2>3. FillingNow(p)
      BY <2>1, <2>2, StageAt, Zenon
    <2>4. /\ link[p] \in LinkType /\ link[p].exists /\ h \in Cmd /\ h[1] = "setmtu" /\ run[p] \in Proc
          /\ LinkFilled(o, link[p], {h} \cup U)
      BY <2>1, <2>3, FillingHas, Zenon
    <2>5. v \in Mtus
      <3>1. link[p].config \in Seq(Line)
        BY <2>4 DEF LinkType
      <3>2. run[p].opts.mtu \in {0} \cup Value
        BY <2>4 DEF Proc, Options
      <3> QED
        BY <3>1, <3>2, <2>a, Zenon
    <2> HIDE DEF v, h, U, o
    <2>6. /\ l \in LinkType /\ l.exists = link[p].exists /\ l.config = link[p].config
          /\ l.mark = link[p].mark /\ l.up = link[p].up /\ l.addrs = link[p].addrs
      <3>1. link[p] \in LinkType
        BY <2>4, Zenon
      <3> QED
        BY <2>5, <3>1 DEF LinkType
    <2> HIDE DEF l
    <2>7. LinkFilled(o, l, U)
      BY <2>2, <2>4, <2>6, LinkKept, Zenon
    <2> QED
      BY <2>1, <2>2, <2>3, <2>4, <2>6, <2>7, FillingLinkTurn, Zenon DEF U, o
  <1>d. ASSUME SetDns(p) PROVE Turn(p)
    <2> USE <1>d
    <2>a. ASSUME NEW o, NEW m, NEW net, NEW k, NEW s \in SUBSET Value, NEW d \in SUBSET Value, NEW U,
                 NetFilled(o, m, net, {<<"dns", s, d>>} \cup U),
                 k.routes = net.routes, k.dns = s \cup d, k.users = net.users
          PROVE  NetFilled(o, m, k, U)
      <3> USE <2>a
      <3> DEFINE c == <<"dns", s, d>>
      <3>1. /\ <<"wg show allowed-ips">> # c /\ <<"exit">> # c
            /\ \A x : <<"route add", x>> # c /\ <<"users add", x>> # c
        OBVIOUS
      <3>0. NetFilled(o, m, net, {c} \cup U) /\ c \in {c} \cup U
        BY Zenon
      <3>2. s \cup d = Servers(o)
        BY <3>0, Zenon DEF DnsFilled, NetFilled
      <3> HIDE DEF c
      <3>3. RoutesFilled(o, m, k, U)
        BY <3>0, <3>1, Zenon DEF RoutesFilled, NetFilled
      <3>4. DnsFilled(o, k, U)
        BY <3>0, <3>2, Zenon DEF DnsFilled, NetFilled
      <3>5. UsersFilled(o, k, U)
        BY <3>0, <3>1, Zenon DEF UsersFilled, Added, NetFilled
      <3> QED
        BY <3>3, <3>4, <3>5, Zenon DEF NetFilled
    <2> DEFINE h == Head(run[p].todo)
               U == Range(Tail(run[p].todo))
               o == run[p].opts
               n == run[p].netid
               s == h[2]
               d == h[3]
               m == [nets[n] EXCEPT !.dns = s \cup d]
    <2>1. At(p, "dns") /\ SetNet(p, n, m)
      BY Zenon DEF SetDns, Net
    <2>2. "dns" \in PostNames \ {"am broadcast"} /\ "dns" \notin {"wg set fwmark", "link up", "addr add"}
      BY Zenon DEF PostNames
    <2>3. FillingNow(p)
      BY <2>1, <2>2, StageAt, Zenon
    <2>4. /\ nets[n] \in NetType /\ nets[n].exists /\ nets[n].iface = p /\ h \in Cmd /\ h[1] = "dns"
          /\ NetFilled(o, run[p].missed, nets[n], {h} \cup U)
      BY <2>1, <2>3, FillingHas, Zenon
    <2>5. h = <<"dns", s, d>> /\ s \in SUBSET Value /\ d \in SUBSET Value
      BY <2>4, CmdIs, Zenon
    <2> HIDE DEF h, U, o, s, d, n
    <2>6. /\ m \in NetType /\ m.exists = nets[n].exists /\ m.iface = nets[n].iface
          /\ m.routes = nets[n].routes /\ m.dns = s \cup d /\ m.users = nets[n].users
      <3>1. nets[n] \in NetType /\ s \cup d \in SUBSET Value
        BY <2>4, <2>5, Zenon
      <3> QED
        BY <3>1 DEF NetType
    <2> HIDE DEF m
    <2>7. NetFilled(o, run[p].missed, m, U)
      BY <2>4, <2>5, <2>6, <2>a, Zenon
    <2> QED
      BY <2>1, <2>2, <2>3, <2>4, <2>6, <2>7, FillingNetTurn, Zenon DEF U, o, n
  <1>e. ASSUME AddRoute(p) PROVE Turn(p)
    <2> USE <1>e
    <2>a. ASSUME NEW o, NEW m, NEW net, NEW k, NEW v, NEW U, NetFilled(o, m, net, {<<"route add", v>>} \cup U),
                 k.routes = net.routes \cup {v}, k.dns = net.dns, k.users = net.users
          PROVE  NetFilled(o, m, k, U)
      <3> USE <2>a
      <3> DEFINE c == <<"route add", v>>
      <3>1. /\ <<"wg show allowed-ips">> # c /\ <<"exit">> # c
            /\ \A x : (<<"route add", x>> = c <=> x = v) /\ <<"users add", x>> # c
            /\ \A s, d : <<"dns", s, d>> # c
        BY Zenon
      <3>0. NetFilled(o, m, net, {c} \cup U)
        BY Zenon
      <3> HIDE DEF c
      <3>2. RoutesFilled(o, m, k, U)
        BY <3>0, <3>1, Zenon DEF RoutesFilled, NetFilled
      <3>3. DnsFilled(o, k, U)
        BY <3>0, <3>1, Zenon DEF DnsFilled, NetFilled
      <3>4. UsersFilled(o, k, U)
        BY <3>0, <3>1, Zenon DEF UsersFilled, Added, NetFilled
      <3> QED
        BY <3>2, <3>3, <3>4, Zenon DEF NetFilled
    <2> DEFINE h == Head(run[p].todo)
               U == Range(Tail(run[p].todo))
               o == run[p].opts
               n == run[p].netid
               v == h[2]
               m == [nets[n] EXCEPT !.routes = @ \cup {v}]
    <2>1. At(p, "route add") /\ SetNet(p, n, m)
      BY Zenon DEF AddRoute, Net, Arg
    <2>2. "route add" \in PostNames \ {"am broadcast"} /\ "route add" \notin {"wg set fwmark", "link up", "addr add"}
      BY Zenon DEF PostNames
    <2>3. FillingNow(p)
      BY <2>1, <2>2, StageAt, Zenon
    <2>4. /\ nets[n] \in NetType /\ nets[n].exists /\ nets[n].iface = p /\ h \in Cmd /\ h[1] = "route add"
          /\ NetFilled(o, run[p].missed, nets[n], {h} \cup U)
      BY <2>1, <2>3, FillingHas, Zenon
    <2>5. h = <<"route add", v>> /\ v \in Value
      BY <2>4, CmdIs, Zenon
    <2> HIDE DEF h, U, o, v, n
    <2>6. /\ m \in NetType /\ m.exists = nets[n].exists /\ m.iface = nets[n].iface
          /\ m.routes = nets[n].routes \cup {v} /\ m.dns = nets[n].dns /\ m.users = nets[n].users
      <3>1. nets[n] \in NetType
        BY <2>4, Zenon
      <3> QED
        BY <2>5, <3>1, Zenon DEF NetType
    <2> HIDE DEF m
    <2>7. NetFilled(o, run[p].missed, m, U)
      BY <2>4, <2>5, <2>6, <2>a, Zenon
    <2> QED
      BY <2>1, <2>2, <2>3, <2>4, <2>6, <2>7, FillingNetTurn, Zenon DEF U, o, n
  <1>f. ASSUME AddUsers(p) PROVE Turn(p)
    <2> USE <1>f
    <2>a. ASSUME NEW o, NEW m, NEW net, NEW k, NEW u \in SUBSET (0..MaxUid), NEW U, NetFilled(o, m, net, {<<"users add", u>>} \cup U),
                 k.routes = net.routes, k.dns = net.dns, k.users = net.users \cup u
          PROVE  NetFilled(o, m, k, U)
      <3> USE <2>a
      <3> DEFINE c == <<"users add", u>>
      <3>1. /\ <<"wg show allowed-ips">> # c /\ <<"exit">> # c
            /\ \A x : (<<"users add", x>> = c <=> x = u) /\ <<"route add", x>> # c
            /\ \A s, d : <<"dns", s, d>> # c
        BY Zenon
      <3>0. NetFilled(o, m, net, {c} \cup U)
        BY Zenon
      <3> HIDE DEF c
      <3>2. RoutesFilled(o, m, k, U)
        BY <3>0, <3>1, Zenon DEF RoutesFilled, NetFilled
      <3>3. DnsFilled(o, k, U)
        BY <3>0, <3>1, Zenon DEF DnsFilled, NetFilled
      <3>4. UsersFilled(o, k, U)
        BY <3>0, <3>1, Zenon DEF UsersFilled, Added, NetFilled
      <3> QED
        BY <3>2, <3>3, <3>4, Zenon DEF NetFilled
    <2> DEFINE h == Head(run[p].todo)
               U == Range(Tail(run[p].todo))
               o == run[p].opts
               n == run[p].netid
               v == h[2]
               m == [nets[n] EXCEPT !.users = @ \cup v]
    <2>1. At(p, "users add") /\ SetNet(p, n, m)
      BY Zenon DEF AddUsers, Net, Arg
    <2>2. "users add" \in PostNames \ {"am broadcast"} /\ "users add" \notin {"wg set fwmark", "link up", "addr add"}
      BY Zenon DEF PostNames
    <2>3. FillingNow(p)
      BY <2>1, <2>2, StageAt, Zenon
    <2>4. /\ nets[n] \in NetType /\ nets[n].exists /\ nets[n].iface = p /\ h \in Cmd /\ h[1] = "users add"
          /\ NetFilled(o, run[p].missed, nets[n], {h} \cup U)
      BY <2>1, <2>3, FillingHas, Zenon
    <2>5. h = <<"users add", v>> /\ v \in SUBSET (0..MaxUid)
      BY <2>4, CmdIs, Zenon
    <2> HIDE DEF h, U, o, v, n
    <2>6. /\ m \in NetType /\ m.exists = nets[n].exists /\ m.iface = nets[n].iface
          /\ m.routes = nets[n].routes /\ m.dns = nets[n].dns /\ m.users = nets[n].users \cup v
      <3>1. nets[n] \in NetType
        BY <2>4, Zenon
      <3> QED
        BY <2>5, <3>1, Zenon DEF NetType
    <2> HIDE DEF m
    <2>7. NetFilled(o, run[p].missed, m, U)
      BY <2>4, <2>5, <2>6, <2>a, Zenon
    <2> QED
      BY <2>1, <2>2, <2>3, <2>4, <2>6, <2>7, FillingNetTurn, Zenon DEF U, o, n
  <1>g. ASSUME CreateCache(p) PROVE Turn(p)
    <2> USE <1>g
    <2>1. At(p, "createNetworkCache") /\ Done(p) /\ UNCHANGED Env
      BY Zenon DEF CreateCache
    <2>2. /\ "createNetworkCache" \in PostNames \ {"am broadcast"}
          /\ "createNetworkCache" \notin {"wg show allowed-ips", "route add", "dns", "users add", "exit"}
          /\ "createNetworkCache" \notin {"wg set fwmark", "link up", "addr add"}
      BY Zenon DEF PostNames
    <2>3. FillingNow(p)
      BY <2>1, <2>2, StageAt, Zenon
    <2> QED
      BY <2>1, <2>2, <2>3, FillingKeptTurn, Zenon
  <1>h. ASSUME ListAllowedIps(p) PROVE Turn(p)
    <2> USE <1>h
    \* A command for every allowed IP.
    <2>a. ASSUME NEW ips \in Seq(Value)
          PROVE  LET a == [k \in DOMAIN ips |-> <<"route add", ips[k]>>]
                 IN  a \in Seq(Cmd) /\ Range(a) = {<<"route add", v>> : v \in Range(ips)}
      <3> DEFINE f(v) == <<"route add", v>>
      <3>1. \A v \in Value : f(v) \in Cmd
        BY Zenon DEF Cmd
      <3>2. DOMAIN ips = 1..Len(ips) /\ Len(ips) \in Nat /\ \A k \in 1..Len(ips) : ips[k] \in Value
        OBVIOUS
      <3> HIDE DEF f
      <3> DEFINE a == [k \in 1..Len(ips) |-> f(ips[k])]
      <3>3. a \in Seq(Cmd)
        BY <3>1, <3>2
      <3>4. DOMAIN a = 1..Len(ips) /\ \A k \in 1..Len(ips) : a[k] = f(ips[k])
        OBVIOUS
      <3> HIDE DEF a
      <3>5. Range(a) = {f(v) : v \in Range(ips)}
        BY <3>2, <3>4, Zenon DEF Range
      <3> QED
        BY <3>2, <3>3, <3>5, Zenon DEF a, f
    <2> DEFINE ips == Values(link[p].config, "AllowedIPs")
               a == [k \in DOMAIN ips |-> <<"route add", ips[k]>>]
    <2>1. At(p, "wg show allowed-ips") /\ Go(p, a) /\ UNCHANGED Env
      BY Zenon DEF ListAllowedIps, Link
    <2>2. "wg show allowed-ips" \in PostNames \ {"am broadcast"}
      BY Zenon DEF PostNames
    <2>3. FillingNow(p)
      BY <2>1, <2>2, StageAt, Zenon
    <2>4. /\ Types /\ Running(p) /\ run[p].todo # <<>> /\ link[p] \in LinkType
          /\ LinkFilled(run[p].opts, link[p], {Head(run[p].todo)} \cup Range(Tail(run[p].todo)))
      BY <2>1, <2>3, FillingHas, Zenon
    <2>5. ips \in Seq(Value)
      <3>1. link[p].config \in Seq(Line)
        BY <2>4 DEF LinkType
      <3> QED
        BY <3>1, ValuesTyped
    <2>6. Range(ips) = Allowed(run[p].opts)
      BY <2>4, Zenon DEF LinkFilled, Allowed
    <2> HIDE DEF ips
    <2>7. a \in Seq(Cmd) /\ Range(a) = {<<"route add", v>> : v \in Range(ips)}
      BY <2>5, <2>a, Zenon
    <2> HIDE DEF a
    <2>8. /\ run' \in [Ifaces -> Proc] /\ Others(p) /\ Same(run[p], run'[p])
          /\ Range(run'[p].todo) = Range(a) \cup Range(Tail(run[p].todo))
      BY <2>1, <2>4, <2>7, GoIs, Zenon
    <2>9. UNCHANGED <<link, rules, nets>> /\ faults' \in 0..MaxFaults /\ dirty' = dirty
      BY <2>1, <2>4, Zenon DEF Env, Types
    <2>10. Range(a) = RouteCmds(run[p].opts)
      BY <2>6, <2>7, Zenon DEF RouteCmds
    <2>11. /\ run'[p].op = run[p].op /\ run'[p].status = run[p].status /\ run'[p].opts = run[p].opts
           /\ run'[p].netid = run[p].netid /\ run'[p].cleanup = run[p].cleanup /\ run'[p].exiting = run[p].exiting
           /\ run'[p].missed = run[p].missed
      BY <2>8, Zenon DEF Same
    <2> QED
      BY <2>1, <2>8, <2>9, <2>10, <2>11, ListedTurn, Zenon
  <1> QED
    BY <1>a, <1>b, <1>c, <1>d, <1>e, <1>f, <1>g, <1>h, Zenon

-----------------------------------------------------------------------------
(* What is there is deleted, or its deletion is pending *)

\* While del_if is run, by cmd_down or by cmd_up_cleanup.
LEMMA ClearingHas ==
  ASSUME Inv, NEW p \in Ifaces, NEW c, At(p, c), ClearingNow(p)
  PROVE  LET r == run[p]
             h == Head(r.todo)
             u == Tail(r.todo)
             U == Range(u)
         IN  /\ Types /\ Running(p) /\ r.todo # <<>> /\ link[p] \in LinkType /\ r \in Proc /\ h \in Cmd /\ h[1] = c
             /\ u \in Seq(Cmd) /\ IsClearing(u) /\ (c = "am broadcast" => u = <<>>)
             /\ \A x \in U : x[1] \notin {"link del", "network destroy"}
             /\ r.status = "running"
             /\ (r.op = "down" /\ ~ r.cleanup /\ ~ r.exiting) \/ (r.op = "up" /\ r.cleanup /\ r.exiting)
             /\ r.op = "down" /\ h = <<"link del">> => link[p].exists
             /\ \A x \in {h} \cup U : x[1] = "rule del" => x[2].iface = p
             /\ c = "network destroy" => h[2] \in NetsOf(p)
             /\ p \in dirty \/ Covered(link[p], RulesOf(p), NetsOf(p), {h} \cup U)
  <1> DEFINE r == run[p]
             t == r.todo
             h == Head(t)
             u == Tail(t)
             U == Range(u)
  <1>1. Types /\ Running(p) /\ t # <<>> /\ h[1] = c /\ r \in Proc /\ h \in Cmd
    BY StageAt, Zenon
  <1>2. link[p] \in LinkType
    BY <1>1, Zenon DEF Types
  <1>3. t \in Seq(Cmd) /\ u \in Seq(Cmd) /\ Range(t) = {h} \cup U
    BY <1>1, AtIs, Zenon
  <1>4. /\ r.status = "running" /\ IsClearing(t)
        /\ \/ r.op = "down" /\ ~ r.cleanup /\ ~ r.exiting /\ (<<"link del">> \in Range(t) => link[p].exists)
           \/ r.op = "up" /\ r.cleanup /\ r.exiting
        /\ \A x \in Range(t) : x[1] = "rule del" => x[2].iface = p
        /\ \A x \in Range(t) : x[1] = "network destroy" => x[2] \in NetsOf(p)
        /\ p \in dirty \/ Covered(link[p], RulesOf(p), NetsOf(p), Range(t))
    BY Zenon DEF ClearingNow, Clearing
  <1>5. /\ IsClearing(u) /\ (h[1] = "am broadcast" => u = <<>>)
        /\ \A x \in U : x[1] \in DelNames \ {"link del", "network destroy"}
    BY <1>1, <1>3, <1>4, ClearingTail, Zenon
  <1>6. "up" # "down"
    BY Zenon
  <1> HIDE DEF t, h, u, U
  <1>7. r.op = "down" /\ h = <<"link del">> => link[p].exists
    BY <1>3, <1>4, <1>6, Zenon
  <1>8. c = "network destroy" => h[2] \in NetsOf(p)
    BY <1>1, <1>3, <1>4, Zenon
  <1>9. p \in dirty \/ Covered(link[p], RulesOf(p), NetsOf(p), {h} \cup U)
    BY <1>3, <1>4, Zenon
  <1>10. \A x \in {h} \cup U : x[1] = "rule del" => x[2].iface = p
    BY <1>3, <1>4, Zenon
  <1> QED
    BY <1>1, <1>2, <1>3, <1>4, <1>5, <1>7, <1>8, <1>9, <1>10, Zenon DEF t, h, u, U

\* The commands that are left.
LEMMA ClearingNext ==
  ASSUME NEW p \in Ifaces, Frame(p), NEW r, r = run'[p], r.status = "running", IsClearing(r.todo),
         (r.op = "down" /\ ~ r.cleanup /\ ~ r.exiting) \/ (r.op = "up" /\ r.cleanup /\ r.exiting),
         \A x \in Range(r.todo) : x[1] # "link del",
         \A x \in Range(r.todo) : x[1] = "rule del" => x[2].iface = p,
         \A x \in Range(r.todo) : x[1] = "network destroy" => x[2] \in NetsOf(p)',
         p \in dirty' \/ Covered(link'[p], RulesOf(p)', NetsOf(p)', Range(r.todo))
  PROVE  Turn(p)
  <1>1. <<"link del">>[1] = "link del"
    BY Zenon
  <1>2. <<"link del">> \notin Range(r.todo)
    BY <1>1, Zenon
  <1>3. ClearingNow(p)'
    BY <1>2, Zenon DEF ClearingNow, Clearing
  <1> QED
    BY <1>3, ClearingTurn, Zenon

\* The command is done.
LEMMA ClearingDone ==
  ASSUME Inv, NEW p \in Ifaces, NEW c, At(p, c), ClearingNow(p), Frame(p),
         Same(run[p], run'[p]), run'[p].todo = Tail(run[p].todo),
         p \in dirty' \/ Covered(link'[p], RulesOf(p)', NetsOf(p)', Range(Tail(run[p].todo)))
  PROVE  Turn(p)
  <1> DEFINE r == run'[p]
             u == Tail(run[p].todo)
  <1>1. /\ IsClearing(u) /\ (\A x \in Range(u) : x[1] \notin {"link del", "network destroy"})
        /\ run[p].status = "running"
        /\ (run[p].op = "down" /\ ~ run[p].cleanup /\ ~ run[p].exiting) \/ (run[p].op = "up" /\ run[p].cleanup /\ run[p].exiting)
        /\ \A x \in Range(u) : x[1] = "rule del" => x[2].iface = p
    BY ClearingHas, Zenon
  <1>2. /\ r.todo = u /\ r.status = "running"
        /\ (r.op = "down" /\ ~ r.cleanup /\ ~ r.exiting) \/ (r.op = "up" /\ r.cleanup /\ r.exiting)
    BY <1>1, Zenon DEF Same
  <1>3. p \in dirty' \/ Covered(link'[p], RulesOf(p)', NetsOf(p)', Range(u))
    BY Zenon
  <1>4. /\ IsClearing(r.todo) /\ (\A x \in Range(r.todo) : x[1] # "link del")
        /\ \A x \in Range(r.todo) : x[1] = "rule del" => x[2].iface = p
        /\ \A x \in Range(r.todo) : x[1] = "network destroy" => x[2] \in NetsOf(p)'
        /\ p \in dirty' \/ Covered(link'[p], RulesOf(p)', NetsOf(p)', Range(r.todo))
    BY <1>1, <1>2, <1>3, Zenon
  <1> HIDE DEF r, u
  <1>5. r = run'[p]
    BY Zenon DEF r
  <1> QED
    BY <1>2, <1>4, <1>5, ClearingNext, Zenon

Later(u) == \A c \in Range(u) : c[1] \notin {"link del", "network destroy"}
Deletions(a) == \A k \in 1..Len(a) : a[k][1] = "rule del" \/ (a[k][1] = "network destroy" /\ k = 1)

\* The expression finds the interface itself, and no other.
LEMMA RegexIs ==
  ASSUME PrefixFree, NEW p \in Ifaces, NEW q \in Ifaces
  PROVE  rule_regex(p, q) <=> q = p
  <1>1. p \in Seq(STRING)
    BY WgQuickAndroidAssumption, Zenon
  <1>2. Len(p) <= Len(p) /\ SubSeq(p, 1, Len(p)) = p
    BY <1>1
  <1>3. rule_regex(p, p)
    BY <1>2, Zenon DEF rule_regex
  <1> QED
    BY <1>3, Zenon DEF PrefixFree

\* del_if clears what there is, and both commands broadcast the change.
LEMMA ClearingTurns ==
  ASSUME PrefixFree, Inv, NEW p \in Ifaces,
         Plain(p) \/ DelLink(p) \/ DelRule(p) \/ DestroyNetwork(p) \/ SaveRules(p) \/ ShowRules(p)
  PROVE  Turn(p)
  <1>a. ASSUME NEW t \in Seq(Cmd) PROVE DOMAIN t = 1..Len(t) /\ Len(t) \in Nat
    OBVIOUS
  \* Commands that delete what was listed, in front of what is pending.
  <1>b. ASSUME NEW a \in Seq(Cmd), NEW u \in Seq(Cmd), IsClearing(u),
               Later(u), Deletions(a)
        PROVE  IsClearing(a \o u)
    <2> USE <1>b
    <2> DEFINE t == a \o u
    <2>1. /\ Len(t) = Len(a) + Len(u) /\ Len(a) \in Nat /\ Len(u) \in Nat
          /\ \A k \in 1..Len(a) : t[k] = a[k]
          /\ \A k \in 1..Len(u) : t[k + Len(a)] = u[k]
      BY JoinIs
    <2>2. \A k \in 1..Len(u) : u[k] \in Range(u)
      <3>1. DOMAIN u = 1..Len(u)
        BY <1>a, Zenon
      <3> QED
        BY <3>1, Zenon DEF Range
    <2> HIDE DEF t
    <2>3. /\ "rule del" \in DelNames /\ "network destroy" \in DelNames
          /\ "rule del" # "am broadcast" /\ "network destroy" # "am broadcast"
          /\ "rule del" \notin {"link del", "network destroy"}
      BY Zenon DEF DelNames
    <2>4. ASSUME NEW k \in 1..Len(t)
          PROVE  /\ t[k][1] \in DelNames
                 /\ t[k][1] = "am broadcast" => k = Len(t)
                 /\ t[k][1] \in {"link del", "network destroy"} => k = 1
      <3>1. CASE k \in 1..Len(a)
        <4>1. t[k] = a[k] /\ (a[k][1] = "rule del" \/ (a[k][1] = "network destroy" /\ k = 1))
          BY <2>1, <3>1, Zenon DEF Deletions
        <4> QED
          BY <2>3, <4>1, Zenon
      <3>2. CASE k \notin 1..Len(a)
        <4> DEFINE j == k - Len(a)
        <4>1. j \in 1..Len(u) /\ j + Len(a) = k /\ (j = Len(u) => k = Len(t))
          BY <2>1, <3>2
        <4> HIDE DEF j
        <4>2. t[k] = u[j]
          BY <2>1, <4>1, Zenon
        <4> QED
          BY <2>2, <4>1, <4>2, Zenon DEF IsClearing, Later
      <3> QED
        BY <3>1, <3>2, Zenon
    <2>5. IsClearing(t)
      BY <2>4, Zenon DEF IsClearing
    <2> QED
      BY <2>5, Zenon DEF t
  \* What was listed is deleted next.
  <1>c. ASSUME NEW c, At(p, c), ClearingNow(p), NEW a \in Seq(Cmd), Go(p, a), UNCHANGED Env,
               Deletions(a),
               \A x \in Range(a) : x[1] = "rule del" => x[2].iface = p,
               \A x \in Range(a) : x[1] = "network destroy" => x[2] \in NetsOf(p),
               p \in dirty \/ Covered(link[p], RulesOf(p), NetsOf(p), Range(a) \cup Range(Tail(run[p].todo)))
        PROVE  Turn(p)
    <2> USE <1>c
    <2> DEFINE r == run'[p]
               u == Tail(run[p].todo)
    <2>1. /\ Types /\ Running(p) /\ run[p].todo # <<>> /\ u \in Seq(Cmd) /\ IsClearing(u)
          /\ Later(u)
          /\ run[p].status = "running"
          /\ (run[p].op = "down" /\ ~ run[p].cleanup /\ ~ run[p].exiting) \/ (run[p].op = "up" /\ run[p].cleanup /\ run[p].exiting)
          /\ \A x \in Range(u) : x[1] = "rule del" => x[2].iface = p
      BY ClearingHas, Zenon DEF Later
    <2>2. /\ run' \in [Ifaces -> Proc] /\ Others(p) /\ Same(run[p], r) /\ r.todo = a \o u
          /\ Range(r.todo) = Range(a) \cup Range(u)
      BY <2>1, GoIs, Zenon
    <2>3. /\ Frame(p) /\ link'[p] = link[p] /\ RulesOf(p)' = RulesOf(p) /\ NetsOf(p)' = NetsOf(p) /\ dirty' = dirty
      BY <2>2, EnvKept, Zenon
    <2>4. p \in dirty \/ Covered(link[p], RulesOf(p), NetsOf(p), Range(a) \cup Range(u))
      BY Zenon
    <2>5. r = run'[p]
      BY Zenon
    <2> HIDE DEF r, u
    <2>6. IsClearing(a \o u)
      BY <2>1, <1>b, Zenon
    <2>7. /\ r.status = "running" /\ IsClearing(r.todo)
          /\ (r.op = "down" /\ ~ r.cleanup /\ ~ r.exiting) \/ (r.op = "up" /\ r.cleanup /\ r.exiting)
      BY <2>1, <2>2, <2>6, Zenon DEF Same
    <2>8. \A x \in Range(a) : x[1] = "rule del" \/ x[1] = "network destroy"
      <3>1. DOMAIN a = 1..Len(a)
        BY <1>a, Zenon
      <3> QED
        BY <3>1, Zenon DEF Range, Deletions
    <2>9. /\ \A x \in Range(r.todo) : x[1] # "link del"
          /\ \A x \in Range(r.todo) : x[1] = "rule del" => x[2].iface = p
          /\ \A x \in Range(r.todo) : x[1] = "network destroy" => x[2] \in NetsOf(p)'
      <3>1. "rule del" # "link del" /\ "network destroy" # "link del"
        BY Zenon
      <3> QED
        BY <2>1, <2>2, <2>3, <2>8, <3>1, Zenon DEF Later
    <2>10. p \in dirty' \/ Covered(link'[p], RulesOf(p)', NetsOf(p)', Range(r.todo))
      BY <2>2, <2>3, <2>4, Zenon
    <2> QED
      BY <2>3, <2>5, <2>7, <2>9, <2>10, ClearingNext, Zenon
  <1>d. ASSUME Plain(p) PROVE Turn(p)
    <2> USE <1>d
    <2>a. ASSUME At(p, "am broadcast"), ClearingNow(p), Done(p), UNCHANGED Env PROVE Turn(p)
      <3> USE <2>a
      <3> DEFINE h == Head(run[p].todo)
                 U == Range(Tail(run[p].todo))
      <3>1. /\ Types /\ Running(p) /\ run[p].todo # <<>> /\ h[1] = "am broadcast"
            /\ p \in dirty \/ Covered(link[p], RulesOf(p), NetsOf(p), {h} \cup U)
        BY ClearingHas, Zenon
      <3>2. /\ run' \in [Ifaces -> Proc] /\ Others(p) /\ Same(run[p], run'[p]) /\ run'[p].todo = Tail(run[p].todo)
        BY <3>1, DoneIs, Zenon
      <3>3. /\ Frame(p) /\ link'[p] = link[p] /\ RulesOf(p)' = RulesOf(p) /\ NetsOf(p)' = NetsOf(p) /\ dirty' = dirty
        BY <3>2, EnvKept, Zenon
      <3> HIDE DEF h, U
      <3>4. /\ <<"link del">> # h /\ <<"ip rule show">> # h
            /\ \A x : <<"save", x>> # h /\ <<"rule del", x>> # h /\ <<"network destroy", x>> # h
        BY <3>1, OtherPending, Zenon
      <3>5. p \in dirty \/ Covered(link[p], RulesOf(p), NetsOf(p), U)
        BY <3>1, <3>4, Zenon DEF Covered
      <3>6. p \in dirty' \/ Covered(link'[p], RulesOf(p)', NetsOf(p)', Range(Tail(run[p].todo)))
        BY <3>3, <3>5, Zenon DEF U
      <3> QED
        BY <3>2, <3>3, <3>6, ClearingDone, Zenon
    <2>1. PICK c \in {"ipv6 enable", "fopen packages.list", "am broadcast"} : At(p, c)
      BY Zenon DEF Plain
    <2>2. Done(p) /\ UNCHANGED Env
      BY Zenon DEF Plain
    <2>3. /\ c \notin {"wg set fwmark", "link up", "addr add"}
          /\ c \notin {"wg show allowed-ips", "route add", "dns", "users add", "exit"}
          /\ c # "am broadcast" => c \in PostNames \ {"am broadcast"}
      BY Zenon DEF PostNames
    <2>4. CASE FillingNow(p)
      BY <2>1, <2>2, <2>3, <2>4, FillingKeptTurn, Zenon
    <2>5. CASE c = "am broadcast" /\ ClearingNow(p)
      BY <2>1, <2>2, <2>5, <2>a, Zenon
    <2> QED
      BY <2>1, <2>3, <2>4, <2>5, StageAt, Zenon
  <1>e. ASSUME DelLink(p) PROVE Turn(p)
    <2> USE <1>e
    <2> DEFINE h == Head(run[p].todo)
               U == Range(Tail(run[p].todo))
    <2>1. At(p, "link del") /\ SetLink(p, NoLink) /\ "link del" \in DelNames \ {"am broadcast"} /\ "link del" \in Words
      BY Zenon DEF DelLink, DelNames, Words
    <2>2. ClearingNow(p)
      BY <2>1, StageAt, Zenon
    <2>3. /\ Types /\ Running(p) /\ run[p].todo # <<>> /\ h \in Cmd /\ h[1] = "link del"
          /\ p \in dirty \/ Covered(link[p], RulesOf(p), NetsOf(p), {h} \cup U)
      BY <2>1, <2>2, ClearingHas, Zenon
    <2>4. NoLink \in LinkType /\ ~ NoLink.exists
      <3>1. <<>> \in Seq(Line)
        OBVIOUS
      <3>2. 0 \in Mtus
        BY NoMtu, Zenon
      <3> QED
        BY <3>1, <3>2 DEF NoLink, LinkType
    <2>5. /\ Frame(p) /\ link'[p] = NoLink /\ RulesOf(p)' = RulesOf(p) /\ NetsOf(p)' = NetsOf(p) /\ dirty' = dirty
          /\ Same(run[p], run'[p]) /\ run'[p].todo = Tail(run[p].todo)
      BY <2>1, <2>3, <2>4, SetLinkIs, Zenon
    <2> HIDE DEF h, U
    <2>6. /\ <<"ip rule show">> # h
          /\ \A x : <<"save", x>> # h /\ <<"rule del", x>> # h /\ <<"network destroy", x>> # h
      BY <2>3, OtherPending, Zenon
    <2>7. p \in dirty \/ Covered(NoLink, RulesOf(p), NetsOf(p), U)
      BY <2>3, <2>4, <2>6, Zenon DEF Covered
    <2>8. p \in dirty' \/ Covered(link'[p], RulesOf(p)', NetsOf(p)', Range(Tail(run[p].todo)))
      BY <2>5, <2>7, Zenon DEF U
    <2> QED
      BY <2>1, <2>2, <2>5, <2>8, ClearingDone, Zenon
  <1>f. ASSUME DelRule(p) PROVE Turn(p)
    <2> USE <1>f
    <2> DEFINE h == Head(run[p].todo)
               U == Range(Tail(run[p].todo))
               x == h[2]
    <2>1. /\ At(p, "rule del") /\ Done(p) /\ UNCHANGED <<link, nets, faults, dirty>> /\ rules' = rules \ {x}
          /\ "rule del" \in DelNames \ {"am broadcast"}
      BY Zenon DEF DelRule, Arg, DelNames
    <2>2. ClearingNow(p)
      BY <2>1, StageAt, Zenon
    <2>3. /\ Types /\ Running(p) /\ run[p].todo # <<>> /\ h \in Cmd /\ h[1] = "rule del" /\ x.iface = p
          /\ p \in dirty \/ Covered(link[p], RulesOf(p), NetsOf(p), {h} \cup U)
      BY <2>1, <2>2, ClearingHas, Zenon
    <2>4. h = <<"rule del", x>> /\ x \in Rule
      BY <2>3, CmdIs, Zenon
    <2>5. rules \in SUBSET Rule
      BY <2>3, Zenon DEF Types
    <2> HIDE DEF h, U, x
    <2>6. rules' \in SUBSET Rule /\ \A r \in Rule : r.iface # p => (r \in rules' <=> r \in rules)
      <3>1. rules' \subseteq rules
        BY <2>1, Zenon
      <3> QED
        BY <2>1, <2>3, <2>5, <3>1, Zenon
    <2>7. /\ Frame(p) /\ link'[p] = link[p] /\ NetsOf(p)' = NetsOf(p) /\ dirty' = dirty
          /\ Same(run[p], run'[p]) /\ run'[p].todo = Tail(run[p].todo)
      BY <2>1, <2>3, <2>6, SetRulesIs, Zenon
    <2>8. RulesOf(p)' = RulesOf(p) \ {x}
      BY <2>1, Zenon DEF RulesOf
    <2>9. /\ <<"link del">> # h /\ <<"ip rule show">> # h
          /\ \A y : <<"save", y>> # h /\ <<"network destroy", y>> # h
      BY <2>3, OtherPending, Zenon
    <2>10. \A y : <<"rule del", y>> = h => y = x
      BY <2>4, Zenon
    <2>11. p \in dirty \/ Covered(link[p], RulesOf(p) \ {x}, NetsOf(p), U)
      BY <2>3, <2>9, <2>10, Zenon DEF Covered
    <2>12. p \in dirty' \/ Covered(link'[p], RulesOf(p)', NetsOf(p)', Range(Tail(run[p].todo)))
      BY <2>7, <2>8, <2>11, Zenon DEF U
    <2> QED
      BY <2>1, <2>2, <2>7, <2>12, ClearingDone, Zenon
  <1>g. ASSUME DestroyNetwork(p) PROVE Turn(p)
    <2> USE <1>g
    <2> DEFINE h == Head(run[p].todo)
               U == Range(Tail(run[p].todo))
               n == h[2]
    <2>1. /\ At(p, "network destroy") /\ SetNet(p, n, NoNet)
          /\ "network destroy" \in DelNames \ {"am broadcast"}
      BY Zenon DEF DestroyNetwork, Arg, DelNames
    <2>2. ClearingNow(p)
      BY <2>1, StageAt, Zenon
    <2>3. /\ Types /\ Running(p) /\ run[p].todo # <<>> /\ h \in Cmd /\ h[1] = "network destroy" /\ n \in NetsOf(p)
          /\ p \in dirty \/ Covered(link[p], RulesOf(p), NetsOf(p), {h} \cup U)
      BY <2>1, <2>2, ClearingHas, Zenon
    <2>4. h = <<"network destroy", n>> /\ n \in Netids
      BY <2>3, CmdIs, Zenon
    <2> HIDE DEF h, U, n
    <2>5. nets[n].exists /\ nets[n].iface = p
      BY <2>3, Zenon DEF NetsOf
    <2>6. NoNet \in NetType /\ ~ NoNet.exists
      BY DEF NoNet, NetType
    <2>7. nets \in [Netids -> NetType] /\ nets' = [nets EXCEPT ![n] = NoNet]
      BY <2>1, <2>3, Zenon DEF Types, SetNet
    <2>8. nets'[n] = NoNet
      BY <2>4, <2>7, Zenon
    <2>9. NetStep(p, n)
      BY <2>5, <2>6, <2>8, Zenon DEF NetStep
    <2>10. /\ Frame(p) /\ link'[p] = link[p] /\ RulesOf(p)' = RulesOf(p) /\ dirty' = dirty
           /\ \A k \in Netids : k # n => nets'[k] = nets[k]
           /\ Same(run[p], run'[p]) /\ run'[p].todo = Tail(run[p].todo)
      BY <2>1, <2>3, <2>4, <2>6, <2>9, SetNetIs, Zenon
    <2>11. NetsOf(p)' = NetsOf(p) \ {n}
      BY <2>6, <2>8, <2>10, Zenon DEF NetsOf
    <2>12. /\ <<"link del">> # h /\ <<"ip rule show">> # h
           /\ \A y : <<"save", y>> # h /\ <<"rule del", y>> # h
      BY <2>3, OtherPending, Zenon
    <2>13. \A y : <<"network destroy", y>> = h => y = n
      BY <2>4, Zenon
    <2>14. p \in dirty \/ Covered(link[p], RulesOf(p), NetsOf(p) \ {n}, U)
      BY <2>3, <2>12, <2>13, Zenon DEF Covered, AtMostOne
    <2>15. p \in dirty' \/ Covered(link'[p], RulesOf(p)', NetsOf(p)', Range(Tail(run[p].todo)))
      BY <2>10, <2>11, <2>14, Zenon DEF U
    <2> QED
      BY <2>1, <2>2, <2>10, <2>15, ClearingDone, Zenon
  <1>h. ASSUME SaveRules(p) PROVE Turn(p)
    <2> USE <1>h
    \* A command for every rule that is listed.
    <2>a. ASSUME NEW mine, mine \subseteq Rule, NEW listed \in Listings(mine)
          PROVE  LET a == [k \in DOMAIN listed |-> <<"rule del", listed[k]>>]
                 IN  /\ a \in Seq(Cmd) /\ Range(a) = {<<"rule del", x>> : x \in mine}
                     /\ \A k \in 1..Len(a) : a[k][1] = "rule del"
      <3> USE <2>a
      <3> DEFINE f(v) == <<"rule del", v>>
      <3>1. \A v \in Rule : f(v) \in Cmd
        BY Zenon DEF Cmd
      <3>2. \A v : f(v)[1] = "rule del"
        OBVIOUS
      <3>3. PICK n \in Nat : listed \in Bijection(1..n, mine)
        <4>1. PICK n \in 0..Cardinality(mine) : listed \in Bijection(1..n, mine)
          BY Zenon DEF Listings
        <4>2. \A c, k : k \in 0..c => k \in Nat
          OBVIOUS
        <4> QED
          BY <4>1, <4>2, Zenon
      <3>4. listed \in [1..n -> mine] /\ \A x \in mine : \E k \in 1..n : listed[k] = x
        BY <3>3, Zenon DEF Bijection, Surjection
      <3>5. DOMAIN listed = 1..n /\ \A k \in 1..n : listed[k] \in mine
        BY <3>4, Zenon
      <3>6. \A k \in 1..n : listed[k] \in Rule
        BY <3>5, Zenon
      <3> HIDE DEF f
      <3> DEFINE a == [k \in 1..n |-> f(listed[k])]
      <3>7. a \in Seq(Cmd) /\ Len(a) = n
        BY <3>1, <3>3, <3>6
      <3>8. DOMAIN a = 1..n /\ \A k \in 1..n : a[k] = f(listed[k])
        OBVIOUS
      <3> HIDE DEF a
      <3>9. Range(a) = {f(x) : x \in mine}
        <4>1. ASSUME NEW y \in Range(a) PROVE y \in {f(x) : x \in mine}
          BY <3>5, <3>8, Zenon DEF Range
        <4>2. ASSUME NEW x \in mine PROVE f(x) \in Range(a)
          BY <3>4, <3>8, Zenon DEF Range
        <4> QED
          BY <4>1, <4>2, Zenon
      <3>10. \A k \in 1..Len(a) : a[k][1] = "rule del"
        BY <3>2, <3>7, <3>8, Zenon
      <3> QED
        BY <3>5, <3>7, <3>9, <3>10, Zenon DEF a, f
    <2> DEFINE h == Head(run[p].todo)
               U == Range(Tail(run[p].todo))
               f == h[2]
               mine == {r \in rules : r.iface = p /\ r.fam = f}
    <2>1. /\ At(p, "save") /\ UNCHANGED Env /\ "save" \in DelNames \ {"am broadcast"}
      BY Zenon DEF SaveRules, DelNames
    <2>2. PICK listed \in Listings(mine) : Go(p, [k \in DOMAIN listed |-> <<"rule del", listed[k]>>])
      BY Zenon DEF SaveRules, Arg
    <2> DEFINE a == [k \in DOMAIN listed |-> <<"rule del", listed[k]>>]
    <2>3. ClearingNow(p)
      BY <2>1, StageAt, Zenon
    <2>4. /\ Types /\ h \in Cmd /\ h[1] = "save"
          /\ p \in dirty \/ Covered(link[p], RulesOf(p), NetsOf(p), {h} \cup U)
      BY <2>1, <2>3, ClearingHas, Zenon
    <2>5. h = <<"save", f>>
      BY <2>4, CmdIs, Zenon
    <2>6. mine \subseteq Rule
      BY <2>4, Zenon DEF Types
    <2>7. /\ \A x \in mine : x.iface = p
          /\ \A x \in RulesOf(p) : x.fam = f => x \in mine
      BY Zenon DEF RulesOf
    <2> HIDE DEF mine, f, h, U
    <2>8. /\ a \in Seq(Cmd) /\ Range(a) = {<<"rule del", x>> : x \in mine}
          /\ \A k \in 1..Len(a) : a[k][1] = "rule del"
      BY <2>6, <2>a, Zenon
    <2>9. Go(p, a)
      BY <2>2, Zenon
    <2> HIDE DEF a
    <2>10. \A x \in Range(a) : x[1] = "rule del" /\ x[2].iface = p
      <3>1. \A x : <<"rule del", x>>[1] = "rule del" /\ <<"rule del", x>>[2] = x
        OBVIOUS
      <3>2. ASSUME NEW x \in Range(a) PROVE x[1] = "rule del" /\ x[2].iface = p
        <4>1. PICK y \in mine : x = <<"rule del", y>>
          BY <2>8, Zenon
        <4> QED
          BY <2>7, <3>1, <4>1, Zenon
      <3> QED
        BY <3>2, Zenon
    <2>11. /\ <<"link del">> # h /\ <<"ip rule show">> # h
           /\ \A x : <<"rule del", x>> # h /\ <<"network destroy", x>> # h
      BY <2>4, OtherPending, Zenon
    <2>12. \A x : <<"save", x>> = h => x = f
      BY <2>5
    <2>13. p \in dirty \/ Covered(link[p], RulesOf(p), NetsOf(p), Range(a) \cup U)
      <3>1. \A x \in mine : <<"rule del", x>> \in Range(a)
        BY <2>8, Zenon
      <3> QED
        BY <2>4, <2>7, <2>11, <2>12, <3>1, Zenon DEF Covered
    <2>14. "rule del" # "network destroy"
      BY Zenon
    <2> QED
      BY <2>1, <2>3, <2>8, <2>9, <2>10, <2>13, <2>14, <1>c, Zenon DEF U, Deletions
  <1>i. ASSUME ShowRules(p) PROVE Turn(p)
    <2> USE <1>i
    <2> DEFINE h == Head(run[p].todo)
               U == Range(Tail(run[p].todo))
               match == {n \in Netids : nets[n].exists /\ nets[n].iface # None /\ rule_regex(p, nets[n].iface)}
    <2>1. /\ At(p, "ip rule show") /\ UNCHANGED Env /\ "ip rule show" \in DelNames \ {"am broadcast"}
          /\ IF match = {} THEN Done(p) ELSE \E n \in match : Go(p, << <<"network destroy", n>> >>)
      BY Zenon DEF ShowRules, DelNames
    <2>2. ClearingNow(p)
      BY <2>1, StageAt, Zenon
    <2>3. /\ Types /\ h \in Cmd /\ h[1] = "ip rule show"
          /\ p \in dirty \/ Covered(link[p], RulesOf(p), NetsOf(p), {h} \cup U)
      BY <2>1, <2>2, ClearingHas, Zenon
    <2>4. match = NetsOf(p)
      <3>1. \A n \in Netids : nets[n].iface \in Ifaces \cup {None}
        <4>1. \A n \in Netids : nets[n] \in NetType
          BY <2>3, Zenon DEF Types
        <4> QED
          BY <4>1 DEF NetType
      <3>2. p # None
        BY WgQuickAndroidAssumption, Zenon
      <3> QED
        BY <3>1, <3>2, RegexIs, Zenon DEF NetsOf
    <2> HIDE DEF match, h, U
    <2>5. /\ <<"link del">> # h
          /\ \A x : <<"save", x>> # h /\ <<"rule del", x>> # h /\ <<"network destroy", x>> # h
      BY <2>3, OtherPending, Zenon
    <2>6. PICK a \in Seq(Cmd) :
          /\ Go(p, a) /\ (\A k \in 1..Len(a) : a[k][1] = "network destroy" /\ k = 1)
          /\ \A x \in Range(a) : x[1] = "network destroy" /\ x[2] \in NetsOf(p)
          /\ p \in dirty \/ Covered(link[p], RulesOf(p), NetsOf(p), Range(a) \cup U)
      <3>1. CASE match = {}
        <4>1. Go(p, <<>>)
          BY <2>1, <3>1, Zenon DEF Done
        <4>2. <<>> \in Seq(Cmd) /\ Range(<<>>) = {} /\ \A k \in 1..Len(<<>>) : FALSE
          BY DEF Range
        <4>3. p \in dirty \/ Covered(link[p], RulesOf(p), NetsOf(p), Range(<<>>) \cup U)
          BY <2>3, <2>4, <2>5, <3>1, <4>2, Zenon DEF Covered
        <4> QED
          BY <4>1, <4>2, <4>3, Zenon
      <3>2. CASE match # {}
        <4>1. PICK n \in NetsOf(p) : Go(p, << <<"network destroy", n>> >>)
          BY <2>1, <2>4, <3>2, Zenon
        <4> DEFINE d == <<"network destroy", n>>
                   a == <<d>>
        <4>2. d \in Cmd /\ d[1] = "network destroy" /\ d[2] = n
          <5>1. n \in Netids
            BY <4>1, Zenon DEF NetsOf
          <5>2. d \in Cmd
            BY <5>1, Zenon DEF Cmd
          <5>3. d[1] = "network destroy" /\ d[2] = n
            OBVIOUS
          <5> QED
            BY <5>2, <5>3, Zenon
        <4>3. Go(p, a)
          BY <4>1, Zenon
        <4>4. <<"network destroy", n>> = d
          BY Zenon
        <4> HIDE DEF d
        <4>5. a \in Seq(Cmd) /\ Range(a) = {d}
          BY <4>2, OneIs, Zenon
        <4>6. \A k \in 1..Len(a) : a[k] = d /\ k = 1
          OBVIOUS
        <4> HIDE DEF a
        <4>7. p \in dirty \/ Covered(link[p], RulesOf(p), NetsOf(p), Range(a) \cup U)
          BY <2>3, <2>5, <4>1, <4>4, <4>5, Zenon DEF Covered, AtMostOne
        <4> QED
          BY <4>1, <4>2, <4>3, <4>5, <4>6, <4>7, Zenon
      <3> QED
        BY <3>1, <3>2, Zenon
    <2>7. "rule del" # "network destroy"
      BY Zenon
    <2> QED
      BY <2>1, <2>2, <2>6, <2>7, <1>c, Zenon DEF U, Deletions
  <1> QED
    BY <1>d, <1>e, <1>f, <1>g, <1>h, <1>i, Zenon

-----------------------------------------------------------------------------
(* Failures *)

\* Nothing to run.
LEMMA EmptyIs == <<>> \in Seq(Cmd) /\ Len(<<>>) <= 1 /\ Range(<<>>) = {}
  BY DEF Range

\* The bound on the failures.
LEMMA FaultIs ==
  ASSUME Inv
  PROVE  faults \in 0..MaxFaults /\ (faults < MaxFaults => faults + 1 \in 0..MaxFaults)
  <1>1. faults \in 0..MaxFaults
    BY Zenon DEF Inv, Types
  <1>2. faults < MaxFaults => faults + 1 \in 0..MaxFaults
    BY <1>1, WgQuickAndroidAssumption
  <1> QED
    BY <1>1, <1>2, Zenon

\* A command of del_if that fails soils the name; no other failure does.
LEMMA FailureIs ==
  ASSUME Inv, NEW p \in Ifaces, Soil(p)
  PROVE  /\ dirty' = dirty \/ dirty' = dirty \cup {p}
         /\ p \in dirty => p \in dirty'
         /\ Deleting(p) /\ ~ Refused(p) => p \in dirty'
  BY Zenon DEF Soil

\* What can be refused to the cleanup: a link that is gone.
LEMMA ClearingRefused ==
  ASSUME Inv, NEW p \in Ifaces, NEW c, At(p, c), ClearingNow(p)
  PROVE  /\ c \in DelNames
         /\ Refused(p) => c = "link del" /\ ~ link[p].exists /\ run[p].op = "up"
         /\ c # "am broadcast" => Deleting(p)
         /\ Listing(p) <=> c \in {"save", "ip rule show"}
         /\ At(p, "network destroy") <=> c = "network destroy"
  <1> DEFINE h == Head(run[p].todo)
  <1>1. /\ Running(p) /\ run[p].todo # <<>> /\ h \in Cmd /\ h[1] = c /\ run[p] \in Proc
        /\ (run[p].op = "down" \/ run[p].op = "up")
        /\ run[p].op = "down" /\ h = <<"link del">> => link[p].exists
        /\ c = "network destroy" => h[2] \in NetsOf(p)
    BY ClearingHas, Zenon
  <1>2. run[p].status = "running"
    BY <1>1, Zenon DEF Running
  <1>3. c \in DelNames
    BY <1>1, <1>2, HeadNames, Zenon DEF ClearingNow
  <1>4. \A x : At(p, x) <=> x = c
    BY <1>1, Zenon DEF At
  <1>5. c \in {"link del", "save", "rule del", "ip rule show", "network destroy", "am broadcast"}
    BY <1>3, Zenon DEF DelNames
  <1>6. c # "am broadcast" => Deleting(p)
    BY <1>4, <1>5, Zenon DEF Deleting
  <1>7. Listing(p) <=> c \in {"save", "ip rule show"}
    BY <1>4, <1>5, Zenon DEF Listing
  <1>8. c = "link del" => h = <<"link del">>
    <2>1. "link del" \in Words
      BY Zenon DEF Words
    <2> QED
      BY <1>1, <2>1, CmdIs, Zenon
  <1>9. c = "network destroy" => nets[Arg(p)].exists
    BY <1>1, Zenon DEF NetsOf, Arg
  <1>10. Refused(p) => c = "link del" /\ ~ link[p].exists
    BY <1>4, <1>5, <1>9, Zenon DEF Refused, Link
  <1> QED
    BY <1>1, <1>3, <1>4, <1>6, <1>7, <1>8, <1>10, Zenon

\* There is nothing left to delete when all that is pending is a broadcast.
LEMMA NothingLeft ==
  ASSUME NEW l, NEW R, NEW S, NEW T, Covered(l, R, S, T), \A x \in T : x[1] = "am broadcast"
  PROVE  ~ l.exists /\ R = {} /\ S = {}
  <1>1. /\ <<"link del">> \notin T /\ <<"ip rule show">> \notin T
        /\ \A x : <<"save", x>> \notin T /\ <<"rule del", x>> \notin T /\ <<"network destroy", x>> \notin T
    BY OtherPending, Zenon
  <1> QED
    BY <1>1, Zenon DEF Covered

\* A listing that is lost.
LEMMA MissedIs ==
  ASSUME Inv, NEW p \in Ifaces, NEW n \in Netids, NEW c, At(p, c), ListNothing(p, n)
  PROVE  LET r == run'[p]
         IN  /\ c \in {"ip link show", "wg show listen-port", "wg show allowed-ips", "save", "ip rule show"}
             /\ run' \in [Ifaces -> Proc] /\ Others(p)
             /\ r.op = run[p].op /\ r.status = run[p].status /\ r.opts = run[p].opts /\ r.exiting = run[p].exiting
             /\ r.missed = TRUE
             /\ r.cleanup = (run[p].cleanup \/ c = "ip link show")
             /\ r.netid = IF c = "wg show listen-port" THEN n ELSE run[p].netid
             /\ c = "ip link show" => r.todo = add_if \o set_config \o determine_listen_port
             /\ c = "wg show listen-port" => r.todo = AfterPort(p, 0)
             /\ c \notin {"ip link show", "wg show listen-port"} => r.todo = Tail(run[p].todo)
  <1>1. Types /\ Running(p) /\ run[p].todo # <<>> /\ Head(run[p].todo)[1] = c /\ run[p] \in Proc
    BY StageAt, Zenon
  <1>2. \A x : At(p, x) <=> x = c
    BY <1>1, Zenon DEF At
  <1>3. c \in {"ip link show", "wg show listen-port", "wg show allowed-ips", "save", "ip rule show"}
    BY <1>2, Zenon DEF ListNothing, Listing
  <1> DEFINE b == run[p].cleanup \/ c = "ip link show"
             g == IF c = "wg show listen-port" THEN n ELSE run[p].netid
             t == CASE At(p, "ip link show") -> add_if \o set_config \o determine_listen_port
                    [] At(p, "wg show listen-port") -> AfterPort(p, 0)
                    [] OTHER -> Tail(run[p].todo)
             f == IF At(p, "wg show listen-port") THEN n ELSE run[p].netid
             d == run[p].cleanup \/ At(p, "ip link show")
  <1>4. /\ c = "ip link show" => t = add_if \o set_config \o determine_listen_port
        /\ c = "wg show listen-port" => t = AfterPort(p, 0)
        /\ c \notin {"ip link show", "wg show listen-port"} => t = Tail(run[p].todo)
    <2>1. "ip link show" # "wg show listen-port"
      BY Zenon
    <2> QED
      BY <1>2, <2>1, Zenon
  <1>5. t \in Seq(Cmd)
    <2>1. Tail(run[p].todo) \in Seq(Cmd)
      BY <1>1, AtIs, Zenon
    <2>2. AfterPort(p, 0) \in Seq(Cmd)
      <3>1. run[p].opts \in Options
        BY <1>1 DEF Proc
      <3>2. 0 \in {0, 1}
        OBVIOUS
      <3> QED
        BY <3>1, <3>2, AfterPortIs, Zenon
    <2> HIDE DEF t
    <2> QED
      BY <1>4, <2>1, <2>2, MakeList, Zenon
  <1>6. g \in Netids \cup {None} /\ g = f
    <2>1. run[p].netid \in Netids \cup {None}
      BY <1>1 DEF Proc
    <2> QED
      BY <1>2, <2>1, Zenon
  <1>7. b \in BOOLEAN /\ b = d
    <2>1. At(p, "ip link show") <=> c = "ip link show"
      BY <1>2, Zenon
    <2> QED
      BY <2>1, Zenon
  <1>8. run' = [run EXCEPT ![p].missed = TRUE, ![p].cleanup = d, ![p].netid = f, ![p].todo = t]
    <2>1. run \in [Ifaces -> Proc] /\ run[p] \in Proc
      BY <1>1, Zenon DEF Types
    <2> QED
      BY <2>1, Zenon DEF ListNothing, Proc
  <1> HIDE DEF b, g, t, f, d
  <1>9. run' = [run EXCEPT ![p].missed = TRUE, ![p].cleanup = b, ![p].netid = g, ![p].todo = t]
    BY <1>6, <1>7, <1>8, Zenon
  <1>10. run \in [Ifaces -> Proc]
    BY <1>1, Zenon DEF Types
  <1>11. run'[p] = [run[p] EXCEPT !.missed = TRUE, !.cleanup = b, !.netid = g, !.todo = t] /\ Others(p)
    BY <1>9, <1>10 DEF Others
  <1>12. /\ run'[p] \in Proc /\ run'[p].op = run[p].op /\ run'[p].status = run[p].status /\ run'[p].opts = run[p].opts
         /\ run'[p].exiting = run[p].exiting /\ run'[p].missed = TRUE /\ run'[p].cleanup = b
         /\ run'[p].netid = g /\ run'[p].todo = t
    BY <1>1, <1>5, <1>6, <1>7, <1>11, Zenon DEF Proc
  <1>13. run' \in [Ifaces -> Proc]
    <2>1. run' = [run EXCEPT ![p] = run'[p]]
      BY <1>9, <1>10, Zenon
    <2> QED
      BY <1>10, <1>12, <2>1
  <1>14. run'[p].cleanup = (run[p].cleanup \/ c = "ip link show")
    BY <1>12, Zenon DEF b
  <1>15. run'[p].netid = IF c = "wg show listen-port" THEN n ELSE run[p].netid
    BY <1>12, Zenon DEF g
  <1> QED
    BY <1>3, <1>4, <1>11, <1>12, <1>13, <1>14, <1>15, Zenon

\* A process that has run everything has set up everything, or has deleted everything.
LEMMA FinishIs ==
  ASSUME Inv, NEW p \in Ifaces, Running(p), run[p].todo = <<>>
  PROVE  /\ FillingNow(p) \/ ClearingNow(p)
         /\ ClearingNow(p) => p \in dirty \/ NoTraces(p)
         /\ p \in dirty \/ Settled(link[p], RulesOf(p), NetsOf(p))
  <1>1. Stage(p) /\ Types /\ run[p].status = "running"
    BY Zenon DEF Inv, Running
  <1>2. run[p].todo \in Seq(Cmd) /\ Range(run[p].todo) = {}
    BY EmptyIs, Zenon
  <1>3. ~ RestingNow(p)
    BY <1>1, FirstIs, Zenon DEF RestingNow, Resting, cmd_up, cmd_down
  <1>4. ~ MakingNow(p)
    BY MakingIs, Zenon DEF MakingNow, Making
  <1>5. ~ MarkingNow(p)
    BY <1>2, MarkingTail, Zenon DEF MarkingNow, Marking
  <1>6. ~ LinkingNow(p)
    BY Zenon DEF LinkingNow, Linking, IsLinking
  <1>7. FillingNow(p) \/ ClearingNow(p)
    BY <1>1, <1>3, <1>4, <1>5, <1>6, Zenon
       DEF Stage, PlacedNow, Placed, RestingNow, MakingNow, MarkingNow, LinkingNow, FillingNow, ClearingNow
  <1>8. FillingNow(p) => p \in dirty \/ Settled(link[p], RulesOf(p), NetsOf(p))
    BY Zenon DEF FillingNow, Filling, Filled, Settled
  <1>9. ClearingNow(p) => p \in dirty \/ (~ link[p].exists /\ RulesOf(p) = {} /\ NetsOf(p) = {})
    <2>1. ClearingNow(p) => p \in dirty \/ Covered(link[p], RulesOf(p), NetsOf(p), {})
      BY <1>2, Zenon DEF ClearingNow, Clearing
    <2>2. \A x \in {} : x[1] = "am broadcast"
      BY Zenon
    <2> QED
      BY <2>1, <2>2, NothingLeft, Zenon
  <1>10. \A S : S = {} => AtMostOne(S)
    BY Zenon DEF AtMostOne
  <1> QED
    BY <1>7, <1>8, <1>9, <1>10, Zenon DEF NoTraces, Settled

\* A command fails, allowed-ips or the port is read from a link that is gone, or the process is done.
LEMMA EndTurns ==
  ASSUME Inv, NEW p \in Ifaces,
         Fail(p) \/ (\E n \in Netids : ListNothing(p, n)) \/ Finish(p)
  PROVE  Turn(p)
  <1>a. ASSUME Fail(p) PROVE Turn(p)
    <2> USE <1>a
    \* A command of `up' or the first command of `down' fails.
    <2>a. ASSUME Running(p), ~ ClearingNow(p), Cleanup(p),
                 UNCHANGED <<link, rules, nets>>, faults' \in 0..MaxFaults, dirty' = dirty \/ dirty' = dirty \cup {p}
          PROVE  Turn(p)
      <3> USE <2>a
      \* cmd_up_cleanup starts.
      <3>a. ASSUME Up(run[p]), run' = [run EXCEPT ![p].exiting = TRUE, ![p].todo = del_if],
                   p \in dirty' \/ AtMostOne(NetsOf(p)),
                   UNCHANGED <<link, rules, nets>>, faults' \in 0..MaxFaults, dirty' = dirty \/ dirty' = dirty \cup {p}
            PROVE  Turn(p)
        <4> USE <3>a
        <4>a. del_if \o <<>> = del_if
          <5> DEFINE x == <<"link del">>
                     y == <<"save", "4">>
                     z == <<"save", "6">>
                     w == <<"ip rule show">>
          <5>1. x \in Cmd /\ y \in Cmd /\ z \in Cmd /\ w \in Cmd
            BY Zenon DEF Cmd, Words, Family
          <5>2. del_if = <<x, y, z, w>>
            BY Zenon DEF del_if
          <5> HIDE DEF x, y, z, w
          <5>3. del_if \in Seq(Cmd)
            BY <5>1, <5>2
          <5> QED
            BY <5>3
        <4>1. Types /\ run \in [Ifaces -> Proc]
          BY Zenon DEF Inv, Types
        <4>2. <<>> \in Seq(Cmd) /\ Len(<<>>) <= 1 /\ Range(<<>>) = {}
          BY EmptyIs, Zenon
        <4>3. Broadcasts(<<>>)
          BY <4>2, Zenon DEF Broadcasts
        <4>4. del_if \o <<>> \in Seq(Cmd)
          BY <4>2, <4>3, DelList, Zenon
        <4>5. del_if \o <<>> = del_if
          BY <4>a, Zenon
        <4> DEFINE t == del_if
        <4>6. t \in Seq(Cmd) /\ run' = [run EXCEPT ![p].exiting = TRUE, ![p].todo = t] /\ t = del_if \o <<>>
          BY <4>4, <4>5, Zenon
        <4> HIDE DEF t
        <4>7. run'[p] = [run[p] EXCEPT !.exiting = TRUE, !.todo = t] /\ Others(p) /\ run[p] \in Proc
          BY <4>1, <4>6 DEF Others
        <4>8. /\ run'[p] \in Proc /\ run'[p].op = run[p].op /\ run'[p].status = run[p].status
              /\ run'[p].exiting /\ run'[p].cleanup = run[p].cleanup /\ run'[p].todo = t
          BY <4>6, <4>7, Zenon DEF Proc
        <4>9. run' \in [Ifaces -> Proc]
          <5>1. run' = [run EXCEPT ![p] = run'[p]]
            BY <4>1, <4>6, Zenon
          <5> QED
            BY <4>1, <4>8, <5>1
        <4>10. Frame(p) /\ link'[p] = link[p] /\ RulesOf(p)' = RulesOf(p) /\ NetsOf(p)' = NetsOf(p)
          BY <4>7, <4>9, KeptIs, Zenon
        <4>11. /\ run'[p].status = "running" /\ run'[p].op = "up" /\ run'[p].cleanup /\ run'[p].exiting
               /\ run'[p].todo = del_if \o <<>>
          BY <4>6, <4>8, Zenon DEF Up
        <4>12. Clearing(p, run'[p], link[p], RulesOf(p), NetsOf(p), dirty')
          BY <4>1, <4>2, <4>3, <4>11, ClearingStarts, Zenon
        <4>13. ClearingNow(p)'
          BY <4>10, <4>12, Zenon DEF ClearingNow
        <4> QED
          BY <4>10, <4>13, ClearingTurn, Zenon
      <3>1. p \in dirty => p \in dirty'
        BY Zenon
      <3>2. CASE RestingNow(p)
        <4>1. ~ run[p].cleanup /\ (p \in dirty \/ Settled(link[p], RulesOf(p), NetsOf(p)))
          BY <3>2, Zenon DEF RestingNow, Resting
        <4>2. Exit(p, "failed")
          BY <4>1, Zenon DEF Cleanup
        <4> QED
          BY <3>1, <4>1, <4>2, ExitTurn, Zenon
      <3>3. CASE Up(run[p]) /\ (p \in dirty \/ AtMostOne(NetsOf(p)))
        <4>1. run' = [run EXCEPT ![p].exiting = TRUE, ![p].todo = del_if]
          BY <3>3, Zenon DEF Cleanup, Up
        <4> QED
          BY <3>1, <3>3, <4>1, <3>a, Zenon
      <3>4. Stage(p)
        BY Zenon DEF Inv
      <3>5. RestingNow(p) \/ MakingNow(p) \/ MarkingNow(p) \/ LinkingNow(p) \/ FillingNow(p)
        BY <3>4, Zenon DEF Stage, PlacedNow, Placed, RestingNow, MakingNow, MarkingNow, LinkingNow, FillingNow, ClearingNow
      <3>6. \A S : S = {} => AtMostOne(S)
        BY Zenon DEF AtMostOne
      <3>7. MakingNow(p) \/ MarkingNow(p) \/ LinkingNow(p) \/ FillingNow(p) => Up(run[p]) /\ (p \in dirty \/ AtMostOne(NetsOf(p)))
        BY <3>6, Zenon DEF MakingNow, MarkingNow, LinkingNow, FillingNow, Making, Marking, Linking, Filling, Settled
      <3> QED
        BY <3>2, <3>3, <3>5, <3>7, Zenon
    \* A command of the cleanup or of `down' fails.
    <2>b. ASSUME NEW c, At(p, c), ClearingNow(p), Soil(p),
                 IF run[p].exiting /\ ~ At(p, "network destroy") /\ ~ Listing(p) THEN Done(p) ELSE Cleanup(p),
                 UNCHANGED <<link, rules, nets>>, faults' \in 0..MaxFaults
          PROVE  Turn(p)
      <3> USE <2>b
      <3> DEFINE h == Head(run[p].todo)
                 U == Range(Tail(run[p].todo))
      <3>1. /\ c \in DelNames
            /\ Refused(p) => c = "link del" /\ ~ link[p].exists /\ run[p].op = "up"
            /\ c # "am broadcast" => Deleting(p)
            /\ Listing(p) <=> c \in {"save", "ip rule show"}
            /\ At(p, "network destroy") <=> c = "network destroy"
        BY ClearingRefused, Zenon
      <3>2. /\ dirty' = dirty \/ dirty' = dirty \cup {p}
            /\ p \in dirty => p \in dirty'
            /\ Deleting(p) /\ ~ Refused(p) => p \in dirty'
        BY FailureIs, Zenon
      <3>3. /\ Types /\ Running(p) /\ run[p].todo # <<>> /\ h \in Cmd /\ h[1] = c
            /\ (c = "am broadcast" => Tail(run[p].todo) = <<>>)
            /\ (run[p].op = "down" /\ ~ run[p].cleanup /\ ~ run[p].exiting) \/ (run[p].op = "up" /\ run[p].cleanup /\ run[p].exiting)
            /\ p \in dirty \/ Covered(link[p], RulesOf(p), NetsOf(p), {h} \cup U)
        BY ClearingHas, Zenon
      <3>4. Range(<<>>) = {}
        BY EmptyIs, Zenon
      <3> HIDE DEF h
      <3>5. CASE Done(p) /\ run[p].exiting /\ c \notin {"save", "ip rule show", "network destroy"}
        <4>1. /\ run' \in [Ifaces -> Proc] /\ Others(p) /\ Same(run[p], run'[p]) /\ run'[p].todo = Tail(run[p].todo)
          BY <3>3, <3>5, DoneIs, Zenon
        <4>2. Frame(p) /\ link'[p] = link[p] /\ RulesOf(p)' = RulesOf(p) /\ NetsOf(p)' = NetsOf(p)
          BY <3>2, <4>1, KeptIs, Zenon
        <4>3. p \in dirty' \/ Covered(link[p], RulesOf(p), NetsOf(p), U)
          <5> HIDE DEF U
          <5>1. CASE c = "link del" /\ ~ link[p].exists
            <6>1. /\ <<"ip rule show">> # h
                  /\ \A x : <<"save", x>> # h /\ <<"rule del", x>> # h /\ <<"network destroy", x>> # h
              BY <3>3, <5>1, OtherPending, Zenon
            <6> QED
              BY <3>2, <3>3, <5>1, <6>1, Zenon DEF Covered
          <5>2. CASE c = "am broadcast"
            <6>1. /\ <<"link del">> # h /\ <<"ip rule show">> # h
                  /\ \A x : <<"save", x>> # h /\ <<"rule del", x>> # h /\ <<"network destroy", x>> # h
              BY <3>3, <5>2, OtherPending, Zenon
            <6> QED
              BY <3>2, <3>3, <6>1, Zenon DEF Covered
          <5> QED
            BY <3>1, <3>2, <5>1, <5>2, Zenon
        <4>4. p \in dirty' \/ Covered(link'[p], RulesOf(p)', NetsOf(p)', Range(Tail(run[p].todo)))
          BY <4>2, <4>3, Zenon
        <4> QED
          BY <4>1, <4>2, <4>4, ClearingDone, Zenon
      <3>6. CASE Cleanup(p)
        <4>1. Exit(p, "failed")
          BY <3>3, <3>6, Zenon DEF Cleanup
        <4>2. CASE p \in dirty'
          BY <3>2, <4>1, <4>2, ExitTurn, Zenon
        <4>3. CASE c = "am broadcast" /\ p \notin dirty
          <5>1. \A x \in {h} \cup U : x[1] = "am broadcast"
            BY <3>3, <3>4, <4>3, Zenon
          <5>2. Covered(link[p], RulesOf(p), NetsOf(p), {h} \cup U)
            BY <3>3, <4>3, Zenon
          <5> HIDE DEF U
          <5>3. ~ link[p].exists /\ RulesOf(p) = {} /\ NetsOf(p) = {}
            BY <5>1, <5>2, NothingLeft, Zenon
          <5>4. Settled(link[p], RulesOf(p), NetsOf(p))
            BY <5>3, Zenon DEF Settled, AtMostOne
          <5> QED
            BY <3>2, <4>1, <5>4, ExitTurn, Zenon
        <4>4. CASE c = "link del" /\ ~ link[p].exists /\ run[p].op = "up"
          <5>1. "link del" \notin {"save", "ip rule show", "network destroy"} /\ "up" # "down"
            BY Zenon
          <5>2. Done(p)
            BY <3>1, <3>3, <4>4, <5>1, Zenon
          <5> QED
            BY <3>3, <3>5, <4>4, <5>1, <5>2, Zenon
        <4> QED
          BY <3>1, <3>2, <4>2, <4>3, <4>4, Zenon
      <3> QED
        BY <3>1, <3>5, <3>6, Zenon
    <2>1. /\ Running(p) /\ run[p].todo # <<>>
          /\ Refused(p) \/ faults < MaxFaults
          /\ faults' = IF Refused(p) THEN faults ELSE faults + 1
          /\ IF run[p].exiting /\ ~ At(p, "network destroy") /\ ~ Listing(p) THEN Done(p) ELSE Cleanup(p)
          /\ Soil(p) /\ UNCHANGED <<link, rules, nets>>
      BY Zenon DEF Fail
    <2>2. faults' \in 0..MaxFaults
      BY <2>1, FaultIs, Zenon
    <2>3. dirty' = dirty \/ dirty' = dirty \cup {p}
      BY <2>1, FailureIs, Zenon
    <2>4. At(p, Head(run[p].todo)[1])
      BY <2>1, Zenon DEF At
    <2>5. CASE ClearingNow(p)
      BY <2>1, <2>2, <2>4, <2>5, <2>b, Zenon
    <2>6. CASE ~ ClearingNow(p)
      <3>1. ~ run[p].exiting
        <4>1. Stage(p)
          BY Zenon DEF Inv
        <4> QED
          BY <2>6, <4>1, Zenon DEF Stage, PlacedNow, LinkingNow, Placed, ClearingNow, Resting, Making, Marking, Linking, Filling, Up
      <3>2. Cleanup(p)
        BY <2>1, <3>1, Zenon
      <3> QED
        BY <2>1, <2>2, <2>3, <2>6, <3>2, <2>a, Zenon
    <2> QED
      BY <2>5, <2>6, Zenon
  <1>b. ASSUME NEW n \in Netids, ListNothing(p, n) PROVE Turn(p)
    <2> USE <1>b
    <2> DEFINE r == run'[p]
    <2>1. PICK c \in {"ip link show", "wg show listen-port", "wg show allowed-ips", "save", "ip rule show"} : At(p, c)
      BY Zenon DEF ListNothing, Listing
    <2>2. faults < MaxFaults /\ faults' = faults + 1 /\ Soil(p) /\ UNCHANGED <<link, rules, nets>>
      BY Zenon DEF ListNothing
    <2>3. /\ run' \in [Ifaces -> Proc] /\ Others(p)
          /\ r.op = run[p].op /\ r.status = run[p].status /\ r.opts = run[p].opts /\ r.exiting = run[p].exiting
          /\ r.missed = TRUE
          /\ r.cleanup = (run[p].cleanup \/ c = "ip link show")
          /\ r.netid = IF c = "wg show listen-port" THEN n ELSE run[p].netid
          /\ c = "ip link show" => r.todo = add_if \o set_config \o determine_listen_port
          /\ c = "wg show listen-port" => r.todo = AfterPort(p, 0)
          /\ c \notin {"ip link show", "wg show listen-port"} => r.todo = Tail(run[p].todo)
      BY <2>1, MissedIs, Zenon
    <2>4. faults' \in 0..MaxFaults
      BY <2>2, FaultIs, Zenon
    <2>5. /\ dirty' = dirty \/ dirty' = dirty \cup {p}
          /\ p \in dirty => p \in dirty'
          /\ Deleting(p) /\ ~ Refused(p) => p \in dirty'
      BY <2>2, FailureIs, Zenon
    <2>6. run[p] \in Proc /\ Running(p) /\ run[p].todo # <<>> /\ Head(run[p].todo)[1] = c
      BY <2>1, StageAt, Zenon
    <2>7. run[p].cleanup \in BOOLEAN
      BY <2>6, Zenon DEF Proc
    <2>8. r.cleanup <=> run[p].cleanup \/ c = "ip link show"
      BY <2>3, Zenon
    <2>9. c # "ip link show" => r.cleanup = run[p].cleanup
      <3>1. c # "ip link show" => r.cleanup = (run[p].cleanup \/ FALSE)
        BY <2>3, Zenon
      <3>2. \A x \in BOOLEAN : (x \/ FALSE) = x
        BY Zenon
      <3> QED
        BY <2>7, <3>1, <3>2, Zenon
    <2> HIDE DEF r
    <2>10. r = run'[p]
      BY Zenon DEF r
    <2>11. CASE c = "ip link show"
      BY <2>1, <2>2, <2>3, <2>4, <2>5, <2>8, <2>10, <2>11, MakeTurn, Zenon
    <2>12. CASE c = "wg show listen-port"
      <3>1. ~ Deleting(p)
        BY <2>6, <2>12, Zenon DEF Deleting, At
      <3>2. dirty' = dirty
        BY <2>2, <3>1, Zenon DEF Soil
      <3>3. 0 \in {0, 1} /\ "wg show listen-port" # "ip link show"
        BY Zenon
      <3>4. /\ run'[p].netid \in Netids /\ run'[p].todo = AfterPort(p, 0) /\ run'[p].op = run[p].op
            /\ run'[p].status = run[p].status /\ run'[p].opts = run[p].opts /\ run'[p].cleanup = run[p].cleanup
            /\ run'[p].exiting = run[p].exiting /\ run'[p].missed
        BY <2>3, <2>9, <2>10, <2>12, <3>3, Zenon
      <3>5. At(p, "wg show listen-port")
        BY <2>1, <2>12, Zenon
      <3> QED
        BY <2>2, <2>3, <2>4, <3>2, <3>3, <3>4, <3>5, PortTurn, Zenon
    <2>13. CASE c = "wg show allowed-ips"
      <3>1. "wg show allowed-ips" # "wg show listen-port" /\ "wg show allowed-ips" # "ip link show"
        BY Zenon
      <3>2. Range(r.todo) = {} \cup Range(Tail(run[p].todo)) /\ r.netid = run[p].netid /\ r.cleanup = run[p].cleanup
        BY <2>3, <2>9, <2>13, <3>1, Zenon
      <3>3. At(p, "wg show allowed-ips") /\ r.missed
        BY <2>1, <2>3, <2>13, Zenon
      <3> QED
        BY <2>2, <2>3, <2>4, <2>5, <2>10, <3>2, <3>3, ListedTurn, Zenon
    <2>14. CASE c \in {"save", "ip rule show"}
      <3> DEFINE u == Tail(run[p].todo)
      <3>1. c \in DelNames \ {"am broadcast"} /\ c # "am broadcast" /\ c # "link del" /\ c \notin {"ip link show", "wg show listen-port"}
        BY <2>14, Zenon DEF DelNames
      <3>2. ClearingNow(p)
        BY <2>1, <3>1, StageAt, Zenon
      <3>3. p \in dirty'
        BY <2>1, <2>5, <3>1, <3>2, ClearingRefused, Zenon
      <3>4. /\ IsClearing(u) /\ (\A x \in Range(u) : x[1] \notin {"link del", "network destroy"})
            /\ run[p].status = "running"
            /\ (run[p].op = "down" /\ ~ run[p].cleanup /\ ~ run[p].exiting) \/ (run[p].op = "up" /\ run[p].cleanup /\ run[p].exiting)
            /\ \A x \in Range(u) : x[1] = "rule del" => x[2].iface = p
        BY <2>1, <3>2, ClearingHas, Zenon
      <3>5. Frame(p)
        BY <2>2, <2>3, <2>4, <2>5, KeptIs, Zenon
      <3>6. /\ r.todo = u /\ r.status = "running"
            /\ (r.op = "down" /\ ~ r.cleanup /\ ~ r.exiting) \/ (r.op = "up" /\ r.cleanup /\ r.exiting)
        BY <2>3, <2>9, <3>1, <3>4, Zenon
      <3>7. /\ IsClearing(r.todo) /\ (\A x \in Range(r.todo) : x[1] # "link del")
            /\ \A x \in Range(r.todo) : x[1] = "rule del" => x[2].iface = p
            /\ \A x \in Range(r.todo) : x[1] = "network destroy" => x[2] \in NetsOf(p)'
        BY <3>4, <3>6, Zenon
      <3> QED
        BY <2>10, <3>3, <3>5, <3>6, <3>7, ClearingNext, Zenon
    <2> QED
      BY <2>11, <2>12, <2>13, <2>14, Zenon
  <1>c. ASSUME Finish(p) PROVE Turn(p)
    <2> USE <1>c
    <2>1. Running(p) /\ run[p].todo = <<>> /\ Exit(p, IF run[p].exiting THEN "failed" ELSE "ok") /\ UNCHANGED Env
      BY Zenon DEF Finish
    <2>2. PICK status \in {"ok", "failed"} : Exit(p, status)
      BY <2>1, Zenon
    <2>3. UNCHANGED <<link, rules, nets>> /\ dirty' = dirty /\ faults' \in 0..MaxFaults
      BY <2>1, Zenon DEF Env, Inv, Types
    <2>4. p \in dirty' \/ Settled(link[p], RulesOf(p), NetsOf(p))
      BY <2>1, <2>3, FinishIs, Zenon
    <2> QED
      BY <2>2, <2>3, <2>4, ExitTurn, Zenon
  <1> QED
    BY <1>a, <1>b, <1>c, Zenon

\* Every step is one of some p, within its frame.
LEMMA NextTurn ==
  ASSUME PrefixFree, Inv, Next
  PROVE  \E p \in Ifaces : Turn(p)
  <1>1. PICK p \in Ifaces :
        \/ \E op \in {"up", "down"}, f \in Files : main(p, op, f)
        \/ ShowLink(p)
        \/ ShowInterfaces(p)
        \/ AddLink(p)
        \/ AddConf(p)
        \/ LinkUp(p)
        \/ LinkDown(p)
        \/ SetMark(p)
        \/ AddAddr(p)
        \/ SetMtu(p)
        \/ \E n \in Netids : ShowPort(p, n)
        \/ AddRule(p)
        \/ CreateNetwork(p)
        \/ AddInterface(p)
        \/ CreateCache(p)
        \/ SetDns(p)
        \/ AddRoute(p)
        \/ AddUsers(p)
        \/ ListAllowedIps(p)
        \/ Plain(p)
        \/ DelLink(p)
        \/ SaveRules(p)
        \/ DelRule(p)
        \/ ShowRules(p)
        \/ DestroyNetwork(p)
        \/ Fail(p)
        \/ \E n \in Netids : ListNothing(p, n)
        \/ Finish(p)
    BY Zenon DEF Next
  <1> QED
    BY <1>1, StartTurns, MakingTurns, MarkingTurns, FillingTurns, ClearingTurns, EndTurns, Zenon

\* Nothing is set up at the start.
LEMMA InitInv == Init => Inv
  <1> SUFFICES ASSUME Init PROVE Inv
    OBVIOUS
  <1>1. <<>> \in Seq(Cmd) /\ <<>> \in Seq(Line) /\ <<>> \in Seq(Value) /\ None \in Lst
    BY DEF Lst
  <1>2. Idle \in Proc
    <2>1. NoOptions \in Options
      BY <1>1 DEF NoOptions, Options
    <2> QED
      BY <1>1, <2>1 DEF Idle, Proc
  <1>3. NoLink \in LinkType /\ ~ NoLink.exists
    <2>1. 0 \in Mtus
      BY NoMtu, Zenon
    <2> QED
      BY <1>1, <2>1 DEF NoLink, LinkType
  <1>4. NoNet \in NetType /\ ~ NoNet.exists
    BY DEF NoNet, NetType
  <1>5. Idle.status = "idle" /\ ~ Idle.cleanup /\ ~ Idle.exiting
    BY DEF Idle
  <1> HIDE DEF Init
  <1>6. /\ link = [i \in Ifaces |-> NoLink] /\ rules = {} /\ nets = [n \in Netids |-> NoNet]
        /\ run = [p \in Ifaces |-> Idle] /\ faults = 0 /\ dirty = {}
    BY Zenon DEF Init
  <1>7. /\ \A p \in Ifaces : link[p] = NoLink /\ run[p] = Idle
        /\ \A n \in Netids : nets[n] = NoNet
    BY <1>6, Zenon
  <1>8. Types
    <2>1. link \in [Ifaces -> LinkType] /\ nets \in [Netids -> NetType] /\ run \in [Ifaces -> Proc]
      BY <1>2, <1>3, <1>4, <1>6
    <2>2. rules \in SUBSET Rule /\ dirty \in SUBSET Ifaces
      BY <1>6, Zenon
    <2>3. faults \in 0..MaxFaults
      BY <1>6, WgQuickAndroidAssumption
    <2> QED
      BY <2>1, <2>2, <2>3, Zenon DEF Types
  <1>9. "idle" # "running"
    BY Zenon
  <1>10. \A p \in Ifaces : ~ Running(p)
    BY <1>5, <1>7, <1>9, Zenon DEF Running
  <1>11. ASSUME NEW p \in Ifaces PROVE Stage(p)
    <2>1. RulesOf(p) = {} /\ NetsOf(p) = {}
      BY <1>4, <1>6, <1>7, Zenon DEF RulesOf, NetsOf
    <2>2. Settled(link[p], RulesOf(p), NetsOf(p))
      BY <2>1, Zenon DEF Settled, AtMostOne
    <2>3. RestingNow(p)
      BY <1>5, <1>7, <1>9, <2>2, Zenon DEF RestingNow, Resting
    <2> QED
      BY <2>3, Zenon DEF Stage, PlacedNow, Placed, RestingNow
  <1> QED
    BY <1>7, <1>8, <1>10, <1>11, Zenon DEF Inv, Apart, At

\* The invariant: whatever a process has run and whatever has failed, what it
\* has set up or deleted and what it has still to run are the whole of what
\* the file asks for, or of what there is to delete.
THEOREM AndroidInvariant == PrefixFree => (Spec => []Inv)
  <1> SUFFICES ASSUME PrefixFree PROVE Spec => []Inv
    BY Zenon
  <1>1. Init => Inv
    BY InitInv, Zenon
  <1>2. Inv /\ [Next]_vars => Inv'
    <2> SUFFICES ASSUME Inv, [Next]_vars PROVE Inv'
      BY Zenon
    <2>1. CASE Next
      <3>1. PICK p \in Ifaces : Turn(p)
        BY <2>1, NextTurn, Zenon
      <3> QED
        BY <3>1, TurnIs, Zenon
    <2>2. CASE UNCHANGED vars
      <3>1. /\ link' = link /\ rules' = rules /\ nets' = nets /\ run' = run /\ faults' = faults /\ dirty' = dirty
        BY <2>2, Zenon DEF vars
      <3> QED
        BY <3>1, Zenon DEF Inv, Types, Apart, At, Running, Stage, PlacedNow, LinkingNow, RulesOf, NetsOf
    <2> QED
      BY <2>1, <2>2, Zenon
  <1> QED
    BY <1>1, <1>2, PTL DEF Spec

\* The types of the variables; only cmd_up runs a cleanup while it exits.
THEOREM AndroidTypes == PrefixFree => (Spec => []TypeOK)
  <1> SUFFICES ASSUME PrefixFree PROVE Spec => []TypeOK
    BY Zenon
  <1>1. Inv => TypeOK
    <2> SUFFICES ASSUME Inv PROVE TypeOK
      BY Zenon
    <2>1. Types /\ (\A i \in Ifaces : link[i].exists \/ link[i] = NoLink) /\ \A p \in Ifaces : Stage(p)
      BY Zenon DEF Inv
    <2>2. \A r \in rules : r.iface \in Ifaces /\ r.fam \in {"4", "6"} /\ r.chain \in {"OUTPUT", "INPUT"} /\ r.drop \in BOOLEAN
      <3>1. \A r \in Rule : r.iface \in Ifaces /\ r.fam \in {"4", "6"} /\ r.chain \in {"OUTPUT", "INPUT"} /\ r.drop \in BOOLEAN
        BY DEF Rule, Family, Chain
      <3> QED
        BY <2>1, <3>1, Zenon DEF Types
    <2>3. \A n \in Netids : nets[n].iface \in Ifaces \cup {None} /\ nets[n].users \subseteq 0..MaxUid
      <3>1. \A m \in NetType : m.iface \in Ifaces \cup {None} /\ m.users \subseteq 0..MaxUid
        BY DEF NetType
      <3>2. \A n \in Netids : nets[n] \in NetType
        BY <2>1, Zenon DEF Types
      <3> QED
        BY <3>1, <3>2, Zenon
    <2>4. \A p \in Ifaces : run[p].exiting => run[p].cleanup /\ run[p].op = "up"
      BY <2>1, Zenon DEF Stage, PlacedNow, LinkingNow, Placed, Resting, Making, Marking, Linking, Filling, Clearing, Up
    <2>5. faults \in 0..MaxFaults /\ dirty \subseteq Ifaces
      BY <2>1, Zenon DEF Types
    <2> QED
      BY <2>1, <2>2, <2>3, <2>4, <2>5, Zenon DEF TypeOK
  <1> QED
    BY <1>1, AndroidInvariant, PTL

\* The link, the rules and the network of an interface change only by a step of
\* the cmd_up or cmd_down that was given its name, whatever number up_if draws.
THEOREM AndroidOthersUntouched == PrefixFree => (Spec => OthersUntouched)
  <1> SUFFICES ASSUME PrefixFree PROVE Spec => OthersUntouched
    BY Zenon
  <1> DEFINE A == \A i \in Ifaces : Traces(i)' # Traces(i) => Running(i) /\ run'[i] # run[i]
  <1>1. Inv /\ [Next]_vars => [A]_vars
    <2> SUFFICES ASSUME Inv, Next PROVE A
      BY Zenon
    <2>1. PICK p \in Ifaces : Turn(p)
      BY NextTurn, Zenon
    <2>2. Types' /\ Private(p) /\ ((Running(p) /\ run'[p] # run[p]) \/ UNCHANGED <<link, rules, nets>>)
      BY <2>1, Zenon DEF Turn, Frame
    <2>3. ASSUME NEW i \in Ifaces, Traces(i)' # Traces(i) PROVE Running(i) /\ run'[i] # run[i]
      <3>1. i = p
        BY <2>2, <2>3, Bystander, Zenon
      <3>2. ~ UNCHANGED <<link, rules, nets>>
        BY <2>3, Zenon DEF Traces, RulesOf, NetsOf
      <3> QED
        BY <2>2, <3>1, <3>2, Zenon
    <2> QED
      BY <2>3, Zenon
  <1>2. Spec => []Inv
    BY AndroidInvariant, Zenon
  <1> QED
    BY <1>1, <1>2, PTL DEF Spec, OthersUntouched

-----------------------------------------------------------------------------
(* How a process ends *)

\* A command that is done, or has listed more, leaves the process running.
LEMMA GoStatus ==
  ASSUME Types, NEW p \in Ifaces, NEW q \in Ifaces, NEW more, Go(q, more)
  PROVE  run'[p].status = run[p].status
  <1>1. run \in [Ifaces -> Proc] /\ run[q] \in Proc
    BY Zenon DEF Types
  <1> DEFINE t == more \o Tail(run[q].todo)
  <1>2. run' = [run EXCEPT ![q].todo = t]
    BY <1>1 DEF Go
  <1> HIDE DEF t
  <1> QED
    BY <1>1, <1>2 DEF Proc

\* A process ends by running out of commands, or by a failure.
LEMMA EndsIs ==
  ASSUME Inv, Next, NEW p \in Ifaces, Running(p), run'[p].status # "running"
  PROVE  Finish(p) \/ Fail(p) \/ ShowLink(p) \/ ShowInterfaces(p)
  <1>1. PICK q \in Ifaces :
        \/ \E op \in {"up", "down"}, f \in Files : main(q, op, f)
        \/ ShowLink(q)
        \/ ShowInterfaces(q)
        \/ AddLink(q)
        \/ AddConf(q)
        \/ LinkUp(q)
        \/ LinkDown(q)
        \/ SetMark(q)
        \/ AddAddr(q)
        \/ SetMtu(q)
        \/ \E n \in Netids : ShowPort(q, n)
        \/ AddRule(q)
        \/ CreateNetwork(q)
        \/ AddInterface(q)
        \/ CreateCache(q)
        \/ SetDns(q)
        \/ AddRoute(q)
        \/ AddUsers(q)
        \/ ListAllowedIps(q)
        \/ Plain(q)
        \/ DelLink(q)
        \/ SaveRules(q)
        \/ DelRule(q)
        \/ ShowRules(q)
        \/ DestroyNetwork(q)
        \/ Fail(q)
        \/ \E n \in Netids : ListNothing(q, n)
        \/ Finish(q)
    BY Zenon DEF Next
  <1>2. Types /\ run \in [Ifaces -> Proc] /\ run[p].status = "running" /\ run'[p].status # run[p].status
    BY Zenon DEF Inv, Types, Running
  <1>3. ~ \E more : Go(q, more)
    BY <1>2, GoStatus, Zenon
  <1>4. ~ Done(q)
    BY <1>3, Zenon DEF Done
  <1>5. (~ \E l : SetLink(q, l)) /\ (~ \E n, m : SetNet(q, n, m))
    BY <1>4, Zenon DEF SetLink, SetNet
  <1>6. ~ \E op \in {"up", "down"}, f \in Files : main(q, op, f)
    <2> SUFFICES ASSUME NEW op \in {"up", "down"}, NEW f \in Files, main(q, op, f) PROVE FALSE
      BY Zenon
    <2>1. q # p
      BY Zenon DEF main
    <2>2. PICK r : run' = [run EXCEPT ![q] = r]
      BY Zenon DEF main
    <2>3. run'[p] = run[p]
      BY <1>2, <2>1, <2>2
    <2> QED
      BY <1>2, <2>3, Zenon
  <1>7. ~ \E n \in Netids : ShowPort(q, n)
    <2> SUFFICES ASSUME NEW n \in Netids, ShowPort(q, n) PROVE FALSE
      BY Zenon
    <2>1. run' = [run EXCEPT ![q].netid = n, ![q].todo = AfterPort(q, 1)]
      BY Zenon DEF ShowPort
    <2> DEFINE t == AfterPort(q, 1)
    <2> HIDE DEF t
    <2>2. run' = [run EXCEPT ![q].netid = n, ![q].todo = t]
      BY <2>1, Zenon DEF t
    <2>3. run[q] \in Proc
      BY <1>2, Zenon
    <2>4. run'[p].status = run[p].status
      BY <1>2, <2>2, <2>3 DEF Proc
    <2> QED
      BY <1>2, <2>4, Zenon
  <1>8. ~ \E n \in Netids : ListNothing(q, n)
    <2> SUFFICES ASSUME NEW n \in Netids, ListNothing(q, n) PROVE FALSE
      BY Zenon
    <2>1. PICK c : At(q, c)
      BY Zenon DEF ListNothing, Listing
    <2>2. Others(q) /\ run'[q].status = run[q].status
      BY <2>1, MissedIs, Zenon
    <2> QED
      BY <1>2, <2>2, Zenon DEF Others
  <1>9. ~ (AddLink(q) \/ AddConf(q) \/ LinkUp(q) \/ LinkDown(q) \/ SetMark(q) \/ AddAddr(q) \/ SetMtu(q) \/ DelLink(q))
    BY <1>5, Zenon DEF AddLink, AddConf, LinkUp, LinkDown, SetMark, AddAddr, SetMtu, DelLink
  <1>10. ~ (CreateNetwork(q) \/ AddInterface(q) \/ SetDns(q) \/ AddRoute(q) \/ AddUsers(q) \/ DestroyNetwork(q))
    BY <1>5, Zenon DEF CreateNetwork, AddInterface, SetDns, AddRoute, AddUsers, DestroyNetwork
  <1>11. ~ (AddRule(q) \/ CreateCache(q) \/ ListAllowedIps(q) \/ Plain(q) \/ SaveRules(q) \/ DelRule(q) \/ ShowRules(q))
    BY <1>3, <1>4, Zenon DEF AddRule, CreateCache, ListAllowedIps, Plain, SaveRules, DelRule, ShowRules
  <1>12. Finish(q) \/ Fail(q) \/ ShowLink(q) \/ ShowInterfaces(q)
    BY <1>1, <1>6, <1>7, <1>8, <1>9, <1>10, <1>11, Zenon
  <1>13. q = p
    <2> SUFFICES ASSUME q # p PROVE FALSE
      BY Zenon
    <2>1. \A status : ~ Exit(q, status)
      <3> SUFFICES ASSUME NEW status, Exit(q, status) PROVE FALSE
        BY Zenon
      <3>1. PICK r : run' = [run EXCEPT ![q] = r]
        BY Zenon DEF Exit
      <3>2. run'[p] = run[p]
        BY <1>2, <3>1
      <3> QED
        BY <1>2, <3>2, Zenon
    <2>2. ~ Finish(q) /\ ~ ShowInterfaces(q)
      BY <1>3, <2>1, Zenon DEF Finish, ShowInterfaces
    <2>3. ~ ShowLink(q)
      <3> DEFINE t == add_if \o set_config \o determine_listen_port
      <3>1. ~ (run' = [run EXCEPT ![q].cleanup = TRUE, ![q].todo = t])
        <4> SUFFICES ASSUME run' = [run EXCEPT ![q].cleanup = TRUE, ![q].todo = t] PROVE FALSE
          BY Zenon
        <4> HIDE DEF t
        <4>1. run'[p] = run[p]
          BY <1>2
        <4> QED
          BY <1>2, <4>1, Zenon
      <3> QED
        BY <2>1, <3>1, Zenon DEF ShowLink
    <2>4. ~ Fail(q)
      <3>1. ~ (run' = [run EXCEPT ![q].exiting = TRUE, ![q].todo = del_if])
        <4> SUFFICES ASSUME run' = [run EXCEPT ![q].exiting = TRUE, ![q].todo = del_if] PROVE FALSE
          BY Zenon
        <4>1. run'[p] = run[p]
          BY <1>2
        <4> QED
          BY <1>2, <4>1, Zenon
      <3> QED
        BY <1>4, <2>1, <3>1, Zenon DEF Fail, Cleanup
    <2> QED
      BY <1>12, <2>2, <2>3, <2>4, Zenon
  <1> QED
    BY <1>12, <1>13, Zenon

\* Which exit is a failure.
LEMMA ExitStatus ==
  ASSUME Types, NEW p \in Ifaces, NEW status \in {"ok", "failed"}, Exit(p, status)
  PROVE  run'[p].status = status
  BY ExitIs, Zenon

\* A success is the end of the list.
LEMMA EndsOk ==
  ASSUME Inv, Next, NEW p \in Ifaces, NEW op, Ends(p, op, "ok")
  PROVE  /\ Running(p) /\ run[p].op = op /\ run[p].todo = <<>>
         /\ ~ run[p].exiting /\ UNCHANGED Env
  <1>1. Running(p) /\ run[p].op = op /\ run'[p].status = "ok" /\ Types
    BY Zenon DEF Ends, Inv
  <1>2. "ok" # "running" /\ "ok" # "failed" /\ "failed" \in {"ok", "failed"}
    BY Zenon
  <1>3. Finish(p) \/ Fail(p) \/ ShowLink(p) \/ ShowInterfaces(p)
    BY <1>1, <1>2, EndsIs, Zenon
  <1>4. ~ Exit(p, "failed")
    BY <1>1, <1>2, ExitStatus, Zenon
  <1>5. run \in [Ifaces -> Proc] /\ run[p] \in Proc /\ run[p].status = "running"
    BY <1>1, Zenon DEF Types, Running
  <1>6. ~ \E more : Go(p, more)
    BY <1>1, <1>2, <1>5, GoStatus, Zenon
  <1>7. ~ ShowLink(p)
    <2> DEFINE t == add_if \o set_config \o determine_listen_port
    <2>1. ~ (run' = [run EXCEPT ![p].cleanup = TRUE, ![p].todo = t])
      <3> SUFFICES ASSUME run' = [run EXCEPT ![p].cleanup = TRUE, ![p].todo = t] PROVE FALSE
        BY Zenon
      <3> HIDE DEF t
      <3>1. run'[p].status = run[p].status
        BY <1>5 DEF Proc
      <3> QED
        BY <1>1, <1>2, <1>5, <3>1, Zenon
    <2> QED
      BY <1>4, <2>1, Zenon DEF ShowLink
  <1>8. ~ ShowInterfaces(p)
    BY <1>4, <1>6, Zenon DEF ShowInterfaces
  <1>9. ~ Fail(p)
    <2>1. ~ (run' = [run EXCEPT ![p].exiting = TRUE, ![p].todo = del_if])
      <3> SUFFICES ASSUME run' = [run EXCEPT ![p].exiting = TRUE, ![p].todo = del_if] PROVE FALSE
        BY Zenon
      <3>1. run'[p].status = run[p].status
        BY <1>5 DEF Proc
      <3> QED
        BY <1>1, <1>2, <1>5, <3>1, Zenon
    <2> QED
      BY <1>4, <1>6, <2>1, Zenon DEF Fail, Cleanup, Done
  <1> QED
    BY <1>1, <1>3, <1>4, <1>7, <1>8, <1>9, Zenon DEF Finish

\* The list of a successful `up' was that of a process that sets up.
LEMMA UpOk ==
  ASSUME Inv, Next, NEW p \in Ifaces, Ends(p, "up", "ok")
  PROVE  LET o == run[p].opts
             net == nets[run[p].netid]
         IN  /\ run[p] \in Proc /\ link[p] \in LinkType /\ net \in NetType /\ link[p].exists
             /\ net.exists /\ net.iface = p
             /\ LinkFilled(o, link[p], {}) /\ RulesFilled(run[p].missed, RulesOf(p), {})
             /\ NetFilled(o, run[p].missed, net, {})
  <1>1. Running(p) /\ run[p].op = "up" /\ run[p].todo = <<>> /\ ~ run[p].exiting
    BY EndsOk, Zenon
  <1>2. FillingNow(p) \/ ClearingNow(p)
    BY <1>1, FinishIs, Zenon
  <1>3. "up" # "down"
    BY Zenon
  <1>4. FillingNow(p)
    BY <1>1, <1>2, <1>3, Zenon DEF ClearingNow, Clearing
  <1>5. Range(run[p].todo) = {}
    BY <1>1, EmptyIs, Zenon
  <1>6. run[p] \in Proc /\ link[p] \in LinkType /\ nets \in [Netids -> NetType]
    BY Zenon DEF Inv, Types
  <1>7. run[p].netid \in Netids
    BY <1>4, Zenon DEF FillingNow, Filling, Filled
  <1> QED
    BY <1>4, <1>5, <1>6, <1>7, Zenon DEF FillingNow, Filling, Filled

\* A cmd_up that exits with success has set up everything the file asks for:
\* up_if, add_addr, set_dnses and set_routes have all been run to their end.
\* (It is not so when a listing was lost, which cmd_up reads as an empty one.)
THEOREM AndroidUpComplete == PrefixFree => (Spec => UpComplete)
  \* The values of a list.
  <1>a. ASSUME NEW s \in Seq(Value) PROVE Range(s) \subseteq Value
    BY DEF Range
  <1> SUFFICES ASSUME PrefixFree PROVE Spec => UpComplete
    BY Zenon
  <1> DEFINE Done1(p) ==
               LET o == run[p].opts
                   n == run[p].netid
               IN  /\ link[p].exists /\ link[p].up /\ link[p].mark
                   /\ link[p].config = o.config
                   /\ link[p].addrs = Range(o.addrs)
                   /\ nets[n].exists /\ nets[n].iface = p
                   /\ nets[n].routes = Range(Values(o.config, "AllowedIPs"))
                   /\ nets[n].dns = IF Range(o.dnses) \subseteq {"host"} THEN {} ELSE Range(o.dnses)
                   /\ {<<r.fam, r.chain>> : r \in RulesOf(p)} = {"4", "6"} \X {"OUTPUT", "INPUT"}
             A == \A p \in Ifaces : Ends(p, "up", "ok") /\ ~ run[p].missed => Done1(p)
  <1>1. Inv /\ [Next]_vars => [A]_vars
    <2> SUFFICES ASSUME Inv, Next, NEW p \in Ifaces, Ends(p, "up", "ok"), ~ run[p].missed PROVE Done1(p)
      BY Zenon
    <2> DEFINE o == run[p].opts
               net == nets[run[p].netid]
               l == link[p]
    <2>1. /\ run[p] \in Proc /\ l \in LinkType /\ net \in NetType /\ l.exists
          /\ net.exists /\ net.iface = p
          /\ LinkFilled(o, l, {}) /\ RulesFilled(run[p].missed, RulesOf(p), {})
          /\ NetFilled(o, run[p].missed, net, {})
      BY UpOk, Zenon
    <2>2. o.config \in Seq(Line) /\ o.addrs \in Seq(Value)
      BY <2>1 DEF Proc, Options
    <2>3. l.addrs \subseteq Value /\ net.routes \subseteq Value
      BY <2>1 DEF LinkType, NetType
    <2>4. RulesOf(p) \subseteq Rule
      BY Zenon DEF Inv, Types, RulesOf
    <2> HIDE DEF o, net, l
    <2>5. Range(o.addrs) \subseteq Value
      BY <2>2, <1>a
    <2>6. Allowed(o) \subseteq Value
      <3>1. Values(o.config, "AllowedIPs") \in Seq(Value)
        BY <2>2, ValuesTyped
      <3> QED
        BY <3>1, <1>a DEF Allowed
    <2>7. l.config = o.config /\ l.mark /\ l.up /\ l.addrs = Range(o.addrs)
      <3>1. l.config = o.config /\ l.mark /\ l.up /\ \A a \in Value : a \in Range(o.addrs) <=> a \in l.addrs
        BY <2>1, Zenon DEF LinkFilled
      <3> QED
        BY <2>3, <2>5, <3>1, Zenon
    <2>8. net.routes = Allowed(o) /\ net.dns = Servers(o)
      <3>1. /\ \A v \in Value : v \in net.routes => v \in Allowed(o)
            /\ \A v \in Allowed(o) : v \in net.routes
            /\ net.dns = Servers(o)
        BY <2>1, Zenon DEF NetFilled, RoutesFilled, DnsFilled
      <3> QED
        BY <2>3, <2>6, <3>1, Zenon
    <2>9. {<<r.fam, r.chain>> : r \in RulesOf(p)} = {"4", "6"} \X {"OUTPUT", "INPUT"}
      <3> DEFINE R == RulesOf(p)
      <3>1. \A f \in Family : \A d \in Chain : \E r \in R : r.fam = f /\ r.chain = d
        BY <2>1, Zenon DEF RulesFilled
      <3>2. \A r \in R : r.fam \in Family /\ r.chain \in Chain
        <4>1. \A r \in Rule : r.fam \in Family /\ r.chain \in Chain
          BY DEF Rule
        <4> QED
          BY <2>4, <4>1, Zenon
      <3> HIDE DEF R
      <3>3. {<<r.fam, r.chain>> : r \in R} = Family \X Chain
        BY <3>1, <3>2
      <3> QED
        BY <3>3, Zenon DEF R, Family, Chain
    <2> QED
      BY <2>1, <2>7, <2>8, <2>9, Zenon DEF o, net, l, Allowed, Servers
  <1>2. Spec => []Inv
    BY AndroidInvariant, Zenon
  <1> QED
    BY <1>1, <1>2, PTL DEF Spec, UpComplete

\* set_users has given netd exactly the uids of the file's applications when
\* cmd_up succeeds, however many ranges and batches of them there are.
THEOREM AndroidUsersExact == PrefixFree => (Spec => UsersExact)
  <1> SUFFICES ASSUME PrefixFree PROVE Spec => UsersExact
    BY Zenon
  <1> DEFINE A == \A p \in Ifaces : Ends(p, "up", "ok") =>
                    LET o    == run[p].opts
                        Of(l) == {Packages[a] : a \in Range(l) \cap DOMAIN Packages}
                        out  == IF o.excluded = None THEN {} ELSE Of(o.excluded)
                    IN  nets[run[p].netid].users =
                           IF o.included # None THEN Of(o.included)
                           ELSE (0..MaxUid) \ (out \cup (IF MaxUid - 1 \in out THEN {MaxUid} ELSE {}))
  <1>1. Inv /\ [Next]_vars => [A]_vars
    <2> SUFFICES ASSUME Inv, Next PROVE A
      BY Zenon
    <2>1. ASSUME NEW p \in Ifaces, Ends(p, "up", "ok") PROVE nets[run[p].netid].users = Routed(run[p].opts)
      <3> DEFINE o == run[p].opts
                 net == nets[run[p].netid]
      <3>1. net \in NetType /\ NetFilled(o, run[p].missed, net, {})
        BY <2>1, UpOk, Zenon
      <3>2. net.users \subseteq 0..MaxUid
        BY <3>1 DEF NetType
      <3>3. Routed(o) \subseteq 0..MaxUid
        <4>1. \A list : UidsOf(list) \subseteq 1..MaxUid
          BY WgQuickAndroidAssumption, Zenon DEF UidsOf
        <4>2. 1..MaxUid \subseteq 0..MaxUid
          BY WgQuickAndroidAssumption
        <4> QED
          BY <4>1, <4>2, Zenon DEF Routed
      <3> HIDE DEF o, net
      <3>4. \A u \in 0..MaxUid : u \in Routed(o) <=> u \in net.users
        BY <3>1, Zenon DEF NetFilled, UsersFilled, Added
      <3>5. net.users = Routed(o)
        BY <3>2, <3>3, <3>4, Zenon
      <3> QED
        BY <3>5, Zenon DEF net, o
    <2> QED
      BY <2>1, Zenon DEF Routed, UidsOut, UidsOf
  <1>2. Spec => []Inv
    BY AndroidInvariant, Zenon
  <1> QED
    BY <1>1, <1>2, PTL DEF Spec, UsersExact

\* A cmd_down that succeeds has deleted the link, the rules and the network of
\* the interface, however far earlier processes had come, unless a deletion, or
\* a listing of what del_if is to delete, has failed for that name.
THEOREM AndroidDownComplete == PrefixFree => (Spec => DownComplete)
  <1> SUFFICES ASSUME PrefixFree PROVE Spec => DownComplete
    BY Zenon
  <1> DEFINE A == \A p \in Ifaces : Ends(p, "down", "ok") /\ p \notin dirty => NoTraces(p)
  <1>1. Inv /\ [Next]_vars => [A]_vars
    <2> SUFFICES ASSUME Inv, Next, NEW p \in Ifaces, Ends(p, "down", "ok"), p \notin dirty PROVE NoTraces(p)
      BY Zenon
    <2>1. Running(p) /\ run[p].op = "down" /\ run[p].todo = <<>>
      BY EndsOk, Zenon
    <2>2. ~ FillingNow(p)
      <3>1. "up" # "down"
        BY Zenon
      <3> QED
        BY <2>1, <3>1, Zenon DEF FillingNow, Filling, Up
    <2> QED
      BY <2>1, <2>2, FinishIs, Zenon
  <1>2. Spec => []Inv
    BY AndroidInvariant, Zenon
  <1> QED
    BY <1>1, <1>2, PTL DEF Spec, DownComplete

\* A cmd_up that fails, at whichever command, leaves no link, no rule and no
\* network of the interface: cmd_up_cleanup runs del_if to its end.  Here too no
\* deletion, and no listing of what to delete, has failed.
THEOREM AndroidFailureClean == PrefixFree => (Spec => FailureClean)
  <1> SUFFICES ASSUME PrefixFree PROVE Spec => FailureClean
    BY Zenon
  <1> DEFINE A == \A p \in Ifaces : Ends(p, "up", "failed") /\ run[p].cleanup /\ p \notin dirty' => NoTraces(p)'
  <1>1. Inv /\ [Next]_vars => [A]_vars
    <2> SUFFICES ASSUME Inv, Next, NEW p \in Ifaces, Ends(p, "up", "failed"), run[p].cleanup, p \notin dirty' PROVE NoTraces(p)'
      BY Zenon
    <2>1. Running(p) /\ run[p].op = "up" /\ run'[p].status = "failed" /\ Types
      BY Zenon DEF Ends, Inv
    <2>2. "failed" # "running" /\ "ok" # "failed" /\ "ok" \in {"ok", "failed"} /\ "up" # "down"
      BY Zenon
    <2>3. Finish(p) \/ Fail(p) \/ ShowLink(p) \/ ShowInterfaces(p)
      BY <2>1, <2>2, EndsIs, Zenon
    <2>4. ~ ShowLink(p) /\ ~ ShowInterfaces(p)
      BY RestingIs, Zenon DEF ShowLink, ShowInterfaces
    <2>5. CASE Finish(p)
      <3>1. run[p].todo = <<>> /\ Exit(p, IF run[p].exiting THEN "failed" ELSE "ok") /\ UNCHANGED Env
        BY <2>5, Zenon DEF Finish
      <3>2. run[p].exiting
        BY <2>1, <2>2, <3>1, ExitStatus, Zenon
      <3>3. ~ FillingNow(p)
        BY <3>2, Zenon DEF FillingNow, Filling, Up
      <3>4. link' = link /\ rules' = rules /\ nets' = nets /\ dirty' = dirty
        BY <3>1, Zenon DEF Env
      <3>5. NoTraces(p)
        BY <2>1, <3>1, <3>3, <3>4, FinishIs, Zenon
      <3> QED
        BY <3>4, <3>5, Zenon DEF NoTraces, RulesOf, NetsOf
    <2>6. ~ Fail(p)
      <3> SUFFICES ASSUME Fail(p) PROVE FALSE
        BY Zenon
      <3>1. /\ run[p].todo # <<>> /\ Soil(p)
            /\ IF run[p].exiting /\ ~ At(p, "network destroy") /\ ~ Listing(p) THEN Done(p) ELSE Cleanup(p)
        BY Zenon DEF Fail
      <3>2. run \in [Ifaces -> Proc] /\ run[p] \in Proc /\ run[p].status = "running"
        BY <2>1, Zenon DEF Types, Running
      <3>3. ~ Done(p)
        BY <2>1, <2>2, <3>2, GoStatus, Zenon DEF Done
      <3>4. ~ (run' = [run EXCEPT ![p].exiting = TRUE, ![p].todo = del_if])
        <4> SUFFICES ASSUME run' = [run EXCEPT ![p].exiting = TRUE, ![p].todo = del_if] PROVE FALSE
          BY Zenon
        <4>1. run'[p].status = run[p].status
          BY <3>2 DEF Proc
        <4> QED
          BY <2>1, <2>2, <3>2, <4>1, Zenon
      <3>5. run[p].exiting /\ (At(p, "network destroy") \/ Listing(p))
        BY <3>1, <3>3, <3>4, Zenon DEF Cleanup
      <3>6. ClearingNow(p)
        <4>1. Stage(p)
          BY Zenon DEF Inv
        <4> QED
          BY <3>5, <4>1, Zenon
             DEF Stage, PlacedNow, LinkingNow, Placed, ClearingNow, Resting, Making, Marking, Linking, Filling, Up
      <3>7. PICK c : At(p, c) /\ c = Head(run[p].todo)[1]
        BY <2>1, <3>1, Zenon DEF At
      <3>8. c \in {"network destroy", "save", "ip rule show"}
        BY <3>5, <3>6, <3>7, ClearingRefused, Zenon
      <3>9. Deleting(p) /\ ~ Refused(p)
        <4>1. c # "link del" /\ c # "am broadcast"
          BY <3>8, Zenon
        <4> QED
          BY <3>6, <3>7, <4>1, ClearingRefused, Zenon
      <3> QED
        BY <3>1, <3>9, FailureIs, Zenon
    <2> QED
      BY <2>3, <2>4, <2>5, <2>6, Zenon
  <1>2. Spec => []Inv
    BY AndroidInvariant, Zenon
  <1> QED
    BY <1>1, <1>2, PTL DEF Spec, FailureClean

=============================================================================
