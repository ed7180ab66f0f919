------------------------ MODULE WgQuickAndroidInvariant ------------------------
(***************************************************************************)
(* The inductive invariant of wg-quick for Android: what a process has     *)
(* done and what it has still to run are always the whole of what the file *)
(* asks for, or of what there is to delete.  With it, the lists of         *)
(* commands that the functions make, and what a step of one process leaves *)
(* of the others.                                                          *)
(***************************************************************************)
EXTENDS WgQuickAndroid, ListFacts

\* No name of an interface begins another one.  The expression with which
\* del_if looks for the network ends in the name, without an anchor, so that
\* `ip rule' gives the `down' of wg1 also the network of wg10.
PrefixFree == \A i, k \in Ifaces : rule_regex(i, k) => i = k

-----------------------------------------------------------------------------
(* Types *)

Line == UNION {Range(f) : f \in Files}
Value == UNION {Range(l.val) : l \in Line}
Lst == {None} \cup Seq(Value)
Options == [in : BOOLEAN, config : Seq(Line), addrs : Seq(Value), dnses : Seq(Value),
            excluded : Lst, included : Lst, mtu : {0} \cup Value]

Family == {"4", "6"}
Chain == {"OUTPUT", "INPUT"}
Rule == [iface : Ifaces, fam : Family, chain : Chain, drop : BOOLEAN]
Mtus == {0} \cup {set_mtu(c, m) : c \in Seq(Line), m \in {0} \cup Value}
LinkType == [exists : BOOLEAN, up : BOOLEAN, mark : BOOLEAN, config : Seq(Line), addrs : SUBSET Value, mtu : Mtus]
NetType == [exists : BOOLEAN, iface : Ifaces \cup {None}, dns : SUBSET Value, routes : SUBSET Value,
            users : SUBSET (0..MaxUid)]

Words == {"ip link show", "link add", "wg addconf", "link up", "wg show listen-port", "link down", "wg set fwmark",
          "network create", "network interface add", "ipv6 enable", "createNetworkCache", "wg show allowed-ips",
          "setmtu", "fopen packages.list", "exit", "am broadcast", "wg show interfaces", "link del", "ip rule show"}

\* Everything a process can have to run.
RuleCmds == {<<"rule", f, c>> : f \in Family, c \in Chain}
DnsCmds == {<<"dns", s, d>> : s \in SUBSET Value, d \in SUBSET Value}
Cmd ==
    {<<w>> : w \in Words} \cup RuleCmds \cup {<<"save", f>> : f \in Family}
        \cup {<<"addr add", v>> : v \in Value} \cup {<<"route add", v>> : v \in Value} \cup DnsCmds
        \cup {<<"users add", u>> : u \in SUBSET (0..MaxUid)}
        \cup {<<"rule del", r>> : r \in Rule} \cup {<<"network destroy", n>> : n \in Netids}

Proc == [op : {"up", "down"}, status : {"idle", "running", "ok", "failed"}, opts : Options, todo : Seq(Cmd),
         netid : Netids \cup {None}, cleanup : BOOLEAN, exiting : BOOLEAN, missed : BOOLEAN]

Types ==
    /\ link \in [Ifaces -> LinkType]
    /\ rules \in SUBSET Rule
    /\ nets \in [Netids -> NetType]
    /\ run \in [Ifaces -> Proc]
    /\ faults \in 0..MaxFaults
    /\ dirty \in SUBSET Ifaces

-----------------------------------------------------------------------------
(* Lists of commands *)

\* A command is told by its name.
LEMMA CmdIs ==
  ASSUME NEW c \in Cmd
  PROVE  /\ c[1] \in Words => c = <<c[1]>>
         /\ c[1] = "rule" => c[2] \in Family /\ c[3] \in Chain /\ c = <<"rule", c[2], c[3]>>
         /\ c[1] = "save" => c[2] \in Family /\ c = <<"save", c[2]>>
         /\ c[1] = "addr add" => c[2] \in Value /\ c = <<"addr add", c[2]>>
         /\ c[1] = "route add" => c[2] \in Value /\ c = <<"route add", c[2]>>
         /\ c[1] = "dns" => c[2] \in SUBSET Value /\ c[3] \in SUBSET Value /\ c = <<"dns", c[2], c[3]>>
         /\ c[1] = "users add" => c[2] \in SUBSET (0..MaxUid) /\ c = <<"users add", c[2]>>
         /\ c[1] = "rule del" => c[2] \in Rule /\ c = <<"rule del", c[2]>>
         /\ c[1] = "network destroy" => c[2] \in Netids /\ c = <<"network destroy", c[2]>>
  <1>1. CASE \E w \in Words : c = <<w>>
    <2>1. PICK w \in Words : c = <<w>>
      BY <1>1, Zenon
    <2>2. c[1] = w
      BY <2>1
    <2> QED
      BY <2>1, <2>2, Zenon DEF Words
  <1>2. CASE \E f \in Family, d \in Chain : c = <<"rule", f, d>>
    <2>1. PICK f \in Family, d \in Chain : c = <<"rule", f, d>>
      BY <1>2, Zenon
    <2>2. c[1] = "rule" /\ c[2] = f /\ c[3] = d
      BY <2>1
    <2> QED
      BY <2>1, <2>2, Zenon DEF Words
  <1>3. CASE \E f \in Family : c = <<"save", f>>
    <2>1. PICK f \in Family : c = <<"save", f>>
      BY <1>3, Zenon
    <2>2. c[1] = "save" /\ c[2] = f
      BY <2>1
    <2> QED
      BY <2>1, <2>2, Zenon DEF Words
  <1>4. CASE \E v \in Value : c = <<"addr add", v>>
    <2>1. PICK v \in Value : c = <<"addr add", v>>
      BY <1>4, Zenon
    <2>2. c[1] = "addr add" /\ c[2] = v
      BY <2>1, Zenon
    <2> QED
      BY <2>1, <2>2, Zenon DEF Words
  <1>5. CASE \E v \in Value : c = <<"route add", v>>
    <2>1. PICK v \in Value : c = <<"route add", v>>
      BY <1>5, Zenon
    <2>2. c[1] = "route add" /\ c[2] = v
      BY <2>1, Zenon
    <2> QED
      BY <2>1, <2>2, Zenon DEF Words
  <1>6. CASE \E s \in SUBSET Value, d \in SUBSET Value : c = <<"dns", s, d>>
    <2>1. PICK s \in SUBSET Value, d \in SUBSET Value : c = <<"dns", s, d>>
      BY <1>6, Zenon
    <2>2. c[1] = "dns" /\ c[2] = s /\ c[3] = d
      BY <2>1
    <2> QED
      BY <2>1, <2>2, Zenon DEF Words
  <1>7. CASE \E u \in SUBSET (0..MaxUid) : c = <<"users add", u>>
    <2>1. PICK u \in SUBSET (0..MaxUid) : c = <<"users add", u>>
      BY <1>7, Zenon
    <2>2. c[1] = "users add" /\ c[2] = u
      BY <2>1, Zenon
    <2> QED
      BY <2>1, <2>2, Zenon DEF Words
  <1>8. CASE \E r \in Rule : c = <<"rule del", r>>
    <2>1. PICK r \in Rule : c = <<"rule del", r>>
      BY <1>8, Zenon
    <2>2. c[1] = "rule del" /\ c[2] = r
      BY <2>1, Zenon
    <2> QED
      BY <2>1, <2>2, Zenon DEF Words
  <1>9. CASE \E n \in Netids : c = <<"network destroy", n>>
    <2>1. PICK n \in Netids : c = <<"network destroy", n>>
      BY <1>9, Zenon
    <2>2. c[1] = "network destroy" /\ c[2] = n
      BY <2>1, Zenon
    <2> QED
      BY <2>1, <2>2, Zenon DEF Words
  <1>10. \/ \E w \in Words : c = <<w>>
         \/ \E f \in Family, d \in Chain : c = <<"rule", f, d>>
         \/ \E f \in Family : c = <<"save", f>>
         \/ \E v \in Value : c = <<"addr add", v>>
         \/ \E v \in Value : c = <<"route add", v>>
         \/ \E s \in SUBSET Value, d \in SUBSET Value : c = <<"dns", s, d>>
         \/ \E u \in SUBSET (0..MaxUid) : c = <<"users add", u>>
         \/ \E r \in Rule : c = <<"rule del", r>>
         \/ \E n \in Netids : c = <<"network destroy", n>>
    <2>1. c \in RuleCmds => \E f \in Family, d \in Chain : c = <<"rule", f, d>>
      BY DEF RuleCmds
    <2>2. c \in DnsCmds => \E s \in SUBSET Value, d \in SUBSET Value : c = <<"dns", s, d>>
      BY DEF DnsCmds
    <2> QED
      BY <2>1, <2>2, Zenon DEF Cmd
  <1> QED
    BY <1>1, <1>2, <1>3, <1>4, <1>5, <1>6, <1>7, <1>8, <1>9, <1>10, Zenon

\* What is pending is the first command and what is pending after it.
LEMMA TailIs ==
  ASSUME NEW S, NEW t \in Seq(S), t # <<>>
  PROVE  /\ Head(t) \in S /\ Head(t) = t[1] /\ Tail(t) \in Seq(S) /\ <<>> \o Tail(t) = Tail(t)
         /\ Len(t) \in Nat \ {0} /\ Len(Tail(t)) = Len(t) - 1 /\ \A k \in 1..(Len(t) - 1) : Tail(t)[k] = t[k + 1]
         /\ Range(t) = {Head(t)} \cup Range(Tail(t)) /\ Range(t) \subseteq S
         /\ Tail(t) # t
  <1>1. /\ Head(t) \in S /\ Head(t) = t[1] /\ Tail(t) \in Seq(S) /\ <<>> \o Tail(t) = Tail(t)
        /\ Len(t) \in Nat \ {0} /\ Len(Tail(t)) = Len(t) - 1 /\ \A k \in 1..(Len(t) - 1) : Tail(t)[k] = t[k + 1]
    OBVIOUS
  <1>2. Range(t) = {t[k] : k \in 1..Len(t)} /\ Range(Tail(t)) = {Tail(t)[k] : k \in 1..(Len(t) - 1)}
    <2>1. DOMAIN t = 1..Len(t) /\ DOMAIN Tail(t) = 1..(Len(t) - 1)
      BY <1>1
    <2> QED
      BY <2>1, Zenon DEF Range
  <1>3. \A k \in 1..Len(t) : k = 1 \/ (k - 1 \in 1..(Len(t) - 1) /\ Tail(t)[k - 1] = t[k])
    BY <1>1
  <1>4. 1 \in 1..Len(t) /\ \A k \in 1..(Len(t) - 1) : k + 1 \in 1..Len(t)
    BY <1>1
  <1>5. Range(t) = {Head(t)} \cup Range(Tail(t))
    <2>1. ASSUME NEW x \in Range(t) PROVE x \in {Head(t)} \cup Range(Tail(t))
      <3>1. PICK k \in 1..Len(t) : x = t[k]
        BY <1>2, Zenon
      <3>2. CASE k = 1
        BY <1>1, <3>1, <3>2, Zenon
      <3>3. CASE k - 1 \in 1..(Len(t) - 1) /\ Tail(t)[k - 1] = t[k]
        BY <1>2, <3>1, <3>3, Zenon
      <3> QED
        BY <1>3, <3>2, <3>3, Zenon
    <2>2. Head(t) \in Range(t) /\ Range(Tail(t)) \subseteq Range(t)
      BY <1>1, <1>2, <1>4, Zenon
    <2> QED
      BY <2>1, <2>2, Zenon
  <1>6. Range(t) \subseteq S
    <2>1. \A k \in 1..Len(t) : t[k] \in S
      OBVIOUS
    <2> QED
      BY <1>2, <2>1, Zenon
  <1>7. Tail(t) # t
    <2>1. \A n \in Nat : n - 1 # n
      OBVIOUS
    <2>2. Len(t) - 1 # Len(t)
      BY <1>1, <2>1, Zenon
    <2> QED
      BY <1>1, <2>2, Zenon
  <1> QED
    BY <1>1, <1>5, <1>6, <1>7, Zenon

\* A list in front of another.
LEMMA JoinIs ==
  ASSUME NEW S, NEW s \in Seq(S), NEW t \in Seq(S)
  PROVE  /\ s \o t \in Seq(S) /\ Len(s \o t) = Len(s) + Len(t) /\ Len(s) \in Nat /\ Len(t) \in Nat
         /\ \A k \in 1..Len(s) : (s \o t)[k] = s[k]
         /\ \A k \in 1..Len(t) : (s \o t)[k + Len(s)] = t[k]
         /\ Range(s \o t) = Range(s) \cup Range(t)
  <1>1. /\ s \o t \in Seq(S) /\ Len(s \o t) = Len(s) + Len(t) /\ Len(s) \in Nat /\ Len(t) \in Nat
        /\ \A k \in 1..Len(s) : (s \o t)[k] = s[k]
        /\ \A k \in 1..Len(t) : (s \o t)[k + Len(s)] = t[k]
    OBVIOUS
  <1>2. /\ Range(s) = {s[k] : k \in 1..Len(s)} /\ Range(t) = {t[k] : k \in 1..Len(t)}
        /\ Range(s \o t) = {(s \o t)[k] : k \in 1..(Len(s) + Len(t))}
    BY <1>1 DEF Range
  <1>3. \A k \in 1..(Len(s) + Len(t)) : k \in 1..Len(s) \/ (k - Len(s) \in 1..Len(t) /\ (k - Len(s)) + Len(s) = k)
    BY <1>1
  <1>4. /\ \A k \in 1..Len(s) : k \in 1..(Len(s) + Len(t))
        /\ \A k \in 1..Len(t) : k + Len(s) \in 1..(Len(s) + Len(t))
    BY <1>1
  <1>5. ASSUME NEW x \in Range(s \o t) PROVE x \in Range(s) \cup Range(t)
    <2>1. PICK k \in 1..(Len(s) + Len(t)) : x = (s \o t)[k]
      BY <1>2, Zenon
    <2>2. CASE k \in 1..Len(s)
      BY <1>1, <1>2, <2>1, <2>2, Zenon
    <2>3. CASE k - Len(s) \in 1..Len(t) /\ (k - Len(s)) + Len(s) = k
      BY <1>1, <1>2, <2>1, <2>3, Zenon
    <2> QED
      BY <1>3, <2>2, <2>3, Zenon
  <1>6. Range(s) \cup Range(t) \subseteq Range(s \o t)
    BY <1>1, <1>2, <1>4, Zenon
  <1> QED
    BY <1>1, <1>5, <1>6, Zenon

\* A list of one command, and the empty one.
LEMMA OneIs ==
  ASSUME NEW S, NEW e \in S
  PROVE  /\ <<e>> \in Seq(S) /\ Range(<<e>>) = {e}
         /\ <<>> \in Seq(S) /\ Range(<<>>) = {}
  BY DEF Range

-----------------------------------------------------------------------------
(* The stages of cmd_up and of del_if, as lists of commands *)

MakingLists ==
    {<< <<"link add">>, <<"wg addconf">>, <<"link up">>, <<"wg show listen-port">> >>,
     << <<"wg addconf">>, <<"link up">>, <<"wg show listen-port">> >>,
     << <<"link up">>, <<"wg show listen-port">> >>,
     << <<"wg show listen-port">> >>}

PreNames == {"link down", "wg set fwmark", "rule", "link up"}
PostNames == {"addr add", "ipv6 enable", "createNetworkCache", "dns", "wg show allowed-ips", "route add", "setmtu",
              "fopen packages.list", "exit", "users add", "am broadcast"}
DelNames == {"link del", "save", "rule del", "ip rule show", "network destroy", "am broadcast"}

IsFilling(t) == \A c \in Range(t) : c[1] \in PostNames

IsLinking(t) == t # <<>> /\ Head(t) = <<"network interface add">> /\ IsFilling(Tail(t))

\* The link is set down by the first command, or has been.
IsMarking(t) ==
    \E k \in 1..(Len(t) - 1) :
        /\ \A j \in 1..(k - 1) : t[j][1] \in PreNames /\ (t[j][1] = "link down" => j = 1)
        /\ t[k] = <<"network create">> /\ t[k + 1] = <<"network interface add">>
        /\ \A j \in (k + 2)..Len(t) : t[j][1] \in PostNames

\* The broadcast is the last command; link and network are deleted by the first.
IsClearing(t) ==
    \A k \in 1..Len(t) :
        /\ t[k][1] \in DelNames
        /\ t[k][1] = "am broadcast" => k = Len(t)
        /\ t[k][1] \in {"link del", "network destroy"} => k = 1

\* A command of the second half of cmd_up is done.
LEMMA FillingTail ==
  ASSUME NEW t \in Seq(Cmd), t # <<>>, IsFilling(t)
  PROVE  Head(t)[1] \in PostNames /\ IsFilling(Tail(t))
  <1>1. Range(t) = {Head(t)} \cup Range(Tail(t))
    BY TailIs
  <1> QED
    BY <1>1, Zenon DEF IsFilling

\* A command at the front of cmd_up is done.
LEMMA MarkingTail ==
  ASSUME NEW t \in Seq(Cmd), IsMarking(t)
  PROVE  /\ t # <<>>
         /\ \/ Head(t) = <<"network create">> /\ IsLinking(Tail(t))
            \/ Head(t)[1] \in PreNames /\ IsMarking(Tail(t)) /\ <<"link down">> \notin Range(Tail(t))
  <1>1. PICK k \in 1..(Len(t) - 1) :
        /\ \A j \in 1..(k - 1) : t[j][1] \in PreNames /\ (t[j][1] = "link down" => j = 1)
        /\ t[k] = <<"network create">> /\ t[k + 1] = <<"network interface add">>
        /\ \A j \in (k + 2)..Len(t) : t[j][1] \in PostNames
    BY Zenon DEF IsMarking
  <1> DEFINE u == Tail(t)
             n == Len(t)
  <1>0. k \in Nat /\ n \in Nat /\ 1 <= k /\ k < n
    OBVIOUS
  <1>2. t # <<>>
    BY <1>0
  <1>3. /\ Head(t) = t[1] /\ u \in Seq(Cmd) /\ n \in Nat \ {0} /\ Len(u) = n - 1
        /\ \A j \in 1..(n - 1) : u[j] = t[j + 1]
    BY <1>2, TailIs
  <1>4. \A x \in Range(u) : \E j \in 1..(n - 1) : x = u[j]
    <2>1. DOMAIN u = 1..(n - 1)
      BY <1>3
    <2> QED
      BY <2>1, Zenon DEF Range
  <1> HIDE DEF u, n
  <1>5. CASE k = 1
    <2>1. Len(u) \in Nat /\ Len(u) >= 1 /\ u # <<>> /\ u[1] = t[2] /\ 1 + 1 = 2
      BY <1>0, <1>3, <1>5
    <2>2. Head(u) = <<"network interface add">>
      <3>1. Head(u) = u[1]
        BY <1>3, <2>1
      <3> QED
        BY <1>1, <1>5, <2>1, <3>1, Zenon
    <2>3. ASSUME NEW c \in Range(Tail(u)) PROVE c[1] \in PostNames
      <3>1. /\ Len(Tail(u)) = Len(u) - 1 /\ Tail(u) \in Seq(Cmd)
            /\ \A j \in 1..(Len(u) - 1) : Tail(u)[j] = u[j + 1]
        BY <1>3, <2>1, TailIs
      <3>2. PICK j \in 1..(Len(u) - 1) : c = Tail(u)[j]
        <4>1. DOMAIN Tail(u) = 1..(Len(u) - 1)
          BY <3>1
        <4> QED
          BY <4>1, Zenon DEF Range
      <3>3. j + 1 \in 1..(n - 1) /\ (j + 1) + 1 = j + 2 /\ j + 2 \in (k + 2)..Len(t)
        BY <1>0, <1>3, <1>5, <3>2 DEF n
      <3>4. c = t[j + 2]
        BY <1>3, <3>1, <3>2, <3>3, Zenon
      <3> QED
        BY <1>1, <3>3, <3>4, Zenon
    <2>4. IsLinking(u)
      BY <2>1, <2>2, <2>3, Zenon DEF IsLinking, IsFilling
    <2> QED
      BY <1>1, <1>2, <1>3, <1>5, <2>4, Zenon DEF u
  <1>6. CASE k # 1
    <2>1. 1 \in 1..(k - 1)
      BY <1>0, <1>6
    <2>2. Head(t)[1] \in PreNames
      BY <1>1, <1>3, <2>1, Zenon
    <2>3. IsMarking(u)
      <3>1. k - 1 \in 1..(Len(u) - 1) /\ (k - 1) + 1 = k
        BY <1>0, <1>3, <1>6 DEF n
      <3>2. ASSUME NEW j \in 1..((k - 1) - 1) PROVE u[j][1] \in PreNames /\ u[j][1] # "link down"
        <4>1. j + 1 \in 1..(k - 1) /\ j \in 1..(n - 1) /\ j + 1 # 1
          BY <1>0, <1>3, <1>6 DEF n
        <4> QED
          BY <1>1, <1>3, <4>1, Zenon
      <3>3. u[k - 1] = <<"network create">> /\ u[(k - 1) + 1] = <<"network interface add">>
        <4>1. k - 1 \in 1..(n - 1) /\ k \in 1..(n - 1)
          BY <1>0, <1>3, <1>6 DEF n
        <4> QED
          BY <1>1, <1>3, <3>1, <4>1, Zenon
      <3>4. ASSUME NEW j \in ((k - 1) + 2)..Len(u) PROVE u[j][1] \in PostNames
        <4>1. j + 1 \in (k + 2)..Len(t) /\ j \in 1..(n - 1)
          BY <1>0, <1>3, <1>6 DEF n
        <4> QED
          BY <1>1, <1>3, <4>1, Zenon
      <3> QED
        BY <3>1, <3>2, <3>3, <3>4, Zenon DEF IsMarking
    <2>4. ASSUME <<"link down">> \in Range(u) PROVE FALSE
      <3>1. PICK j \in 1..(n - 1) : <<"link down">> = u[j]
        BY <1>4, <2>4, Zenon
      <3>2. t[j + 1] = <<"link down">>
        BY <1>3, <3>1, Zenon
      <3>3. t[j + 1][1] = "link down"
        <4>1. <<"link down">>[1] = "link down"
          OBVIOUS
        <4> QED
          BY <3>2, <4>1, Zenon
      <3>4. j + 1 \in 1..(k - 1) \/ j + 1 = k \/ j + 1 = k + 1 \/ j + 1 \in (k + 2)..Len(t)
        BY <1>0 DEF n
      <3>5. j + 1 # 1
        BY <1>0
      <3>6. CASE j + 1 \in 1..(k - 1)
        BY <1>1, <3>3, <3>5, <3>6, Zenon
      <3>7. CASE j + 1 = k \/ j + 1 = k + 1
        <4>1. <<"link down">> # <<"network create">> /\ <<"link down">> # <<"network interface add">>
          OBVIOUS
        <4> QED
          BY <1>1, <3>2, <3>7, <4>1, Zenon
      <3>8. CASE j + 1 \in (k + 2)..Len(t)
        BY <1>1, <3>3, <3>8, Zenon DEF PostNames
      <3> QED
        BY <3>4, <3>6, <3>7, <3>8, Zenon
    <2> QED
      BY <1>2, <2>2, <2>3, <2>4, Zenon DEF u
  <1> QED
    BY <1>5, <1>6, Zenon

\* A command of del_if or of cmd_down is done.
LEMMA ClearingTail ==
  ASSUME NEW t \in Seq(Cmd), t # <<>>, IsClearing(t)
  PROVE  /\ Head(t)[1] \in DelNames /\ IsClearing(Tail(t))
         /\ Head(t)[1] = "am broadcast" => Tail(t) = <<>>
         /\ \A c \in Range(Tail(t)) : c[1] \in DelNames \ {"link del", "network destroy"}
  <1> DEFINE u == Tail(t)
             n == Len(t)
  <1>1. /\ Head(t) = t[1] /\ u \in Seq(Cmd) /\ n \in Nat \ {0} /\ Len(u) = n - 1
        /\ \A j \in 1..(n - 1) : u[j] = t[j + 1]
    BY TailIs
  <1>2. 1 \in 1..n /\ (n = 1 => u = <<>>)
    BY <1>1
  <1>3. ASSUME NEW k \in 1..(n - 1)
        PROVE  /\ u[k][1] \in DelNames \ {"link del", "network destroy"}
               /\ u[k][1] = "am broadcast" => k = n - 1
    <2>1. \A m \in Nat \ {0} : \A j \in 1..(m - 1) : j + 1 \in 1..m /\ j + 1 # 1 /\ (j + 1 = m => j = m - 1)
      OBVIOUS
    <2>2. k + 1 \in 1..n /\ k + 1 # 1 /\ (k + 1 = n => k = n - 1)
      BY <1>1, <2>1, Zenon
    <2> QED
      BY <1>1, <1>3, <2>2, Zenon DEF IsClearing
  <1>4. DOMAIN u = 1..(n - 1)
    BY <1>1
  <1> HIDE DEF u
  <1>5. IsClearing(u) /\ \A c \in Range(u) : c[1] \in DelNames \ {"link del", "network destroy"}
    BY <1>1, <1>3, <1>4, Zenon DEF IsClearing, Range
  <1> QED
    BY <1>1, <1>2, <1>5, Zenon DEF IsClearing, u

-----------------------------------------------------------------------------
(* What has been set up and what is pending are what the file asks for *)

Allowed(o) == Range(Values(o.config, "AllowedIPs"))
RouteCmds(o) == {<<"route add", v>> : v \in Allowed(o)}
Servers(o) == IF Range(o.dnses) \subseteq {"host"} THEN {} ELSE Range(o.dnses)
UidsOf(list) == {Packages[a] : a \in Range(list) \cap DOMAIN Packages}
UidsOut(o) == IF o.excluded = None THEN {} ELSE UidsOf(o.excluded)
Routed(o) ==
    IF o.included # None THEN UidsOf(o.included)
    ELSE (0..MaxUid) \ (UidsOut(o) \cup (IF MaxUid - 1 \in UidsOut(o) THEN {MaxUid} ELSE {}))

LinkFilled(o, l, T) ==
    /\ l.config = o.config
    /\ <<"wg set fwmark">> \in T \/ l.mark
    /\ <<"link up">> \in T \/ (l.up /\ <<"link down">> \notin T)
    /\ \A a \in Value : a \in Range(o.addrs) <=> (a \in l.addrs \/ <<"addr add", a>> \in T)

\* Rules can be missing when the port was not listed.
RulesFilled(m, R, T) ==
    m \/ \A f \in Family : \A d \in Chain : <<"rule", f, d>> \in T \/ \E r \in R : r.fam = f /\ r.chain = d

\* Routes can be missing when the allowed IPs were not listed.
RoutesFilled(o, m, net, T) ==
    /\ \A v \in Value : v \in net.routes \/ <<"route add", v>> \in T => v \in Allowed(o)
    /\ m \/ <<"wg show allowed-ips">> \in T \/ \A v \in Allowed(o) : v \in net.routes \/ <<"route add", v>> \in T

DnsFilled(o, net, T) ==
    /\ \A s, d \in SUBSET Value : <<"dns", s, d>> \in T => s \cup d = Servers(o)
    /\ net.dns = Servers(o) \/ \E s, d \in SUBSET Value : <<"dns", s, d>> \in T

Added(u, T) == \E U \in SUBSET (0..MaxUid) : u \in U /\ <<"users add", U>> \in T

UsersFilled(o, net, T) == <<"exit">> \in T \/ \A u \in 0..MaxUid : u \in Routed(o) <=> (u \in net.users \/ Added(u, T))

NetFilled(o, m, net, T) == RoutesFilled(o, m, net, T) /\ DnsFilled(o, net, T) /\ UsersFilled(o, net, T)

\* What is pending when the first command is done, by its name.
LEMMA OtherPending ==
  ASSUME NEW c, NEW w, NEW v, NEW x, NEW n
  PROVE  /\ c[1] # w => <<w>> # c
         /\ c[1] # n => <<n, v>> # c
         /\ c[1] # n => <<n, v, x>> # c
  OBVIOUS

\* A command that has no part in the link.
LEMMA LinkKept ==
  ASSUME NEW o, NEW l, NEW k, NEW c, NEW U, LinkFilled(o, l, {c} \cup U),
         c[1] \notin {"wg set fwmark", "link up", "addr add"},
         k.config = l.config, k.mark = l.mark, k.up = l.up, k.addrs = l.addrs
  PROVE  LinkFilled(o, k, U)
  <1>1. <<"wg set fwmark">> # c /\ <<"link up">> # c /\ \A a : <<"addr add", a>> # c
    BY OtherPending, Zenon
  <1> QED
    BY <1>1, Zenon DEF LinkFilled

\* A command of up_if that adds no rule.
LEMMA RulesKept ==
  ASSUME NEW m, NEW R, NEW c, NEW U, RulesFilled(m, R, {c} \cup U), c[1] # "rule"
  PROVE  RulesFilled(m, R, U)
  <1>1. \A f, d : <<"rule", f, d>> # c
    BY OtherPending, Zenon
  <1>2. ASSUME ~ m, NEW f \in Family, NEW d \in Chain PROVE <<"rule", f, d>> \in U \/ \E r \in R : r.fam = f /\ r.chain = d
    BY <1>1, <1>2 DEF RulesFilled
  <1> QED
    BY <1>2, Zenon DEF RulesFilled

\* A command that has no part in the network.
LEMMA NetKept ==
  ASSUME NEW o, NEW m, NEW net, NEW k, NEW c, NEW U, NetFilled(o, m, net, {c} \cup U),
         c[1] \notin {"wg show allowed-ips", "route add", "dns", "users add", "exit"},
         k.routes = net.routes, k.dns = net.dns, k.users = net.users
  PROVE  NetFilled(o, m, k, U)
  <1>1. /\ <<"wg show allowed-ips">> # c /\ <<"exit">> # c
        /\ \A v : <<"route add", v>> # c /\ <<"users add", v>> # c
        /\ \A s, d : <<"dns", s, d>> # c
    BY OtherPending, Zenon
  <1>2. RoutesFilled(o, m, k, U)
    BY <1>1, Zenon DEF RoutesFilled, NetFilled
  <1>3. DnsFilled(o, k, U)
    BY <1>1, Zenon DEF DnsFilled, NetFilled
  <1>4. UsersFilled(o, k, U)
    BY <1>1, Zenon DEF UsersFilled, Added, NetFilled
  <1> QED
    BY <1>2, <1>3, <1>4, Zenon DEF NetFilled

\* The allowed IPs are listed, or the listing is lost.
LEMMA NetListed ==
  ASSUME NEW o, NEW m, NEW n, NEW net, NEW U, NEW A, NetFilled(o, m, net, {<<"wg show allowed-ips">>} \cup U),
         (A = RouteCmds(o) /\ n = m) \/ (A = {} /\ n)
  PROVE  NetFilled(o, n, net, A \cup U)
  <1> DEFINE c == <<"wg show allowed-ips">>
  <1>1. /\ <<"exit">> # c
        /\ \A x : <<"users add", x>> # c /\ <<"route add", x>> # c
        /\ \A s, d : <<"dns", s, d>> # c
    BY Zenon
  <1>0. NetFilled(o, m, net, {c} \cup U)
    BY Zenon
  <1>a. /\ <<"exit">> \notin A
        /\ \A x : <<"users add", x>> \notin A /\ (<<"route add", x>> \in A => x \in Allowed(o))
        /\ \A s, d : <<"dns", s, d>> \notin A
    BY Zenon DEF RouteCmds
  <1>b. n \/ \A v \in Allowed(o) : <<"route add", v>> \in A
    BY Zenon DEF RouteCmds
  <1> HIDE DEF c
  <1>2. RoutesFilled(o, n, net, A \cup U)
    BY <1>0, <1>1, <1>a, <1>b, Zenon DEF RoutesFilled, NetFilled
  <1>3. DnsFilled(o, net, A \cup U)
    BY <1>0, <1>1, <1>a, Zenon DEF DnsFilled, NetFilled
  <1>4. UsersFilled(o, net, A \cup U)
    BY <1>0, <1>1, <1>a, Zenon DEF UsersFilled, Added, NetFilled
  <1> QED
    BY <1>2, <1>3, <1>4, Zenon DEF NetFilled

-----------------------------------------------------------------------------
(* The lists that the functions make *)

\* Flatten makes one list of all, without losing any element.
LEMMA FlattenIs ==
  ASSUME NEW S, NEW ss \in Seq(Seq(S))
  PROVE  /\ Flatten(ss) \in Seq(S)
         /\ \A x : x \in Range(Flatten(ss)) <=> \E k \in 1..Len(ss) : x \in Range(ss[k])
  <1> DEFINE n == Len(ss)
  <1>0. \A k \in 1..n : ss[k] \in Seq(S)
    OBVIOUS
  <1>1. /\ n \in Nat /\ 0 \in 0..n /\ n \in 0..n
        /\ \A k \in 1..n : k \in 0..n /\ k - 1 \in 0..n /\ k # 0 /\ \A j : j \in 1..k <=> (j = k \/ j \in 1..(k - 1))
        /\ \A k \in 0..n : k = 0 \/ (k # 0 /\ k \in 1..n)
    OBVIOUS
  <1> HIDE DEF n
  <1> DEFINE Good(k, a) == \A x : x \in Range(a) <=> \E j \in 1..k : x \in Range(ss[j])
             D == [k \in 0..n |-> {a \in Seq(S) : Good(k, a)}]
             Op(a, k) == a \o ss[k]
             H == [x \in (1..n) \X Seq(S) |-> Op(x[2], x[1])]
             Is(g) == g = [k \in 0..n |-> IF k = 0 THEN <<>> ELSE Op(g[k - 1], k)]
             F == CHOOSE g : Is(g)
  <1>2. <<>> \in Seq(S) /\ Good(0, <<>>)
    <2>1. <<>> \in Seq(S) /\ Range(<<>>) = {} /\ \A j \in 1..0 : FALSE
      BY DEF Range
    <2> QED
      BY <2>1, Zenon
  <1>3. ASSUME NEW k \in 1..n, NEW a \in Seq(S), Good(k - 1, a) PROVE Op(a, k) \in Seq(S) /\ Good(k, Op(a, k))
    <2>1. a \o ss[k] \in Seq(S) /\ Range(a \o ss[k]) = Range(a) \cup Range(ss[k])
      BY <1>0, JoinIs
    <2>2. ASSUME NEW x PROVE x \in Range(a \o ss[k]) <=> \E j \in 1..k : x \in Range(ss[j])
      <3>1. x \in Range(a \o ss[k]) <=> (x \in Range(ss[k]) \/ \E j \in 1..(k - 1) : x \in Range(ss[j]))
        BY <1>3, <2>1, Zenon
      <3> QED
        BY <1>1, <3>1, Zenon
    <2> QED
      BY <2>1, <2>2, Zenon
  <1> HIDE DEF Good, Op
  <1>4. <<>> \in D[0] /\ \A k \in 1..n : \A a \in D[k - 1] : a \in Seq(S) /\ Op(a, k) \in D[k]
    BY <1>1, <1>2, <1>3, Zenon
  <1> HIDE DEF D
  <1>5. PICK f : Iterates(f, n, <<>>, H) /\ \A k \in 0..n : f[k] \in D[k]
    <2>1. \A k \in 1..n : \A a \in D[k - 1] : H[<<k, a>>] \in D[k]
      BY <1>4, Zenon
    <2> HIDE DEF H
    <2> QED
      BY <1>1, <1>4, <2>1, FoldExists, Zenon
  <1>6. Is(f)
    <2>1. \A k \in 0..n : k = 0 \/ (k # 0 /\ H[<<k, f[k - 1]>>] = Op(f[k - 1], k))
      BY <1>1, <1>4, <1>5, Zenon
    <2> HIDE DEF H
    <2> QED
      BY <1>5, <2>1, Zenon DEF Iterates
  <1>7. Is(F)
    <2> HIDE DEF Is
    <2> QED
      BY <1>6, Zenon
  <1>8. Flatten(ss) = F[n]
    BY Zenon DEF Flatten, FoldLeft, Op, n
  <1> HIDE DEF F, H
  <1>9. F[0] = <<>> /\ \A k \in 1..n : F[k] = Op(F[k - 1], k)
    BY <1>1, <1>7, Zenon
  <1>10. F[n] \in D[n]
    <2>1. F[0] \in D[0] /\ \A k \in 1..n : F[k - 1] \in D[k - 1] => F[k] \in D[k]
      BY <1>4, <1>9, Zenon
    <2> QED
      BY <1>1, <2>1, FoldStays, Zenon
  <1>11. F[n] \in Seq(S) /\ Good(n, F[n])
    BY <1>1, <1>10, Zenon DEF D
  <1> QED
    BY <1>8, <1>11, Zenon DEF Good, n

\* The values of a line, and the lines of a file.
LEMMA LineIs == (\A l \in Line : l.val \in Seq(Value)) /\ \A f \in Files : f \in Seq(Line)
  <1>1. ASSUME NEW l \in Line PROVE l.val \in Seq(Value)
    <2>1. PICK f \in Files : l \in Range(f)
      BY Zenon DEF Line
    <2>2. l.val \in Seq(Range(l.val)) /\ Range(l.val) \subseteq Value
      BY <2>1, WgQuickAndroidAssumption, Zenon DEF Value
    <2> QED
      BY <2>2
  <1>2. ASSUME NEW f \in Files PROVE f \in Seq(Line)
    <2>1. f \in Seq(Range(f)) /\ Range(f) \subseteq Line
      BY WgQuickAndroidAssumption, Zenon DEF Line
    <2> QED
      BY <2>1
  <1> QED
    BY <1>1, <1>2, Zenon

\* parse_options makes options of every file.
LEMMA ParseTyped ==
  ASSUME NEW file \in Files
  PROVE  parse_options(file) \in Options
  <1>a. ASSUME NEW o \in Options, NEW l \in Line PROVE ParseLine(o, l) \in Options
    <2> DEFINE in == IF l.key \in {"[Interface]", "[Peer]"} THEN l.key = "[Interface]" ELSE o.in
               s == [o EXCEPT !.in = in]
               v == l.val
    <2>1. in \in BOOLEAN /\ v \in Seq(Value)
      <3>1. o.in \in BOOLEAN
        BY Zenon DEF Options
      <3> QED
        BY <3>1, LineIs, Zenon
    <2>2. s \in Options
      <3> HIDE DEF in
      <3> QED
        BY <2>1, Zenon DEF Options
    <2>0. ParseLine(o, l) =
            CASE in /\ l.key = "Address" /\ v # <<>> -> [s EXCEPT !.addrs = @ \o v]
              [] in /\ l.key = "DNS" /\ v # <<>> -> [s EXCEPT !.dnses = @ \o v]
              [] in /\ l.key = "ExcludedApplications" -> [s EXCEPT !.excluded = concat_and_free(@, v)]
              [] in /\ l.key = "IncludedApplications" -> [s EXCEPT !.included = concat_and_free(@, v)]
              [] in /\ l.key = "MTU" /\ v # <<>> -> [s EXCEPT !.mtu = v[1]]
              [] OTHER -> [s EXCEPT !.config = Append(@, l)]
      BY Zenon DEF ParseLine
    <2> HIDE DEF s, in, v
    <2>3. /\ \A x \in Seq(Value) : [s EXCEPT !.addrs = x] \in Options /\ [s EXCEPT !.dnses = x] \in Options
          /\ \A x \in Lst : [s EXCEPT !.excluded = x] \in Options /\ [s EXCEPT !.included = x] \in Options
          /\ \A x \in Value : [s EXCEPT !.mtu = x] \in Options
          /\ \A x \in Seq(Line) : [s EXCEPT !.config = x] \in Options
      BY <2>2, Zenon DEF Options
    <2>4. /\ s.addrs \in Seq(Value) /\ s.dnses \in Seq(Value) /\ s.excluded \in Lst /\ s.included \in Lst
          /\ s.config \in Seq(Line)
      BY <2>2 DEF Options
    <2>5. /\ s.addrs \o v \in Seq(Value) /\ s.dnses \o v \in Seq(Value) /\ Append(s.config, l) \in Seq(Line)
          /\ v # <<>> => v[1] \in Value
      BY <2>1, <2>4
    <2>6. concat_and_free(s.excluded, v) \in Lst /\ concat_and_free(s.included, v) \in Lst
      BY <2>1, <2>4 DEF Lst, concat_and_free
    <2>7. /\ [s EXCEPT !.addrs = @ \o v] \in Options /\ [s EXCEPT !.dnses = @ \o v] \in Options
          /\ [s EXCEPT !.excluded = concat_and_free(@, v)] \in Options
          /\ [s EXCEPT !.included = concat_and_free(@, v)] \in Options
          /\ v # <<>> => [s EXCEPT !.mtu = v[1]] \in Options
          /\ [s EXCEPT !.config = Append(@, l)] \in Options
      BY <2>3, <2>5, <2>6, Zenon
    <2> QED
      BY <2>0, <2>7
  <1> DEFINE n == Len(file)
  <1>0. file \in Seq(Line) /\ \A k \in 1..n : file[k] \in Line
    BY LineIs
  <1>1. /\ n \in Nat /\ 0 \in 0..n /\ n \in 0..n
        /\ \A k \in 1..n : k \in 0..n /\ k - 1 \in 0..n /\ k # 0 /\ \A j : j \in 1..k <=> (j = k \/ j \in 1..(k - 1))
        /\ \A k \in 0..n : k = 0 \/ (k # 0 /\ k \in 1..n)
    OBVIOUS
  <1> HIDE DEF n
  <1> DEFINE Good(k, a) == TRUE
             D == [k \in 0..n |-> {a \in Options : Good(k, a)}]
             Op(a, k) == ParseLine(a, file[k])
             H == [x \in (1..n) \X Options |-> Op(x[2], x[1])]
             Is(g) == g = [k \in 0..n |-> IF k = 0 THEN NoOptions ELSE Op(g[k - 1], k)]
             F == CHOOSE g : Is(g)
  <1>2. NoOptions \in Options /\ Good(0, NoOptions)
    BY DEF NoOptions, Options, Lst
  <1>3. ASSUME NEW k \in 1..n, NEW a \in Options, Good(k - 1, a) PROVE Op(a, k) \in Options /\ Good(k, Op(a, k))
    BY <1>0, <1>a, Zenon
  <1> HIDE DEF Good, Op
  <1>4. NoOptions \in D[0] /\ \A k \in 1..n : \A a \in D[k - 1] : a \in Options /\ Op(a, k) \in D[k]
    BY <1>1, <1>2, <1>3, Zenon
  <1> HIDE DEF D
  <1>5. PICK f : Iterates(f, n, NoOptions, H) /\ \A k \in 0..n : f[k] \in D[k]
    <2>1. \A k \in 1..n : \A a \in D[k - 1] : H[<<k, a>>] \in D[k]
      BY <1>4, Zenon
    <2> HIDE DEF H
    <2> QED
      BY <1>1, <1>4, <2>1, FoldExists, Zenon
  <1>6. Is(f)
    <2>1. \A k \in 0..n : k = 0 \/ (k # 0 /\ H[<<k, f[k - 1]>>] = Op(f[k - 1], k))
      BY <1>1, <1>4, <1>5, Zenon
    <2> HIDE DEF H
    <2> QED
      BY <1>5, <2>1, Zenon DEF Iterates
  <1>7. Is(F)
    <2> HIDE DEF Is
    <2> QED
      BY <1>6, Zenon
  <1>8. parse_options(file) = F[n]
    BY Zenon DEF parse_options, FoldLeft, Op, n
  <1> HIDE DEF F, H
  <1>9. F[0] = NoOptions /\ \A k \in 1..n : F[k] = Op(F[k - 1], k)
    BY <1>1, <1>7, Zenon
  <1>10. F[n] \in D[n]
    <2>1. F[0] \in D[0] /\ \A k \in 1..n : F[k - 1] \in D[k - 1] => F[k] \in D[k]
      BY <1>4, <1>9, Zenon
    <2> QED
      BY <1>1, <2>1, FoldStays, Zenon
  <1>11. F[n] \in Options /\ Good(n, F[n])
    BY <1>1, <1>10, Zenon DEF D
  <1> QED
    BY <1>8, <1>11, Zenon

\* What `wg show' lists comes from the lines.
LEMMA ValuesTyped ==
  ASSUME NEW config \in Seq(Line), NEW key
  PROVE  Values(config, key) \in Seq(Value)
  <1> DEFINE ss == [k \in DOMAIN config |-> IF config[k].key = key THEN config[k].val ELSE <<>>]
  <1>1. Len(config) \in Nat /\ DOMAIN config = 1..Len(config) /\ \A k \in DOMAIN config : config[k] \in Line
    OBVIOUS
  <1>2. <<>> \in Seq(Value)
    OBVIOUS
  <1>3. \A k \in DOMAIN config : (IF config[k].key = key THEN config[k].val ELSE <<>>) \in Seq(Value)
    BY <1>1, <1>2, LineIs, Zenon
  <1>4. ss \in Seq(Seq(Value))
    <2> DEFINE v(k) == IF config[k].key = key THEN config[k].val ELSE <<>>
    <2> HIDE DEF v
    <2>1. [k \in 1..Len(config) |-> v(k)] \in Seq(Seq(Value))
      BY <1>1, <1>3 DEF v
    <2> QED
      BY <1>1, <2>1 DEF v
  <1> HIDE DEF ss
  <1>5. Flatten(ss) \in Seq(Value)
    BY <1>4, FlattenIs
  <1> QED
    BY <1>5, Zenon DEF Values, ss

Uid == 1..MaxUid
Sorted(u) == \A i, j \in 1..Len(u) : i <= j => u[i] <= u[j]

Accs == [start : 0..(MaxUid + 1), ranges : Seq(SUBSET (0..MaxUid))]

UsersCmds == {<<"users add", u>> : u \in SUBSET (0..MaxUid)}
Groups == [args : 0..(Batch - 1), users : SUBSET (0..MaxUid), cmds : Seq(UsersCmds)]

\* set_users: what is left to add are the uids that the file asks for.
LEMMA UsersIs ==
  ASSUME NEW o \in Options
  PROVE  LET t == set_users(o.excluded, o.included)
         IN  /\ t \in Seq(Cmd) /\ \A c \in Range(t) : c[1] \in {"fopen packages.list", "exit", "users add"}
             /\ <<"exit">> \in Range(t) \/ \A u \in 0..MaxUid : u \in Routed(o) <=> Added(u, Range(t))
  \* The uid of a package is put where the order asks for it.
  <1>a. ASSUME NEW u \in Seq(Uid), Sorted(u), NEW app
        PROVE  /\ AddUid(u, app) \in Seq(Uid) /\ Sorted(AddUid(u, app))
               /\ Range(AddUid(u, app)) = Range(u) \cup (IF app \in DOMAIN Packages THEN {Packages[app]} ELSE {})
    <2> USE <1>a
    <2>1. CASE app \notin DOMAIN Packages
      BY <2>1, Zenon DEF AddUid
    <2>2. CASE app \in DOMAIN Packages
      <3> DEFINE x == Packages[app]
                 n == Len(u)
                 P == {0} \cup {k \in DOMAIN u : compare_uid(u[k], x)}
                 p == Max(P)
                 w == InsertedAt(u, p + 1, x)
      <3>1. x \in Uid /\ MaxUid \in Nat /\ n \in Nat /\ DOMAIN u = 1..n /\ \A k \in 1..n : u[k] \in Uid
        BY <2>2, WgQuickAndroidAssumption DEF Uid
      <3>2. AddUid(u, app) = w
        BY <2>2, Zenon DEF AddUid, Place
      <3>3. \A k : k \in P <=> (k = 0 \/ (k \in 1..n /\ u[k] <= x))
        BY <3>1, Zenon DEF compare_uid
      <3>4. p \in P /\ \A k \in P : k <= p
        <4>1. \A k \in P : k \in 0..n
          BY <3>1, <3>3
        <4>2. 0 \in P
          BY <3>3, Zenon
        <4> HIDE DEF P
        <4> QED
          BY <3>1, <4>1, <4>2, MaxIn, Zenon
      <3> HIDE DEF P, x
      <3>5. p \in 0..n
        BY <3>1, <3>3, <3>4
      <3> HIDE DEF p
      <3>6. \A k \in 1..n : IF k <= p THEN u[k] <= x ELSE x <= u[k]
        <4> SUFFICES ASSUME NEW k \in 1..n PROVE IF k <= p THEN u[k] <= x ELSE x <= u[k]
          OBVIOUS
        <4>1. u[k] \in Nat /\ x \in Nat
          BY <3>1 DEF Uid
        <4>2. CASE k <= p
          <5>1. p \in 1..n
            BY <3>1, <3>5, <4>2
          <5>2. p # 0
            BY <5>1
          <5>3. u[p] <= x /\ u[k] <= u[p]
            BY <3>3, <3>4, <4>2, <5>1, <5>2, Zenon DEF Sorted
          <5>4. u[p] \in Nat
            BY <3>1, <5>1 DEF Uid
          <5>5. u[k] <= x
            BY <4>1, <5>3, <5>4
          <5> QED
            BY <4>2, <5>5, Zenon
        <4>3. CASE ~(k <= p)
          <5>1. ~(u[k] <= x)
            BY <3>3, <3>4, <4>3, Zenon
          <5>2. x <= u[k]
            BY <4>1, <5>1
          <5> QED
            BY <4>3, <5>2, Zenon
        <4> QED
          BY <4>2, <4>3, Zenon
      <3>7. /\ w \in Seq(Uid) /\ Len(w) = n + 1
            /\ \A i \in 1..(n + 1) : w[i] = IF i <= p THEN u[i] ELSE IF i = p + 1 THEN x ELSE u[i - 1]
        <4>1. u \in Seq(Uid) /\ x \in Uid /\ p \in 0..Len(u)
          BY <3>1, <3>5
        <4> HIDE DEF n
        <4>2. /\ w \in Seq(Uid) /\ Len(w) = Len(u) + 1
              /\ \A i \in 1..(Len(u) + 1) : w[i] = IF i <= p THEN u[i] ELSE IF i = p + 1 THEN x ELSE u[i - 1]
          BY <4>1, InsertIs
        <4> HIDE DEF w
        <4> QED
          BY <4>2, Zenon DEF n
      <3> HIDE DEF w
      <3>8. Sorted(w)
        <4> SUFFICES ASSUME NEW i \in 1..(n + 1), NEW j \in 1..(n + 1), i <= j PROVE w[i] <= w[j]
          BY <3>7, Zenon DEF Sorted
        <4>1. \A a, b \in 1..n : a <= b => u[a] <= u[b]
          BY Zenon DEF Sorted
        <4>2. \A a \in 1..n : u[a] \in Nat
          BY <3>1 DEF Uid
        <4>3. x \in Nat
          BY <3>1 DEF Uid
        <4>4. /\ w[i] = IF i <= p THEN u[i] ELSE IF i = p + 1 THEN x ELSE u[i - 1]
              /\ w[j] = IF j <= p THEN u[j] ELSE IF j = p + 1 THEN x ELSE u[j - 1]
          BY <3>7, Zenon
        <4>5. CASE i <= p /\ j <= p
          BY <3>1, <3>5, <4>1, <4>4, <4>5
        <4>6. CASE i <= p /\ j = p + 1
          BY <3>1, <3>5, <3>6, <4>4, <4>6
        <4>7. CASE i <= p /\ j > p + 1
          <5>1. i \in 1..n /\ j - 1 \in 1..n /\ i <= j - 1
            BY <3>1, <3>5, <4>7
          <5> QED
            BY <3>1, <3>5, <4>1, <4>4, <4>7, <5>1
        <4>8. CASE i = p + 1 /\ j = p + 1
          BY <3>1, <3>5, <4>3, <4>4, <4>8
        <4>9. CASE i = p + 1 /\ j > p + 1
          <5>1. j - 1 \in 1..n /\ ~(j - 1 <= p)
            BY <3>1, <3>5, <4>9
          <5>2. x <= u[j - 1]
            BY <3>6, <5>1, Zenon
          <5> QED
            BY <3>1, <3>5, <4>4, <4>9, <5>2
        <4>10. CASE i > p + 1
          <5>1. i - 1 \in 1..n /\ j - 1 \in 1..n /\ i - 1 <= j - 1 /\ j > p + 1
            BY <3>1, <3>5, <4>10
          <5> QED
            BY <3>1, <3>5, <4>1, <4>4, <4>10, <5>1
        <4> QED
          BY <3>1, <3>5, <4>5, <4>6, <4>7, <4>8, <4>9, <4>10
      <3>9. Range(w) = Range(u) \cup {x}
        <4>1. DOMAIN w = 1..(n + 1)
          BY <3>1, <3>7
        <4>2. ASSUME NEW i \in 1..(n + 1) PROVE w[i] \in Range(u) \cup {x}
          <5>1. CASE i <= p
            <6>1. i \in 1..n
              BY <3>1, <3>5, <5>1
            <6> QED
              BY <3>1, <3>7, <5>1, <6>1, Zenon DEF Range
          <5>2. CASE ~(i <= p) /\ i = p + 1
            BY <3>7, <5>2, Zenon
          <5>3. CASE ~(i <= p) /\ i # p + 1
            <6>1. i - 1 \in 1..n
              BY <3>1, <3>5, <5>3
            <6> QED
              BY <3>1, <3>7, <5>3, <6>1, Zenon DEF Range
          <5> QED
            BY <5>1, <5>2, <5>3, Zenon
        <4>3. ASSUME NEW i \in 1..n PROVE \E j \in 1..(n + 1) : w[j] = u[i]
          <5>1. CASE i <= p
            <6>1. i \in 1..(n + 1)
              BY <3>1
            <6> QED
              BY <3>7, <5>1, <6>1, Zenon
          <5>2. CASE ~(i <= p)
            <6>1. i + 1 \in 1..(n + 1) /\ ~(i + 1 <= p) /\ i + 1 # p + 1 /\ (i + 1) - 1 = i
              BY <3>1, <3>5, <5>2
            <6> QED
              BY <3>7, <6>1, Zenon
          <5> QED
            BY <5>1, <5>2, Zenon
        <4>4. x \in Range(w)
          <5>1. p + 1 \in 1..(n + 1) /\ ~(p + 1 <= p)
            BY <3>1, <3>5
          <5> QED
            BY <3>7, <4>1, <5>1, Zenon DEF Range
        <4>5. Range(w) \subseteq Range(u) \cup {x}
          BY <4>1, <4>2, Zenon DEF Range
        <4>6. Range(u) \subseteq Range(w)
          BY <3>1, <4>1, <4>3, Zenon DEF Range
        <4> QED
          BY <4>4, <4>5, <4>6, Zenon
      <3> QED
        BY <2>2, <3>2, <3>7, <3>8, <3>9, Zenon DEF x
    <2> QED
      BY <2>1, <2>2, Zenon
  \* get_uid_list: the uids of the packages that the list names, in order.
  <1>b. ASSUME NEW list \in Lst
        PROVE  /\ get_uid_list(list) \in Seq(Uid) /\ Sorted(get_uid_list(list))
               /\ Range(get_uid_list(list)) = IF list = None THEN {} ELSE UidsOf(list)
    <2>a. CASE list = None
      <3>1. <<>> \in Seq(Uid) /\ Sorted(<<>>) /\ Range(<<>>) = {}
        BY DEF Sorted, Range
      <3> QED
        BY <2>a, <3>1, Zenon DEF get_uid_list
    <2>b. CASE list # None /\ list \in Seq(Value)
      <3> DEFINE n == Len(list)
                 Of(k) == {Packages[a] : a \in {list[j] : j \in 1..k} \cap DOMAIN Packages}
      <3>1. /\ n \in Nat /\ 0 \in 0..n /\ n \in 0..n
            /\ \A k \in 1..n : k \in 0..n /\ k - 1 \in 0..n /\ k # 0 /\ \A j : j \in 1..k <=> (j = k \/ j \in 1..(k - 1))
            /\ \A k \in 0..n : k = 0 \/ (k # 0 /\ k \in 1..n)
        OBVIOUS
      <3> DEFINE Good(k, a) == Sorted(a) /\ Range(a) = Of(k)
                 D == [k \in 0..n |-> {a \in Seq(Uid) : Good(k, a)}]
                 Op(a, k) == AddUid(a, list[k])
                 H == [x \in (1..n) \X Seq(Uid) |-> Op(x[2], x[1])]
                 Is(g) == g = [k \in 0..n |-> IF k = 0 THEN <<>> ELSE Op(g[k - 1], k)]
                 F == CHOOSE g : Is(g)
      <3>2. <<>> \in Seq(Uid) /\ Good(0, <<>>)
        <4>1. <<>> \in Seq(Uid) /\ Sorted(<<>>) /\ Range(<<>>) = {} /\ \A j \in 1..0 : FALSE
          BY DEF Sorted, Range
        <4>2. Of(0) = {}
          BY <4>1, Zenon
        <4> HIDE DEF Of
        <4> QED
          BY <4>1, <4>2, Zenon
      <3>3. ASSUME NEW k \in 1..n, NEW a \in Seq(Uid), Good(k - 1, a) PROVE Op(a, k) \in Seq(Uid) /\ Good(k, Op(a, k))
        <4> DEFINE b == AddUid(a, list[k])
        <4>1. b \in Seq(Uid) /\ Sorted(b) /\ Range(b) = Range(a) \cup (IF list[k] \in DOMAIN Packages THEN {Packages[list[k]]} ELSE {})
          <5>1. Sorted(a)
            BY <3>3, Zenon
          <5> QED
            BY <5>1, <1>a, Zenon
        <4> HIDE DEF b
        <4>2. ASSUME NEW x PROVE x \in Range(b) <=> x \in Of(k)
          <5>1. x \in Of(k - 1) <=> \E j \in 1..(k - 1) : list[j] \in DOMAIN Packages /\ x = Packages[list[j]]
            BY Zenon
          <5>2. x \in Of(k) <=> \E j \in 1..k : list[j] \in DOMAIN Packages /\ x = Packages[list[j]]
            BY Zenon
          <5>3. x \in Range(b) <=> (x \in Of(k - 1) \/ (list[k] \in DOMAIN Packages /\ x = Packages[list[k]]))
            <6> HIDE DEF Of
            <6> QED
              BY <3>3, <4>1, Zenon
          <5> HIDE DEF Of
          <5>4. \A j : j \in 1..k <=> (j = k \/ j \in 1..(k - 1))
            BY <3>1, Zenon
          <5> QED
            BY <5>1, <5>2, <5>3, <5>4, Zenon
        <4>3. Range(b) = Of(k)
          <5> HIDE DEF Of
          <5> QED
            BY <4>2, Zenon
        <4> HIDE DEF Of
        <4> QED
          BY <4>1, <4>3, Zenon DEF b
      <3> HIDE DEF Good, Op
      <3>4. <<>> \in D[0] /\ \A k \in 1..n : \A a \in D[k - 1] : a \in Seq(Uid) /\ Op(a, k) \in D[k]
        BY <3>1, <3>2, <3>3, Zenon
      <3> HIDE DEF D
      <3>5. PICK f : Iterates(f, n, <<>>, H) /\ \A k \in 0..n : f[k] \in D[k]
        <4>1. \A k \in 1..n : \A a \in D[k - 1] : H[<<k, a>>] \in D[k]
          BY <3>4, Zenon
        <4> HIDE DEF H
        <4> QED
          BY <3>1, <3>4, <4>1, FoldExists, Zenon
      <3>6. Is(f)
        <4>1. \A k \in 0..n : k = 0 \/ (k # 0 /\ H[<<k, f[k - 1]>>] = Op(f[k - 1], k))
          BY <3>1, <3>4, <3>5, Zenon
        <4> HIDE DEF H
        <4> QED
          BY <3>5, <4>1, Zenon DEF Iterates
      <3>7. Is(F)
        <4> HIDE DEF Is
        <4> QED
          BY <3>6, Zenon
      <3>8. get_uid_list(list) = F[n]
        BY <2>b, Zenon DEF get_uid_list, FoldLeft, Op
      <3> HIDE DEF F, H
      <3>9. F[0] = <<>> /\ \A k \in 1..n : F[k] = Op(F[k - 1], k)
        BY <3>1, <3>7, Zenon
      <3>10. F[n] \in D[n]
        <4>1. F[0] \in D[0] /\ \A k \in 1..n : F[k - 1] \in D[k - 1] => F[k] \in D[k]
          BY <3>4, <3>9, Zenon
        <4> QED
          BY <3>1, <4>1, FoldStays, Zenon
      <3>11. F[n] \in Seq(Uid) /\ Good(n, F[n])
        BY <3>1, <3>10, Zenon DEF D
      <3>12. Of(n) = UidsOf(list)
        <4>1. DOMAIN list = 1..n
          BY <2>b
        <4> QED
          BY <4>1, Zenon DEF UidsOf, Range
      <3> HIDE DEF Of
      <3> QED
        BY <2>b, <3>8, <3>11, <3>12, Zenon DEF Good
    <2> QED
      BY <2>a, <2>b, Zenon DEF Lst
  \* One more element in a list.
  <1>c. ASSUME NEW S, NEW s \in Seq(S), NEW e \in S
        PROVE  Append(s, e) \in Seq(S) /\ Range(Append(s, e)) = Range(s) \cup {e}
    <2>1. Append(s, e) = s \o <<e>> /\ <<e>> \in Seq(S) /\ Append(s, e) \in Seq(S)
      OBVIOUS
    <2>2. Range(<<e>>) = {e}
      BY DEF Range
    <2>3. Range(s \o <<e>>) = Range(s) \cup Range(<<e>>)
      BY <2>1, JoinIs, Zenon
    <2> QED
      BY <2>1, <2>2, <2>3, Zenon
  \* set_users: the ranges between the uids of a sorted list, from the first uid to
  \* the last, leave out the uids, and the last one after a uid that is next to it.
  <1>d. ASSUME NEW uids \in Seq(Uid), Sorted(uids)
        PROVE  /\ ExcludedRanges(uids) \in Seq(SUBSET (0..MaxUid))
               /\ \A x : (\E R \in Range(ExcludedRanges(uids)) : x \in R)
                          <=> (x \in 0..MaxUid /\ x \notin Range(uids) /\ ~(x = MaxUid /\ MaxUid - 1 \in Range(uids)))
    <2> USE <1>d
    <2> DEFINE n == Len(uids)
               base == [start |-> 0, ranges |-> <<>>]
               acc == FoldLeft(NextRange, base, uids)
    <2>0. /\ MaxUid \in Nat \ {0} /\ \A k \in 1..n : uids[k] \in 1..MaxUid
          /\ \A i, j \in 1..n : i <= j => uids[i] <= uids[j]
      BY WgQuickAndroidAssumption DEF Uid, Sorted
    <2>1. /\ n \in Nat /\ 0 \in 0..n /\ n \in 0..n
          /\ \A k \in 1..n : k \in 0..n /\ k - 1 \in 0..n /\ k # 0 /\ \A j : j \in 1..k <=> (j = k \/ j \in 1..(k - 1))
          /\ \A k \in 0..n : k = 0 \/ (k # 0 /\ k \in 1..n)
      OBVIOUS
    <2> HIDE DEF n
    <2> DEFINE Good(k, a) == /\ a.start = IF k = 0 THEN 0 ELSE uids[k] + 1
                             /\ \A x : (\E R \in Range(a.ranges) : x \in R)
                                        <=> (x \in 0..(a.start - 1) /\ ~ \E j \in 1..k : x = uids[j])
               D == [k \in 0..n |-> {a \in Accs : Good(k, a)}]
               Op(a, k) == NextRange(a, uids[k])
               H == [x \in (1..n) \X Accs |-> Op(x[2], x[1])]
               Is(g) == g = [k \in 0..n |-> IF k = 0 THEN base ELSE Op(g[k - 1], k)]
               F == CHOOSE g : Is(g)
    <2>2. base \in Accs /\ Good(0, base)
      <3>1. base \in Accs /\ base.start = 0 /\ base.ranges = <<>>
        BY <2>0 DEF Accs
      <3>2. Range(<<>>) = {}
        BY DEF Range
      <3>3. \A x : x \notin 0..(0 - 1)
        OBVIOUS
      <3> HIDE DEF base
      <3> QED
        BY <3>1, <3>2, <3>3, Zenon
    <2>3. ASSUME NEW k \in 1..n, NEW a \in Accs, Good(k - 1, a) PROVE Op(a, k) \in Accs /\ Good(k, Op(a, k))
      <3> DEFINE u == uids[k]
                 s == a.start
                 new == s..(u - 1)
                 b == NextRange(a, u)
      <3>1. /\ u \in 1..MaxUid /\ s \in 0..(MaxUid + 1) /\ a.ranges \in Seq(SUBSET (0..MaxUid))
            /\ k \in Nat /\ k >= 1 /\ k - 1 \in Nat
        BY <2>0, <2>1 DEF Accs
      <3>2. s = IF k - 1 = 0 THEN 0 ELSE uids[k - 1] + 1
        BY <2>3, Zenon
      <3>3. \A x : (\E R \in Range(a.ranges) : x \in R) <=> (x \in 0..(s - 1) /\ ~ \E j \in 1..(k - 1) : x = uids[j])
        BY <2>3, Zenon
      <3>4. /\ s <= u + 1
            /\ \A j \in 1..(k - 1) : uids[j] < s
            /\ s = u + 1 => \E j \in 1..(k - 1) : uids[j] = u
        <4>1. CASE k - 1 = 0
          <5>1. s = 0 /\ \A j \in 1..(k - 1) : FALSE
            BY <3>1, <3>2, <4>1
          <5> HIDE DEF s
          <5> QED
            BY <3>1, <5>1
        <4>2. CASE k - 1 # 0
          <5>1. s = uids[k - 1] + 1
            BY <3>2, <4>2, Zenon
          <5>2. k - 1 \in 1..n /\ k - 1 <= k /\ k - 1 \in 1..(k - 1) /\ \A j \in 1..(k - 1) : j \in 1..n /\ j <= k - 1
            BY <2>1, <3>1, <4>2
          <5>3. uids[k - 1] <= u /\ uids[k - 1] \in Nat /\ \A j \in 1..(k - 1) : uids[j] <= uids[k - 1] /\ uids[j] \in Nat
            <6>1. \A j \in 1..n : uids[j] \in Nat
              BY <2>0
            <6> QED
              BY <2>0, <5>2, <6>1, Zenon
          <5>4. s <= u + 1 /\ (s = u + 1 => uids[k - 1] = u)
            BY <3>1, <5>1, <5>3
          <5>5. \A j \in 1..(k - 1) : uids[j] < s
            BY <5>1, <5>3
          <5> QED
            BY <5>2, <5>4, <5>5, Zenon
        <4> QED
          BY <4>1, <4>2, Zenon
      <3>5. b = [start |-> u + 1, ranges |-> IF s > u - 1 THEN a.ranges ELSE Append(a.ranges, new)]
        BY Zenon DEF NextRange
      <3>6. new \in SUBSET (0..MaxUid) /\ u + 1 \in 0..(MaxUid + 1)
        BY <2>0, <3>1
      <3>7. Append(a.ranges, new) \in Seq(SUBSET (0..MaxUid)) /\ Range(Append(a.ranges, new)) = Range(a.ranges) \cup {new}
        <4> DEFINE S == SUBSET (0..MaxUid)
        <4>1. a.ranges \in Seq(S) /\ new \in S
          BY <3>1, <3>6, Zenon
        <4> HIDE DEF new, S
        <4>2. Append(a.ranges, new) \in Seq(S) /\ Range(Append(a.ranges, new)) = Range(a.ranges) \cup {new}
          BY <4>1, <1>c
        <4> QED
          BY <4>2, Zenon DEF S
      <3>8. b \in Accs
        <4> DEFINE rs == IF s > u - 1 THEN a.ranges ELSE Append(a.ranges, new)
        <4>1. rs \in Seq(SUBSET (0..MaxUid))
          BY <3>1, <3>7, Zenon
        <4> HIDE DEF rs
        <4> QED
          BY <3>5, <3>6, <4>1 DEF rs, Accs
      <3>9. b.start = u + 1 /\ b.ranges = IF s > u - 1 THEN a.ranges ELSE Append(a.ranges, new)
        BY <3>5
      <3>10. ASSUME NEW x
             PROVE  (\E R \in Range(b.ranges) : x \in R) <=> (x \in 0..((u + 1) - 1) /\ ~ \E j \in 1..k : x = uids[j])
        <4>1. (\E j \in 1..k : x = uids[j]) <=> (x = u \/ \E j \in 1..(k - 1) : x = uids[j])
          BY <2>1, Zenon
        <4> DEFINE old == \E j \in 1..(k - 1) : x = uids[j]
        <4>2. old => (x \in Int /\ x < s)
          <5>1. \A j \in 1..(k - 1) : uids[j] \in Int
            BY <2>0, <2>1
          <5> QED
            BY <3>4, <5>1, Zenon
        <4>3. s = u + 1 /\ x = u => old
          BY <3>4, Zenon
        <4>4. (\E R \in Range(a.ranges) : x \in R) <=> (x \in 0..(s - 1) /\ ~ old)
          BY <3>3, Zenon
        <4>5. (\E j \in 1..k : x = uids[j]) <=> (x = u \/ old)
          BY <4>1, Zenon
        <4> HIDE DEF old, b
        <4>6. CASE s > u - 1
          <5>1. (\E R \in Range(b.ranges) : x \in R) <=> (x \in 0..(s - 1) /\ ~ old)
            BY <3>9, <4>4, <4>6, Zenon
          <5>2. (x \in 0..(s - 1) /\ ~ old) <=> (x \in 0..((u + 1) - 1) /\ x # u /\ ~ old)
            <6> HIDE DEF s, u
            <6> QED
              BY <3>1, <3>4, <4>3, <4>6
          <5> QED
            BY <4>5, <5>1, <5>2, Zenon
        <4>7. CASE ~(s > u - 1)
          <5>1. (\E R \in Range(b.ranges) : x \in R) <=> (x \in new \/ (x \in 0..(s - 1) /\ ~ old))
            <6> HIDE DEF new
            <6>1. b.ranges = Append(a.ranges, new)
              BY <3>9, <4>7, Zenon
            <6> QED
              BY <3>7, <4>4, <6>1, Zenon
          <5>2. (x \in new \/ (x \in 0..(s - 1) /\ ~ old)) <=> (x \in 0..((u + 1) - 1) /\ x # u /\ ~ old)
            <6>1. /\ u \in Nat /\ s \in Nat /\ s <= u - 1
              BY <3>1, <4>7
            <6> HIDE DEF s, u
            <6> QED
              BY <4>2, <6>1
          <5> QED
            BY <4>5, <5>1, <5>2, Zenon
        <4> QED
          BY <4>6, <4>7, Zenon
      <3> HIDE DEF b
      <3>11. b.start = IF k = 0 THEN 0 ELSE u + 1
        BY <2>1, <3>9, Zenon
      <3> QED
        BY <3>8, <3>9, <3>10, <3>11, Zenon DEF b
    <2> HIDE DEF Good, Op
    <2>4. base \in D[0] /\ \A k \in 1..n : \A a \in D[k - 1] : a \in Accs /\ Op(a, k) \in D[k]
      BY <2>1, <2>2, <2>3, Zenon
    <2> HIDE DEF D
    <2>5. PICK f : Iterates(f, n, base, H) /\ \A k \in 0..n : f[k] \in D[k]
      <3>1. \A k \in 1..n : \A a \in D[k - 1] : H[<<k, a>>] \in D[k]
        BY <2>4, Zenon
      <3> HIDE DEF H
      <3> QED
        BY <2>1, <2>4, <3>1, FoldExists, Zenon
    <2>6. Is(f)
      <3>1. \A k \in 0..n : k = 0 \/ (k # 0 /\ H[<<k, f[k - 1]>>] = Op(f[k - 1], k))
        BY <2>1, <2>4, <2>5, Zenon
      <3> HIDE DEF H
      <3> QED
        BY <2>5, <3>1, Zenon DEF Iterates
    <2>7. Is(F)
      <3> HIDE DEF Is
      <3> QED
        BY <2>6, Zenon
    <2>8. acc = F[n]
      BY Zenon DEF NextRange, FoldLeft, Op, n
    <2> HIDE DEF F, H
    <2>9. F[0] = base /\ \A k \in 1..n : F[k] = Op(F[k - 1], k)
      BY <2>1, <2>7, Zenon
    <2>10. F[n] \in D[n]
      <3>1. F[0] \in D[0] /\ \A k \in 1..n : F[k - 1] \in D[k - 1] => F[k] \in D[k]
        BY <2>4, <2>9, Zenon
      <3> QED
        BY <2>1, <3>1, FoldStays, Zenon
    <2>11. F[n] \in Accs /\ Good(n, F[n])
      BY <2>1, <2>10, Zenon DEF D
    <2>12. /\ acc \in Accs
           /\ acc.start = IF n = 0 THEN 0 ELSE uids[n] + 1
           /\ \A x : (\E R \in Range(acc.ranges) : x \in R) <=> (x \in 0..(acc.start - 1) /\ ~ \E j \in 1..n : x = uids[j])
      BY <2>8, <2>11, Zenon DEF Good
    <2>13. ExcludedRanges(uids) = IF acc.start < MaxUid THEN Append(acc.ranges, acc.start..MaxUid) ELSE acc.ranges
      BY Zenon DEF ExcludedRanges
    <2>14. \A x : x \in Range(uids) <=> \E j \in 1..n : x = uids[j]
      <3>1. DOMAIN uids = 1..n
        BY DEF n
      <3> QED
        BY <3>1, Zenon DEF Range
    <2> HIDE DEF acc
    <2> DEFINE s == acc.start
               last == s..MaxUid
    <2>15. s \in Nat /\ acc.ranges \in Seq(SUBSET (0..MaxUid)) /\ s <= MaxUid + 1
      BY <2>0, <2>12 DEF Accs
    <2>16. (\A x \in Range(uids) : x \in Nat /\ x < s /\ x <= MaxUid) /\ (s = 0 \/ s - 1 \in Range(uids))
      <3>1. CASE n = 0
        <4>1. \A j \in 1..n : FALSE
          BY <3>1
        <4> QED
          BY <2>12, <2>14, <3>1, <4>1, Zenon
      <3>2. CASE n # 0
        <4>1. n \in 1..n /\ \A j \in 1..n : j <= n
          BY <2>1, <3>2
        <4>2. s = uids[n] + 1
          BY <2>12, <3>2, Zenon
        <4>3. uids[n] \in Nat /\ \A j \in 1..n : uids[j] \in Nat /\ uids[j] <= uids[n] /\ uids[j] <= MaxUid
          BY <2>0, <4>1
        <4>4. \A j \in 1..n : uids[j] < s
          BY <4>2, <4>3
        <4>5. s - 1 = uids[n]
          BY <4>2, <4>3
        <4>6. s - 1 \in Range(uids)
          BY <2>14, <4>1, <4>5, Zenon
        <4>7. \A x \in Range(uids) : x \in Nat /\ x < s /\ x <= MaxUid
          BY <2>14, <4>3, <4>4, Zenon
        <4> QED
          BY <4>6, <4>7, Zenon
      <3> QED
        BY <3>1, <3>2, Zenon
    <2>17. \A x : (\E R \in Range(acc.ranges) : x \in R) <=> (x \in 0..(s - 1) /\ x \notin Range(uids))
      <3> SUFFICES ASSUME NEW x PROVE (\E R \in Range(acc.ranges) : x \in R) <=> (x \in 0..(s - 1) /\ x \notin Range(uids))
        BY Zenon
      <3>1. (\E R \in Range(acc.ranges) : x \in R) <=> (x \in 0..(s - 1) /\ ~ \E j \in 1..n : x = uids[j])
        BY <2>12, Zenon
      <3>2. x \in Range(uids) <=> \E j \in 1..n : x = uids[j]
        BY <2>14, Zenon
      <3> QED
        BY <3>1, <3>2, Zenon
    <2> HIDE DEF s
    <2>18. CASE s < MaxUid
      <3>1. last \in SUBSET (0..MaxUid)
        BY <2>0, <2>15
      <3>2. ExcludedRanges(uids) = Append(acc.ranges, last)
        BY <2>13, <2>18, Zenon DEF s
      <3>3. /\ Append(acc.ranges, last) \in Seq(SUBSET (0..MaxUid))
            /\ Range(Append(acc.ranges, last)) = Range(acc.ranges) \cup {last}
        <4> DEFINE S == SUBSET (0..MaxUid)
        <4>1. acc.ranges \in Seq(S) /\ last \in S
          BY <2>15, <3>1, Zenon
        <4> HIDE DEF last, S
        <4>2. Append(acc.ranges, last) \in Seq(S) /\ Range(Append(acc.ranges, last)) = Range(acc.ranges) \cup {last}
          BY <4>1, <1>c
        <4> QED
          BY <4>2, Zenon DEF S
      <3>4. ASSUME NEW x
            PROVE  (\E R \in Range(ExcludedRanges(uids)) : x \in R)
                      <=> (x \in 0..MaxUid /\ x \notin Range(uids) /\ ~(x = MaxUid /\ MaxUid - 1 \in Range(uids)))
        <4>1. (\E R \in Range(ExcludedRanges(uids)) : x \in R) <=> (x \in last \/ (x \in 0..(s - 1) /\ x \notin Range(uids)))
          <5> HIDE DEF last
          <5>1. (\E R \in Range(acc.ranges) : x \in R) <=> (x \in 0..(s - 1) /\ x \notin Range(uids))
            BY <2>17, Zenon
          <5> QED
            BY <3>2, <3>3, <5>1, Zenon
        <4>2. MaxUid - 1 \notin Range(uids)
          BY <2>0, <2>15, <2>16, <2>18
        <4>3. (x \in last \/ (x \in 0..(s - 1) /\ x \notin Range(uids))) <=> (x \in 0..MaxUid /\ x \notin Range(uids))
          BY <2>0, <2>15, <2>16, <2>18
        <4> HIDE DEF last
        <4> QED
          BY <4>1, <4>2, <4>3, Zenon
      <3> QED
        BY <3>2, <3>3, <3>4, Zenon
    <2>19. CASE ~(s < MaxUid)
      <3>1. ExcludedRanges(uids) = acc.ranges
        BY <2>13, <2>19, Zenon DEF s
      <3>2. ASSUME NEW x
            PROVE  (x \in 0..(s - 1) /\ x \notin Range(uids))
                      <=> (x \in 0..MaxUid /\ x \notin Range(uids) /\ ~(x = MaxUid /\ MaxUid - 1 \in Range(uids)))
        <4>1. (s = MaxUid /\ MaxUid - 1 \in Range(uids)) \/ (s = MaxUid + 1 /\ MaxUid \in Range(uids))
          BY <2>0, <2>15, <2>16, <2>19
        <4>2. CASE s = MaxUid /\ MaxUid - 1 \in Range(uids)
          BY <2>0, <4>2
        <4>3. CASE s = MaxUid + 1 /\ MaxUid \in Range(uids)
          BY <2>0, <4>3
        <4> QED
          BY <4>1, <4>2, <4>3, Zenon
      <3> QED
        BY <2>15, <2>17, <3>1, <3>2, Zenon
    <2> QED
      BY <2>18, <2>19, Zenon
  <1>e. ASSUME NEW T, NEW S, NEW U \in SUBSET (0..MaxUid), S = T \cup {<<"users add", U>>}, NEW u
        PROVE  Added(u, S) <=> (Added(u, T) \/ u \in U)
    <2> USE <1>e
    <2>1. \A V : <<"users add", V>> = <<"users add", U>> <=> V = U
      BY Zenon
    <2> QED
      BY <2>1, Zenon DEF Added
  \* set_users: the commands add the uids of all the ranges, Batch ranges at a time.
  <1>f. ASSUME NEW ranges \in Seq(SUBSET (0..MaxUid))
        PROVE  /\ Batches(ranges) \in Seq(UsersCmds)
               /\ \A u : Added(u, Range(Batches(ranges))) <=> \E R \in Range(ranges) : u \in R
    <2> DEFINE n == Len(ranges)
               base == [args |-> 0, users |-> {}, cmds |-> <<>>]
               acc == FoldLeft(AddRange, base, ranges)
    <2>0. Batch \in Nat \ {0} /\ \A k \in 1..n : ranges[k] \in SUBSET (0..MaxUid)
      BY WgQuickAndroidAssumption
    <2>1. /\ n \in Nat /\ 0 \in 0..n /\ n \in 0..n
          /\ \A k \in 1..n : k \in 0..n /\ k - 1 \in 0..n /\ k # 0 /\ \A j : j \in 1..k <=> (j = k \/ j \in 1..(k - 1))
          /\ \A k \in 0..n : k = 0 \/ (k # 0 /\ k \in 1..n)
      OBVIOUS
    <2> HIDE DEF n
    <2> DEFINE Good(k, a) == /\ a.args = 0 => a.users = {}
                             /\ \A u : (u \in a.users \/ Added(u, Range(a.cmds))) <=> \E j \in 1..k : u \in ranges[j]
               D == [k \in 0..n |-> {a \in Groups : Good(k, a)}]
               Op(a, k) == AddRange(a, ranges[k])
               H == [x \in (1..n) \X Groups |-> Op(x[2], x[1])]
               Is(g) == g = [k \in 0..n |-> IF k = 0 THEN base ELSE Op(g[k - 1], k)]
               F == CHOOSE g : Is(g)
    <2>2. base \in Groups /\ Good(0, base)
      <3>1. base \in Groups /\ base.users = {} /\ base.cmds = <<>>
        BY <2>0 DEF Groups
      <3>2. Range(<<>>) = {} /\ \A j \in 1..0 : FALSE
        BY DEF Range
      <3>3. \A u : ~ Added(u, {})
        BY Zenon DEF Added
      <3> HIDE DEF base
      <3> QED
        BY <3>1, <3>2, <3>3, Zenon
    <2>3. ASSUME NEW k \in 1..n, NEW a \in Groups, Good(k - 1, a) PROVE Op(a, k) \in Groups /\ Good(k, Op(a, k))
      <3> DEFINE r == ranges[k]
                 U == a.users \cup r
                 b == AddRange(a, r)
                 c == <<"users add", U>>
      <3>1. a.args \in 0..(Batch - 1) /\ U \in SUBSET (0..MaxUid) /\ a.cmds \in Seq(UsersCmds) /\ r \in SUBSET (0..MaxUid)
        BY <2>0 DEF Groups
      <3>2. c \in UsersCmds
        BY <3>1, Zenon DEF UsersCmds
      <3>3. \A u : (u \in a.users \/ Added(u, Range(a.cmds))) <=> \E j \in 1..(k - 1) : u \in ranges[j]
        BY <2>3, Zenon
      <3>4. b = IF a.args + 1 = Batch THEN [args |-> 0, users |-> {}, cmds |-> Append(a.cmds, c)]
                ELSE [args |-> a.args + 1, users |-> U, cmds |-> a.cmds]
        BY Zenon DEF AddRange
      <3>5. ASSUME NEW u PROVE (\E j \in 1..k : u \in ranges[j]) <=> (u \in U \/ Added(u, Range(a.cmds)))
        <4>1. (\E j \in 1..k : u \in ranges[j]) <=> (u \in r \/ \E j \in 1..(k - 1) : u \in ranges[j])
          BY <2>1, Zenon
        <4> QED
          BY <3>3, <4>1, Zenon
      <3> HIDE DEF U, c, b
      <3>6. CASE a.args + 1 = Batch
        <4>1. Append(a.cmds, c) \in Seq(UsersCmds) /\ Range(Append(a.cmds, c)) = Range(a.cmds) \cup {c}
          BY <3>1, <3>2, <1>c
        <4>2. b.args = 0 /\ b.users = {} /\ b.cmds = Append(a.cmds, c) /\ b \in Groups
          BY <2>0, <3>4, <3>6, <4>1 DEF Groups
        <4>3. \A u : Added(u, Range(b.cmds)) <=> (Added(u, Range(a.cmds)) \/ u \in U)
          <5>1. Range(b.cmds) = Range(a.cmds) \cup {<<"users add", U>>}
            BY <4>1, <4>2, Zenon DEF c
          <5> QED
            BY <3>1, <5>1, <1>e, Zenon
        <4> QED
          BY <3>5, <4>2, <4>3, Zenon DEF b
      <3>7. CASE a.args + 1 # Batch
        <4>1. a.args + 1 \in 0..(Batch - 1) /\ a.args + 1 # 0
          BY <2>0, <3>1, <3>7
        <4>2. b.args = a.args + 1 /\ b.users = U /\ b.cmds = a.cmds /\ b \in Groups
          BY <3>1, <3>4, <3>7, <4>1 DEF Groups
        <4> QED
          BY <3>5, <4>1, <4>2, Zenon DEF b
      <3> QED
        BY <3>6, <3>7, Zenon
    <2> HIDE DEF Good, Op
    <2>4. base \in D[0] /\ \A k \in 1..n : \A a \in D[k - 1] : a \in Groups /\ Op(a, k) \in D[k]
      BY <2>1, <2>2, <2>3, Zenon
    <2> HIDE DEF D
    <2>5. PICK f : Iterates(f, n, base, H) /\ \A k \in 0..n : f[k] \in D[k]
      <3>1. \A k \in 1..n : \A a \in D[k - 1] : H[<<k, a>>] \in D[k]
        BY <2>4, Zenon
      <3> HIDE DEF H
      <3> QED
        BY <2>1, <2>4, <3>1, FoldExists, Zenon
    <2>6. Is(f)
      <3>1. \A k \in 0..n : k = 0 \/ (k # 0 /\ H[<<k, f[k - 1]>>] = Op(f[k - 1], k))
        BY <2>1, <2>4, <2>5, Zenon
      <3> HIDE DEF H
      <3> QED
        BY <2>5, <3>1, Zenon DEF Iterates
    <2>7. Is(F)
      <3> HIDE DEF Is
      <3> QED
        BY <2>6, Zenon
    <2>8. acc = F[n]
      BY Zenon DEF AddRange, FoldLeft, Op, n
    <2> HIDE DEF F, H
    <2>9. F[0] = base /\ \A k \in 1..n : F[k] = Op(F[k - 1], k)
      BY <2>1, <2>7, Zenon
    <2>10. F[n] \in D[n]
      <3>1. F[0] \in D[0] /\ \A k \in 1..n : F[k - 1] \in D[k - 1] => F[k] \in D[k]
        BY <2>4, <2>9, Zenon
      <3> QED
        BY <2>1, <3>1, FoldStays, Zenon
    <2>11. F[n] \in Groups /\ Good(n, F[n])
      BY <2>1, <2>10, Zenon DEF D
    <2>12. /\ acc \in Groups
           /\ acc.args = 0 => acc.users = {}
           /\ \A u : (u \in acc.users \/ Added(u, Range(acc.cmds))) <=> \E j \in 1..n : u \in ranges[j]
      BY <2>8, <2>11, Zenon DEF Good
    <2>13. Batches(ranges) = IF acc.args = 0 THEN acc.cmds ELSE Append(acc.cmds, <<"users add", acc.users>>)
      BY Zenon DEF Batches
    <2>14. \A u : (\E R \in Range(ranges) : u \in R) <=> \E j \in 1..n : u \in ranges[j]
      <3>1. DOMAIN ranges = 1..n
        BY DEF n
      <3> QED
        BY <3>1, Zenon DEF Range
    <2>15. acc.users \in SUBSET (0..MaxUid) /\ acc.cmds \in Seq(UsersCmds)
      BY <2>12 DEF Groups
    <2> HIDE DEF acc
    <2>16. CASE acc.args = 0
      BY <2>12, <2>13, <2>14, <2>15, <2>16, Zenon
    <2>17. CASE acc.args # 0
      <3> DEFINE c == <<"users add", acc.users>>
      <3>1. c \in UsersCmds
        BY <2>15, Zenon DEF UsersCmds
      <3> HIDE DEF c
      <3>2. Append(acc.cmds, c) \in Seq(UsersCmds) /\ Range(Append(acc.cmds, c)) = Range(acc.cmds) \cup {c}
        BY <2>15, <3>1, <1>c
      <3>3. Batches(ranges) = Append(acc.cmds, c)
        BY <2>13, <2>17, Zenon DEF c
      <3>4. \A u : Added(u, Range(Batches(ranges))) <=> (Added(u, Range(acc.cmds)) \/ u \in acc.users)
        BY <2>15, <3>2, <3>3, <1>e, Zenon DEF c
      <3> QED
        BY <2>12, <2>14, <3>2, <3>3, <3>4, Zenon
    <2> QED
      BY <2>16, <2>17, Zenon
  <1> DEFINE list == IF o.included = None THEN o.excluded ELSE o.included
             uids == get_uid_list(list)
             open == IF list = None THEN <<>> ELSE << <<"fopen packages.list">> >>
             ranges == IF o.included = None THEN ExcludedRanges(uids) ELSE [k \in DOMAIN uids |-> {uids[k]}]
             cmds == Batches(ranges)
             t == set_users(o.excluded, o.included)
  <1>1. t = IF o.excluded # None /\ o.included # None THEN << <<"exit">> >> ELSE open \o cmds
    BY Zenon DEF set_users
  <1>2. list \in Lst
    BY Zenon DEF Options
  <1>3. uids \in Seq(Uid) /\ Sorted(uids) /\ Range(uids) = IF list = None THEN {} ELSE UidsOf(list)
    BY <1>2, <1>b, Zenon
  <1> HIDE DEF uids
  <1>4. ranges \in Seq(SUBSET (0..MaxUid)) /\ (o.excluded = None \/ o.included = None =>
            \A u \in 0..MaxUid : u \in Routed(o) <=> \E R \in Range(ranges) : u \in R)
    <2>1. CASE o.included = None
      <3>1. ranges = ExcludedRanges(uids)
        BY <2>1, Zenon
      <3>2. UidsOut(o) = Range(uids)
        BY <1>3, <2>1, Zenon DEF UidsOut
      <3> HIDE DEF ranges
      <3>3. \A u \in 0..MaxUid : u \in Routed(o) <=>
               (u \in 0..MaxUid /\ u \notin Range(uids) /\ ~(u = MaxUid /\ MaxUid - 1 \in Range(uids)))
        BY <2>1, <3>2, Zenon DEF Routed
      <3>4. /\ ranges \in Seq(SUBSET (0..MaxUid))
            /\ \A x : (\E R \in Range(ranges) : x \in R)
                       <=> (x \in 0..MaxUid /\ x \notin Range(uids) /\ ~(x = MaxUid /\ MaxUid - 1 \in Range(uids)))
        BY <1>3, <3>1, <1>d, Zenon
      <3> QED
        BY <3>3, <3>4, Zenon
    <2>2. CASE o.included # None
      <3>1. ranges = [k \in DOMAIN uids |-> {uids[k]}]
        BY <2>2, Zenon
      <3>2. DOMAIN uids = 1..Len(uids) /\ Len(uids) \in Nat /\ \A k \in DOMAIN uids : {uids[k]} \in SUBSET (0..MaxUid)
        BY <1>3, WgQuickAndroidAssumption DEF Uid
      <3> HIDE DEF ranges
      <3>3. ranges \in Seq(SUBSET (0..MaxUid))
        <4> DEFINE S == SUBSET (0..MaxUid)
        <4>1. DOMAIN ranges = 1..Len(uids) /\ \A k \in 1..Len(uids) : ranges[k] \in S
          BY <3>1, <3>2, Zenon
        <4>2. ranges = [k \in 1..Len(uids) |-> ranges[k]]
          BY <3>1, <3>2, Zenon
        <4> HIDE DEF S
        <4>3. ranges \in [1..Len(uids) -> S]
          BY <4>1, <4>2, Zenon
        <4>4. ranges \in Seq(S)
          BY <3>2, <4>3
        <4> QED
          BY <4>4, Zenon DEF S
      <3>4. \A u : (\E R \in Range(ranges) : u \in R) <=> u \in Range(uids)
        BY <3>1, Zenon DEF Range
      <3>5. Routed(o) = Range(uids)
        BY <1>3, <2>2, Zenon DEF Routed
      <3> QED
        BY <3>3, <3>4, <3>5, Zenon
    <2> QED
      BY <2>1, <2>2, Zenon
  <1> HIDE DEF ranges
  <1>5. cmds \in Seq(UsersCmds) /\ \A u : Added(u, Range(cmds)) <=> \E R \in Range(ranges) : u \in R
    BY <1>4, <1>f, Zenon
  <1> HIDE DEF cmds
  <1>6. cmds \in Seq(Cmd) /\ \A c \in Range(cmds) : c[1] = "users add"
    <2>1. UsersCmds \subseteq Cmd
      BY Zenon DEF UsersCmds, Cmd
    <2>2. ASSUME NEW c \in UsersCmds PROVE c[1] = "users add"
      <3>1. PICK u : c = <<"users add", u>>
        BY Zenon DEF UsersCmds
      <3> QED
        BY <3>1, Zenon
    <2>3. \A c \in Range(cmds) : c \in UsersCmds
      BY <1>5 DEF Range
    <2>4. cmds \in Seq(Cmd)
      BY <1>5, <2>1
    <2> QED
      BY <2>2, <2>3, <2>4, Zenon
  <1>7. <<"fopen packages.list">> \in Cmd /\ <<"exit">> \in Cmd
    BY Zenon DEF Cmd, Words
  <1>8. open \in Seq(Cmd) /\ \A c \in Range(open) : c = <<"fopen packages.list">>
    <2> DEFINE c == <<"fopen packages.list">>
    <2>1. c \in Cmd
      BY <1>7, Zenon
    <2> HIDE DEF c
    <2>2. <<>> \in Seq(Cmd) /\ <<c>> \in Seq(Cmd) /\ Range(<<>>) = {} /\ Range(<<c>>) = {c}
      BY <2>1, OneIs, Zenon
    <2> QED
      BY <2>2, Zenon DEF c
  <1> HIDE DEF open, t
  <1>9. CASE o.excluded # None /\ o.included # None
    <2>1. t = << <<"exit">> >>
      BY <1>1, <1>9, Zenon
    <2>2. t \in Seq(Cmd) /\ Range(t) = {<<"exit">>}
      <3> DEFINE c == <<"exit">>
      <3>1. c \in Cmd /\ t = <<c>>
        BY <1>7, <2>1, Zenon
      <3> HIDE DEF c
      <3>2. t \in Seq(Cmd) /\ Range(t) = {c}
        BY <3>1, OneIs, Zenon
      <3> QED
        BY <3>2, Zenon DEF c
    <2>3. <<"exit">>[1] = "exit"
      OBVIOUS
    <2> QED
      BY <2>2, <2>3, Zenon DEF t
  <1>10. CASE o.excluded = None \/ o.included = None
    <2>1. t = open \o cmds
      BY <1>1, <1>10, Zenon
    <2>2. t \in Seq(Cmd) /\ Range(t) = Range(open) \cup Range(cmds)
      <3>1. open \in Seq(Cmd) /\ cmds \in Seq(Cmd)
        BY <1>6, <1>8, Zenon
      <3>2. open \o cmds \in Seq(Cmd) /\ Range(open \o cmds) = Range(open) \cup Range(cmds)
        BY <3>1, JoinIs
      <3> QED
        BY <2>1, <3>2, Zenon
    <2>3. <<"fopen packages.list">>[1] = "fopen packages.list" /\ \A U : <<"users add", U>> # <<"fopen packages.list">>
      OBVIOUS
    <2>4. \A c \in Range(t) : c[1] \in {"fopen packages.list", "exit", "users add"}
      BY <1>6, <1>8, <2>2, <2>3, Zenon
    <2>5. \A u : Added(u, Range(t)) <=> Added(u, Range(cmds))
      BY <1>8, <2>2, <2>3, Zenon DEF Added
    <2>6. \A u \in 0..MaxUid : u \in Routed(o) <=> Added(u, Range(t))
      BY <1>4, <1>5, <1>10, <2>5, Zenon
    <2> QED
      BY <2>2, <2>4, <2>6, Zenon DEF t
  <1> QED
    BY <1>9, <1>10, Zenon

Front(a, b, c, d, s, u, n, m) == <<a>> \o ((<<b, c, d>> \o s) \o <<u, n, m>>)

FrontParts(a, b, c, d, s, u, n, m) ==
    LET t == Front(a, b, c, d, s, u, n, m)
    IN  /\ t \in Seq(Cmd) /\ Len(s) \in Nat /\ Len(t) = Len(s) + 7
        /\ t[1] = a /\ t[2] = b /\ t[3] = c /\ t[4] = d
        /\ \A k \in 1..Len(s) : t[k + 4] = s[k]
        /\ t[Len(s) + 5] = u /\ t[Len(s) + 6] = n /\ t[Len(s) + 7] = m
        /\ Range(t) = {a, b, c, d, u, n, m} \cup Range(s)

\* determine_listen_port and up_if end with the creation of the network.
LEMMA FrontIs ==
  ASSUME NEW port \in {0, 1}
  PROVE  LET t == << <<"link down">> >> \o up_if(port)
         IN  /\ t \in Seq(Cmd) /\ IsMarking(t)
             /\ {<<"wg set fwmark">>, <<"link up">>} \subseteq Range(t)
             /\ port = 1 => \A f \in Family : \A d \in Chain : <<"rule", f, d>> \in Range(t)
             /\ \A c \in Range(t) : c[1] \in PreNames \cup {"network create", "network interface add"}
  \* The first commands of up_if: three, more of them, three.
  <1>a. ASSUME NEW a \in Cmd, NEW b \in Cmd, NEW c \in Cmd, NEW d \in Cmd, NEW u \in Cmd, NEW n \in Cmd, NEW m \in Cmd,
               NEW s \in Seq(Cmd)
        PROVE  FrontParts(a, b, c, d, s, u, n, m)
    <2> DEFINE p == <<b, c, d>>
               q == <<u, n, m>>
               e == <<a>>
               x == p \o s
               y == x \o q
               t == e \o y
               L == Len(s)
    <2>1. /\ p \in Seq(Cmd) /\ Len(p) = 3 /\ p[1] = b /\ p[2] = c /\ p[3] = d
          /\ q \in Seq(Cmd) /\ Len(q) = 3 /\ q[1] = u /\ q[2] = n /\ q[3] = m
          /\ e \in Seq(Cmd) /\ Len(e) = 1 /\ e[1] = a
      OBVIOUS
    <2>2. Range(p) = {b, c, d} /\ Range(q) = {u, n, m} /\ Range(e) = {a}
      <3>1. DOMAIN p = 1..3 /\ DOMAIN q = 1..3 /\ DOMAIN e = 1..1
        OBVIOUS
      <3>2. (\A k : k \in 1..3 <=> (k = 1 \/ k = 2 \/ k = 3)) /\ (\A k : k \in 1..1 <=> k = 1)
        OBVIOUS
      <3> HIDE DEF p, q, e
      <3> QED
        BY <2>1, <3>1, <3>2, Zenon DEF Range
    <2>a. p \in Seq(Cmd) /\ q \in Seq(Cmd) /\ e \in Seq(Cmd)
      BY <2>1, Zenon
    <2>b. Len(p) = 3 /\ Len(q) = 3 /\ Len(e) = 1
      BY <2>1, Zenon
    <2> HIDE DEF p, q, e
    <2>3. /\ x \in Seq(Cmd) /\ Len(x) = 3 + L /\ L \in Nat
          /\ \A k \in 1..3 : x[k] = p[k]
          /\ \A k \in 1..L : x[k + 3] = s[k]
          /\ Range(x) = Range(p) \cup Range(s)
      <3>1. /\ x \in Seq(Cmd) /\ Len(x) = Len(p) + L /\ L \in Nat
            /\ \A k \in 1..Len(p) : x[k] = p[k]
            /\ \A k \in 1..L : x[k + Len(p)] = s[k]
            /\ Range(x) = Range(p) \cup Range(s)
        BY <2>a, JoinIs
      <3> QED
        BY <2>b, <3>1, Zenon
    <2> HIDE DEF x
    <2>4. /\ y \in Seq(Cmd) /\ Len(y) = (3 + L) + 3
          /\ \A k \in 1..(3 + L) : y[k] = x[k]
          /\ \A k \in 1..3 : y[k + (3 + L)] = q[k]
          /\ Range(y) = Range(x) \cup Range(q)
      <3>1. x \in Seq(Cmd)
        BY <2>3, Zenon
      <3>2. /\ y \in Seq(Cmd) /\ Len(y) = Len(x) + Len(q)
            /\ \A k \in 1..Len(x) : y[k] = x[k]
            /\ \A k \in 1..Len(q) : y[k + Len(x)] = q[k]
            /\ Range(y) = Range(x) \cup Range(q)
        BY <2>a, <3>1, JoinIs
      <3> QED
        BY <2>3, <2>b, <3>2, Zenon
    <2> HIDE DEF y
    <2>5. /\ t \in Seq(Cmd) /\ Len(t) = 1 + ((3 + L) + 3)
          /\ \A k \in 1..1 : t[k] = e[k]
          /\ \A k \in 1..((3 + L) + 3) : t[k + 1] = y[k]
          /\ Range(t) = Range(e) \cup Range(y)
      <3>1. y \in Seq(Cmd)
        BY <2>4, Zenon
      <3>2. /\ t \in Seq(Cmd) /\ Len(t) = Len(e) + Len(y)
            /\ \A k \in 1..Len(e) : t[k] = e[k]
            /\ \A k \in 1..Len(y) : t[k + Len(e)] = y[k]
            /\ Range(t) = Range(e) \cup Range(y)
        BY <2>a, <3>1, JoinIs
      <3> QED
        BY <2>4, <2>b, <3>2, Zenon
    <2> HIDE DEF t, L
    <2>6. Range(t) = {a, b, c, d, u, n, m} \cup Range(s)
      BY <2>2, <2>3, <2>4, <2>5, Zenon
    <2>7. Len(t) = L + 7 /\ t[1] = a /\ t[2] = b /\ t[3] = c /\ t[4] = d
      BY <2>1, <2>3, <2>4, <2>5
    <2>8. t[L + 5] = u /\ t[L + 6] = n /\ t[L + 7] = m
      BY <2>1, <2>3, <2>4, <2>5
    <2>9. ASSUME NEW k \in 1..L PROVE t[k + 4] = s[k]
      BY <2>1, <2>3, <2>4, <2>5
    <2> QED
      BY <2>3, <2>5, <2>6, <2>7, <2>8, <2>9, Zenon DEF t, y, x, p, q, e, L, Front, FrontParts
  <1> DEFINE a == <<"link down">>
             b == <<"wg set fwmark">>
             o4 == <<"rule", "4", "OUTPUT">>
             o6 == <<"rule", "6", "OUTPUT">>
             i4 == <<"rule", "4", "INPUT">>
             i6 == <<"rule", "6", "INPUT">>
             u == <<"link up">>
             n == <<"network create">>
             m == <<"network interface add">>
             s == IF port = 0 THEN <<>> ELSE <<i4, i6>>
             t == Front(a, b, o4, o6, s, u, n, m)
             L == Len(s)
  <1>1. /\ a \in Cmd /\ b \in Cmd /\ u \in Cmd /\ n \in Cmd /\ m \in Cmd
    BY Zenon DEF Cmd, Words
  <1>2. o4 \in Cmd /\ o6 \in Cmd /\ i4 \in Cmd /\ i6 \in Cmd
    <2>1. o4 \in RuleCmds /\ o6 \in RuleCmds /\ i4 \in RuleCmds /\ i6 \in RuleCmds
      BY DEF RuleCmds, Family, Chain
    <2> QED
      BY <2>1, Zenon DEF Cmd
  <1>3. /\ a[1] = "link down" /\ b[1] = "wg set fwmark" /\ u[1] = "link up"
        /\ n[1] = "network create" /\ m[1] = "network interface add"
        /\ o4[1] = "rule" /\ o6[1] = "rule" /\ i4[1] = "rule" /\ i6[1] = "rule"
    OBVIOUS
  <1>4. t = << <<"link down">> >> \o up_if(port)
    BY Zenon DEF up_if, Front
  <1>5. \A f \in Family : \A d \in Chain : <<"rule", f, d>> \in {o4, o6, i4, i6}
    BY Zenon DEF Family, Chain
  <1>6. n = <<"network create">> /\ m = <<"network interface add">> /\ b = <<"wg set fwmark">> /\ u = <<"link up">>
    BY Zenon
  <1>7. /\ a[1] \in PreNames /\ b[1] \in PreNames /\ u[1] \in PreNames
        /\ o4[1] \in PreNames /\ o6[1] \in PreNames /\ i4[1] \in PreNames /\ i6[1] \in PreNames
        /\ b[1] # "link down" /\ u[1] # "link down"
        /\ o4[1] # "link down" /\ o6[1] # "link down" /\ i4[1] # "link down" /\ i6[1] # "link down"
    BY <1>3, Zenon DEF PreNames
  <1> HIDE DEF a, b, u, n, m, o4, o6, i4, i6
  <1>8. /\ s \in Seq(Cmd) /\ L \in Nat
        /\ Range(s) \subseteq {i4, i6} /\ (port = 1 => Range(s) = {i4, i6})
        /\ \A k \in 1..L : s[k] \in Range(s)
    <2>1. \/ s = <<>> /\ port # 1
          \/ s = <<i4, i6>>
      OBVIOUS
    <2> HIDE DEF s
    <2>2. CASE s = <<>> /\ port # 1
      BY <2>2 DEF Range
    <2>3. CASE s = <<i4, i6>>
      <3>1. s \in Seq(Cmd) /\ L = 2 /\ s[1] = i4 /\ s[2] = i6 /\ DOMAIN s = 1..2
        BY <1>2, <2>3
      <3>2. \A k : k \in 1..2 <=> (k = 1 \/ k = 2)
        OBVIOUS
      <3>3. Range(s) = {i4, i6}
        BY <3>1, <3>2, Zenon DEF Range
      <3>4. L \in Nat
        BY <3>1
      <3> QED
        BY <3>1, <3>3, <3>4, <3>2, Zenon
    <2> QED
      BY <2>1, <2>2, <2>3, Zenon
  <1> HIDE DEF s
  <1>9. /\ t \in Seq(Cmd) /\ Len(t) = L + 7
        /\ t[1] = a /\ t[2] = b /\ t[3] = o4 /\ t[4] = o6
        /\ \A k \in 1..L : t[k + 4] = s[k]
        /\ t[L + 5] = u /\ t[L + 6] = n /\ t[L + 7] = m
        /\ Range(t) = {a, b, o4, o6, u, n, m} \cup Range(s)
    <2>1. /\ a \in Cmd /\ b \in Cmd /\ o4 \in Cmd /\ o6 \in Cmd /\ u \in Cmd /\ n \in Cmd /\ m \in Cmd
          /\ s \in Seq(Cmd)
      BY <1>1, <1>2, <1>8, Zenon
    <2>2. FrontParts(a, b, o4, o6, s, u, n, m)
      BY <2>1, <1>a, Zenon
    <2> QED
      BY <2>2, Zenon DEF FrontParts
  <1> HIDE DEF L, t
  <1>10. IsMarking(t)
    <2> DEFINE k == L + 6
    <2>1. /\ k \in 1..(Len(t) - 1) /\ k + 1 = L + 7 /\ \A j \in (k + 2)..Len(t) : FALSE
      BY <1>8, <1>9
    <2>2. ASSUME NEW j \in 1..(k - 1)
          PROVE  j = 1 \/ j = 2 \/ j = 3 \/ j = 4 \/ j = L + 5 \/ (j - 4 \in 1..L /\ (j - 4) + 4 = j)
      BY <1>8
    <2>3. ASSUME NEW j \in 1..(k - 1) PROVE t[j][1] \in PreNames /\ (t[j][1] = "link down" => j = 1)
      <3>1. CASE j - 4 \in 1..L /\ (j - 4) + 4 = j
        <4>1. t[j] = s[j - 4] /\ s[j - 4] \in {i4, i6}
          BY <1>8, <1>9, <3>1, Zenon
        <4> QED
          BY <1>7, <4>1, Zenon
      <3>2. CASE j = 1 \/ j = 2 \/ j = 3 \/ j = 4 \/ j = L + 5
        BY <1>7, <1>9, <3>2, Zenon
      <3> QED
        BY <2>2, <3>1, <3>2, Zenon
    <2>4. t[k] = n /\ t[k + 1] = m
      BY <1>9, <2>1, Zenon
    <2> HIDE DEF k
    <2> QED
      BY <1>6, <2>1, <2>3, <2>4, Zenon DEF IsMarking
  <1>11. port = 1 => \A f \in Family : \A d \in Chain : <<"rule", f, d>> \in Range(t)
    BY <1>5, <1>8, <1>9, Zenon
  <1>12. \A c \in Range(t) : c[1] \in PreNames \cup {"network create", "network interface add"}
    BY <1>3, <1>7, <1>8, <1>9, Zenon
  <1> QED
    BY <1>4, <1>6, <1>9, <1>10, <1>11, <1>12, Zenon

\* What is left of cmd_up is the creation of the network and all that the file asks for.
LEMMA AfterPortIs ==
  ASSUME NEW p \in Ifaces, run[p].opts \in Options, NEW port \in {0, 1}
  PROVE  LET o == run[p].opts
             T == Range(AfterPort(p, port))
         IN  /\ AfterPort(p, port) \in Seq(Cmd) /\ IsMarking(AfterPort(p, port))
             /\ <<"wg set fwmark">> \in T /\ <<"link up">> \in T
             /\ \A a \in Value : a \in Range(o.addrs) <=> <<"addr add", a>> \in T
             /\ port = 1 => \A f \in Family : \A d \in Chain : <<"rule", f, d>> \in T
             /\ \A m \in BOOLEAN : NetFilled(o, m, NoNet, T)
  \* More commands of the last stage.
  <1>a. ASSUME NEW t \in Seq(Cmd), NEW s \in Seq(Cmd), IsMarking(t), IsFilling(s) PROVE IsMarking(t \o s)
    <2> USE <1>a
    <2> DEFINE u == t \o s
    <2>1. PICK k \in 1..(Len(t) - 1) :
          /\ \A j \in 1..(k - 1) : t[j][1] \in PreNames /\ (t[j][1] = "link down" => j = 1)
          /\ t[k] = <<"network create">> /\ t[k + 1] = <<"network interface add">>
          /\ \A j \in (k + 2)..Len(t) : t[j][1] \in PostNames
      BY Zenon DEF IsMarking
    <2>2. /\ Len(u) = Len(t) + Len(s) /\ Len(s) \in Nat /\ Len(t) \in Nat
          /\ \A j \in 1..Len(t) : u[j] = t[j]
          /\ \A j \in 1..Len(s) : u[j + Len(t)] = s[j]
      BY JoinIs
    <2>0. k \in Nat /\ 1 <= k /\ k < Len(t)
      BY <2>2
    <2>3. \A j \in 1..Len(s) : s[j][1] \in PostNames
      <3>1. DOMAIN s = 1..Len(s)
        OBVIOUS
      <3> QED
        BY <3>1, Zenon DEF IsFilling, Range
    <2> HIDE DEF u
    <2>4. k \in 1..(Len(u) - 1) /\ k \in 1..Len(t) /\ k + 1 \in 1..Len(t) /\ \A j \in 1..(k - 1) : j \in 1..Len(t)
      BY <2>0, <2>2
    <2>5. ASSUME NEW j \in (k + 2)..Len(u) PROVE u[j][1] \in PostNames
      <3>1. CASE j <= Len(t)
        <4>1. j \in 1..Len(t) /\ j \in (k + 2)..Len(t)
          BY <2>0, <2>2, <3>1
        <4> QED
          BY <2>1, <2>2, <4>1, Zenon
      <3>2. CASE ~(j <= Len(t))
        <4>1. j - Len(t) \in 1..Len(s) /\ (j - Len(t)) + Len(t) = j
          BY <2>0, <2>2, <3>2
        <4> QED
          BY <2>2, <2>3, <4>1, Zenon
      <3> QED
        BY <3>1, <3>2, Zenon
    <2>6. IsMarking(u)
      <3>1. /\ \A j \in 1..(k - 1) : u[j][1] \in PreNames /\ (u[j][1] = "link down" => j = 1)
            /\ u[k] = <<"network create">> /\ u[k + 1] = <<"network interface add">>
        BY <2>1, <2>2, <2>4, Zenon
      <3> QED
        BY <2>4, <2>5, <3>1, Zenon DEF IsMarking
    <2> QED
      BY <2>6, Zenon DEF u
  \* Commands of the last stage can follow.
  <1>b. ASSUME NEW t \in Seq(Cmd), NEW s \in Seq(Cmd), IsMarking(t), \A c \in Range(s) : c[1] \in PostNames
        PROVE  t \o s \in Seq(Cmd) /\ IsMarking(t \o s) /\ Range(t \o s) = Range(t) \cup Range(s)
    <2> USE <1>b
    <2>1. t \o s \in Seq(Cmd) /\ Range(t \o s) = Range(t) \cup Range(s)
      BY JoinIs
    <2>2. IsFilling(s)
      BY Zenon DEF IsFilling
    <2>3. IsMarking(t \o s)
      BY <2>2, <1>a, Zenon
    <2> QED
      BY <2>1, <2>3, Zenon
  \* set_addr adds every address of the file.
  <1>c. ASSUME NEW addrs \in Seq(Value)
        PROVE  /\ set_addr(addrs) \in Seq(Cmd)
               /\ \A c \in Range(set_addr(addrs)) : c[1] \in {"ipv6 enable", "addr add"}
               /\ \A a \in Value : <<"addr add", a>> \in Range(set_addr(addrs)) <=> a \in Range(addrs)
    <2> DEFINE n == Len(addrs)
               ss == [k \in DOMAIN addrs |-> add_addr(addrs[k])]
               t == Flatten(ss)
    <2>1. n \in Nat /\ DOMAIN addrs = 1..n /\ \A k \in 1..n : addrs[k] \in Value
      OBVIOUS
    <2>2. ASSUME NEW a \in Value
          PROVE  add_addr(a) \in Seq(Cmd) /\ (Range(add_addr(a)) = {<<"addr add", a>>}
                                                \/ Range(add_addr(a)) = {<<"ipv6 enable">>, <<"addr add", a>>})
      <3> DEFINE c == <<"addr add", a>>
                 d == <<"ipv6 enable">>
      <3>1. c \in Cmd /\ d \in Cmd
        BY Zenon DEF Cmd, Words
      <3>2. add_addr(a) = IF Is6(a) THEN <<d, c>> ELSE <<c>>
        BY Zenon DEF add_addr
      <3> HIDE DEF c, d
      <3>3. /\ <<c>> \in Seq(Cmd) /\ <<d, c>> \in Seq(Cmd)
            /\ Range(<<c>>) = {c} /\ Range(<<d, c>>) = {d, c}
        BY <3>1 DEF Range
      <3> QED
        BY <3>2, <3>3, Zenon DEF c, d
    <2>3. ss \in Seq(Seq(Cmd)) /\ Len(ss) = n /\ \A k \in 1..n : ss[k] = add_addr(addrs[k])
      <3>1. \A k \in 1..n : add_addr(addrs[k]) \in Seq(Cmd)
        BY <2>1, <2>2, Zenon
      <3>2. ss = [k \in 1..n |-> add_addr(addrs[k])]
        BY <2>1, Zenon
      <3> HIDE DEF n, ss
      <3> QED
        BY <2>1, <3>1, <3>2
    <2>4. set_addr(addrs) = t
      BY Zenon DEF set_addr
    <2> HIDE DEF ss, n
    <2>5. t \in Seq(Cmd) /\ \A x : x \in Range(t) <=> \E k \in 1..n : x \in Range(add_addr(addrs[k]))
      <3>1. t \in Seq(Cmd) /\ \A x : x \in Range(t) <=> \E k \in 1..Len(ss) : x \in Range(ss[k])
        BY <2>3, FlattenIs
      <3> HIDE DEF t
      <3> QED
        BY <2>3, <3>1, Zenon
    <2> HIDE DEF t
    <2>6. /\ \A a : <<"addr add", a>>[1] = "addr add"
          /\ <<"ipv6 enable">>[1] = "ipv6 enable"
          /\ \A a : <<"addr add", a>> # <<"ipv6 enable">>
          /\ \A a, b : <<"addr add", a>> = <<"addr add", b>> => a = b
      OBVIOUS
    <2>7. ASSUME NEW c \in Range(t) PROVE c[1] \in {"ipv6 enable", "addr add"}
      <3>1. PICK k \in 1..n : c \in Range(add_addr(addrs[k]))
        BY <2>5, Zenon
      <3>2. c = <<"addr add", addrs[k]>> \/ c = <<"ipv6 enable">>
        <4>1. \/ Range(add_addr(addrs[k])) = {<<"addr add", addrs[k]>>}
              \/ Range(add_addr(addrs[k])) = {<<"ipv6 enable">>, <<"addr add", addrs[k]>>}
          BY <2>1, <2>2, Zenon
        <4> QED
          BY <3>1, <4>1, Zenon
      <3> QED
        BY <2>6, <3>2, Zenon
    <2>8. ASSUME NEW a \in Value PROVE <<"addr add", a>> \in Range(t) <=> a \in Range(addrs)
      <3>1. a \in Range(addrs) <=> \E k \in 1..n : a = addrs[k]
        BY <2>1, Zenon DEF Range
      <3>2. ASSUME NEW k \in 1..n PROVE <<"addr add", a>> \in Range(add_addr(addrs[k])) <=> a = addrs[k]
        <4>1. \/ Range(add_addr(addrs[k])) = {<<"addr add", addrs[k]>>}
              \/ Range(add_addr(addrs[k])) = {<<"ipv6 enable">>, <<"addr add", addrs[k]>>}
          BY <2>1, <2>2, Zenon
        <4> QED
          BY <2>6, <4>1, Zenon
      <3> QED
        BY <2>5, <3>1, <3>2, Zenon
    <2> QED
      BY <2>4, <2>5, <2>7, <2>8, Zenon
  \* set_dnses sets the servers and the domains, or nothing.
  <1>d. ASSUME NEW o \in Options
        PROVE  LET t == set_dnses(o.dnses)
               IN  /\ t \in Seq(Cmd) /\ \A c \in Range(t) : c[1] \in {"createNetworkCache", "dns"}
                   /\ \A s, d \in SUBSET Value : <<"dns", s, d>> \in Range(t) => s \cup d = Servers(o)
                   /\ Servers(o) = {} \/ \E s, d \in SUBSET Value : <<"dns", s, d>> \in Range(t)
    <2> DEFINE all == Range(o.dnses)
               servers == all \ {"host"}
               domains == all \cap {"host"}
               c == <<"dns", servers, domains>>
               e == <<"createNetworkCache">>
               t == set_dnses(o.dnses)
    <2>1. o.dnses \in Seq(Value)
      BY Zenon DEF Options
    <2>2. all \in SUBSET Value
      BY <2>1 DEF Range
    <2>3. servers \in SUBSET Value /\ domains \in SUBSET Value /\ servers \cup domains = all
      BY <2>2, Zenon
    <2>4. IF servers = {} THEN Servers(o) = {} ELSE Servers(o) = all
      BY Zenon DEF Servers
    <2>5. t = IF servers = {} THEN <<>> ELSE IF Binder THEN <<e>> \o <<c>> ELSE <<c>>
      BY Zenon DEF set_dnses
    <2> HIDE DEF servers, domains
    <2>6. c \in Cmd /\ e \in Cmd
      <3>1. c \in DnsCmds
        BY <2>3 DEF DnsCmds
      <3>2. e \in Cmd
        BY Zenon DEF Cmd, Words
      <3> QED
        BY <3>1, <3>2, Zenon DEF Cmd
    <2>7. /\ c[1] = "dns" /\ e[1] = "createNetworkCache"
          /\ \A s, d : <<"dns", s, d>> # e
          /\ \A s, d : <<"dns", s, d>> = c => s = servers /\ d = domains
      OBVIOUS
    <2>8. \A s, d : <<"dns", s, d>> = c => s \cup d = all
      BY <2>3, <2>7, Zenon
    <2>a. <<"dns", servers, domains>> = c
      BY Zenon
    <2> HIDE DEF c, e, t, all
    <2>9. /\ <<>> \in Seq(Cmd) /\ <<c>> \in Seq(Cmd) /\ <<e>> \in Seq(Cmd)
          /\ Range(<<>>) = {} /\ Range(<<c>>) = {c} /\ Range(<<e>>) = {e}
      BY <2>6, OneIs, Zenon
    <2>10. <<e>> \o <<c>> \in Seq(Cmd) /\ Range(<<e>> \o <<c>>) = {e} \cup {c}
      <3> DEFINE x == <<e>>
                 y == <<c>>
      <3>1. x \in Seq(Cmd) /\ y \in Seq(Cmd) /\ Range(x) = {e} /\ Range(y) = {c}
        BY <2>9, Zenon
      <3> HIDE DEF x, y
      <3>2. x \o y \in Seq(Cmd) /\ Range(x \o y) = Range(x) \cup Range(y)
        BY <3>1, JoinIs
      <3> QED
        BY <3>1, <3>2, Zenon DEF x, y
    <2>11. CASE servers = {}
      <3>1. t \in Seq(Cmd) /\ Range(t) = {}
        BY <2>5, <2>9, <2>11, Zenon
      <3>2. Servers(o) = {}
        BY <2>4, <2>11, Zenon
      <3> QED
        BY <3>1, <3>2, Zenon DEF t
    <2>12. CASE servers # {}
      <3>1. t \in Seq(Cmd) /\ Range(t) \subseteq {e, c} /\ c \in Range(t)
        BY <2>5, <2>9, <2>10, <2>12, Zenon
      <3>2. \A x \in Range(t) : x[1] \in {"createNetworkCache", "dns"}
        BY <2>7, <3>1, Zenon
      <3>3. Servers(o) = all
        BY <2>4, <2>12, Zenon
      <3>4. \A s, d \in SUBSET Value : <<"dns", s, d>> \in Range(t) => s \cup d = Servers(o)
        BY <2>7, <2>8, <3>1, <3>3, Zenon
      <3>5. \E s, d \in SUBSET Value : <<"dns", s, d>> \in Range(t)
        BY <2>3, <2>a, <3>1, Zenon
      <3> QED
        BY <3>1, <3>2, <3>4, <3>5, Zenon DEF t
    <2> QED
      BY <2>11, <2>12, Zenon
  <1> DEFINE o == run[p].opts
             F == << <<"link down">> >> \o up_if(port)
             A == set_addr(o.addrs)
             D == set_dnses(o.dnses)
             R == set_routes
             M == << <<"setmtu">> >>
             U == set_users(o.excluded, o.included)
             B == broadcast_change(p)
             w1 == F \o A
             w2 == w1 \o D
             w3 == w2 \o R
             w4 == w3 \o M
             w5 == w4 \o U
             w6 == w5 \o B
             T == Range(w6)
  <1>0. AfterPort(p, port) = w6
    BY Zenon DEF AfterPort
  <1>1. /\ F \in Seq(Cmd) /\ IsMarking(F)
        /\ <<"wg set fwmark">> \in Range(F) /\ <<"link up">> \in Range(F)
        /\ port = 1 => \A f \in Family : \A d \in Chain : <<"rule", f, d>> \in Range(F)
        /\ \A c \in Range(F) : c[1] \in PreNames \cup {"network create", "network interface add"}
    BY FrontIs, Zenon
  <1>2. /\ A \in Seq(Cmd)
        /\ \A c \in Range(A) : c[1] \in {"ipv6 enable", "addr add"}
        /\ \A a \in Value : <<"addr add", a>> \in Range(A) <=> a \in Range(o.addrs)
    <2>1. o.addrs \in Seq(Value)
      BY DEF Options
    <2> QED
      BY <2>1, <1>c, Zenon
  <1>3. /\ D \in Seq(Cmd) /\ \A c \in Range(D) : c[1] \in {"createNetworkCache", "dns"}
        /\ \A s, d \in SUBSET Value : <<"dns", s, d>> \in Range(D) => s \cup d = Servers(o)
        /\ Servers(o) = {} \/ \E s, d \in SUBSET Value : <<"dns", s, d>> \in Range(D)
    BY <1>d, Zenon
  <1>4. /\ U \in Seq(Cmd) /\ \A c \in Range(U) : c[1] \in {"fopen packages.list", "exit", "users add"}
        /\ <<"exit">> \in Range(U) \/ \A u \in 0..MaxUid : u \in Routed(o) <=> Added(u, Range(U))
    BY UsersIs, Zenon
  <1>5. /\ R \in Seq(Cmd) /\ Range(R) = {<<"wg show allowed-ips">>}
        /\ M \in Seq(Cmd) /\ Range(M) = {<<"setmtu">>}
    <2>1. <<"wg show allowed-ips">> \in Cmd /\ <<"setmtu">> \in Cmd
      BY Zenon DEF Cmd, Words
    <2> QED
      BY <2>1, OneIs, Zenon DEF set_routes
  <1>6. B \in Seq(Cmd) /\ Range(B) \subseteq {<<"am broadcast">>}
    <2>1. <<"am broadcast">> \in Cmd
      BY Zenon DEF Cmd, Words
    <2> QED
      BY <2>1, OneIs, Zenon DEF broadcast_change
  <1>7. <<"wg show allowed-ips">>[1] = "wg show allowed-ips" /\ <<"setmtu">>[1] = "setmtu" /\ <<"am broadcast">>[1] = "am broadcast"
    OBVIOUS
  <1>8. /\ \A c \in Range(A) : c[1] \in PostNames
        /\ \A c \in Range(D) : c[1] \in PostNames
        /\ \A c \in Range(R) : c[1] \in PostNames
        /\ \A c \in Range(M) : c[1] \in PostNames
        /\ \A c \in Range(U) : c[1] \in PostNames
        /\ \A c \in Range(B) : c[1] \in PostNames
    BY <1>2, <1>3, <1>4, <1>5, <1>6, <1>7, Zenon DEF PostNames
  <1> HIDE DEF o, F, A, D, R, M, U, B
  <1>11. w1 \in Seq(Cmd) /\ IsMarking(w1) /\ Range(w1) = Range(F) \cup Range(A)
    BY <1>1, <1>2, <1>8, <1>b, Zenon
  <1> HIDE DEF w1
  <1>12. w2 \in Seq(Cmd) /\ IsMarking(w2) /\ Range(w2) = Range(w1) \cup Range(D)
    BY <1>11, <1>3, <1>8, <1>b, Zenon
  <1> HIDE DEF w2
  <1>13. w3 \in Seq(Cmd) /\ IsMarking(w3) /\ Range(w3) = Range(w2) \cup Range(R)
    BY <1>12, <1>5, <1>8, <1>b, Zenon
  <1> HIDE DEF w3
  <1>14. w4 \in Seq(Cmd) /\ IsMarking(w4) /\ Range(w4) = Range(w3) \cup Range(M)
    BY <1>13, <1>5, <1>8, <1>b, Zenon
  <1> HIDE DEF w4
  <1>15. w5 \in Seq(Cmd) /\ IsMarking(w5) /\ Range(w5) = Range(w4) \cup Range(U)
    BY <1>14, <1>4, <1>8, <1>b, Zenon
  <1> HIDE DEF w5
  <1>16. w6 \in Seq(Cmd) /\ IsMarking(w6) /\ Range(w6) = Range(w5) \cup Range(B)
    BY <1>15, <1>6, <1>8, <1>b, Zenon
  <1> HIDE DEF w6
  <1>17. \A c : c \in T <=> \/ c \in Range(F) \/ c \in Range(A) \/ c \in Range(D) \/ c = <<"wg show allowed-ips">>
                            \/ c = <<"setmtu">> \/ c \in Range(U) \/ c \in Range(B)
    BY <1>5, <1>11, <1>12, <1>13, <1>14, <1>15, <1>16, Zenon
  <1> HIDE DEF T
  <1>18. /\ \A v : <<"addr add", v>>[1] = "addr add" /\ <<"route add", v>>[1] = "route add" /\ <<"users add", v>>[1] = "users add"
         /\ \A s, d : <<"dns", s, d>>[1] = "dns"
    OBVIOUS
  <1>19. \A c \in T : \/ c \in Range(F) /\ c[1] \in PreNames \cup {"network create", "network interface add"}
                      \/ c \in Range(A) /\ c[1] \in {"ipv6 enable", "addr add"}
                      \/ c \in Range(D) /\ c[1] \in {"createNetworkCache", "dns"}
                      \/ c \in Range(U) /\ c[1] \in {"fopen packages.list", "exit", "users add"}
                      \/ c[1] \in {"wg show allowed-ips", "setmtu", "am broadcast"}
    BY <1>1, <1>2, <1>3, <1>4, <1>6, <1>7, <1>17, Zenon
  <1>20. /\ \A v : <<"addr add", v>> \in T <=> <<"addr add", v>> \in Range(A)
         /\ \A v : <<"route add", v>> \notin T
         /\ \A v : <<"users add", v>> \in T <=> <<"users add", v>> \in Range(U)
         /\ \A s, d : <<"dns", s, d>> \in T <=> <<"dns", s, d>> \in Range(D)
    BY <1>17, <1>18, <1>19, Zenon DEF PreNames
  <1>21. NoNet.routes = {} /\ NoNet.dns = {} /\ NoNet.users = {}
    BY DEF NoNet
  <1>22. ASSUME NEW m \in BOOLEAN PROVE RoutesFilled(o, m, NoNet, T)
    BY <1>17, <1>20, <1>21, Zenon DEF RoutesFilled
  <1>23. DnsFilled(o, NoNet, T)
    BY <1>3, <1>20, <1>21, Zenon DEF DnsFilled
  <1>24. UsersFilled(o, NoNet, T)
    <2>1. \A u : Added(u, T) <=> Added(u, Range(U))
      BY <1>20, Zenon DEF Added
    <2> QED
      BY <1>4, <1>17, <1>21, <2>1, Zenon DEF UsersFilled
  <1>25. \A m \in BOOLEAN : NetFilled(o, m, NoNet, T)
    BY <1>22, <1>23, <1>24, Zenon DEF NetFilled
  <1> QED
    BY <1>0, <1>1, <1>2, <1>16, <1>17, <1>20, <1>25, Zenon DEF T, o

-----------------------------------------------------------------------------
(* The inductive invariant.  A process r on the interface p is in one of six *)
(* stages: l is the link, R and S the rules and the networks of p, D the     *)
(* names for which a deletion has failed.                                    *)

Up(r) == r.status = "running" /\ r.op = "up" /\ r.cleanup /\ ~ r.exiting

AtMostOne(S) == \A x, y \in S : x = y

\* Without a link there is nothing.
Settled(l, R, S) == AtMostOne(S) /\ (~ l.exists => R = {} /\ S = {})

\* There is no process, or it has not run anything yet.
Resting(p, r, l, R, S, D) ==
    /\ ~ r.cleanup /\ ~ r.exiting
    /\ r.status = "running" => \/ r.op = "up" /\ r.todo = cmd_up
                               \/ r.op = "down" /\ r.todo = cmd_down
    /\ p \in D \/ Settled(l, R, S)

\* cmd_up makes the link and reads the port.
Making(p, r, l, R, S, D) ==
    /\ Up(r) /\ r.todo \in MakingLists
    /\ p \in D \/ Settled(l, R, S)
    /\ \/ Head(r.todo) = <<"link add">>
       \/ /\ l.exists /\ l.addrs = {} /\ (p \in D \/ S = {})
          /\ Head(r.todo) = <<"wg addconf">> \/ l.config = r.opts.config

Filled(r, l, R, net) ==
    /\ l.exists /\ r.netid \in Netids
    /\ LinkFilled(r.opts, l, Range(r.todo))
    /\ RulesFilled(r.missed, R, Range(r.todo))
    /\ NetFilled(r.opts, r.missed, net, Range(r.todo))

\* Up to the creation of the network.
Marking(p, r, l, R, S, D) == Up(r) /\ IsMarking(r.todo) /\ (p \in D \/ S = {}) /\ Filled(r, l, R, NoNet)

\* The network has been created.
Linking(p, r, l, R, S, D, net) ==
    Up(r) /\ IsLinking(r.todo) /\ (p \in D \/ S = {}) /\ Filled(r, l, R, net) /\ net.exists /\ net.iface = None

\* The network has the interface.
Filling(p, r, l, R, S, D, net) ==
    Up(r) /\ IsFilling(r.todo) /\ (p \in D \/ AtMostOne(S)) /\ Filled(r, l, R, net) /\ net.exists /\ net.iface = p

\* What is there will be deleted.
Covered(l, R, S, T) ==
    /\ AtMostOne(S)
    /\ l.exists => <<"link del">> \in T
    /\ \A x \in R : <<"save", x.fam>> \in T \/ <<"rule del", x>> \in T
    /\ \A n \in S : <<"ip rule show">> \in T \/ <<"network destroy", n>> \in T

\* cmd_down or cmd_up_cleanup.
Clearing(p, r, l, R, S, D) ==
    /\ r.status = "running" /\ IsClearing(r.todo)
    /\ \/ r.op = "down" /\ ~ r.cleanup /\ ~ r.exiting /\ (<<"link del">> \in Range(r.todo) => l.exists)
       \/ r.op = "up" /\ r.cleanup /\ r.exiting
    /\ \A c \in Range(r.todo) : c[1] = "rule del" => c[2].iface = p
    /\ \A c \in Range(r.todo) : c[1] = "network destroy" => c[2] \in S
    /\ p \in D \/ Covered(l, R, S, Range(r.todo))

\* All but Linking.
Placed(p, r, l, R, S, D, net) ==
    \/ Resting(p, r, l, R, S, D)
    \/ Making(p, r, l, R, S, D)
    \/ Marking(p, r, l, R, S, D)
    \/ Filling(p, r, l, R, S, D, net)
    \/ Clearing(p, r, l, R, S, D)

PlacedNow(p) == Placed(p, run[p], link[p], RulesOf(p), NetsOf(p), dirty, nets[run[p].netid])
LinkingNow(p) == Linking(p, run[p], link[p], RulesOf(p), NetsOf(p), dirty, nets[run[p].netid])

Stage(p) == PlacedNow(p) \/ LinkingNow(p)

\* Two processes do not add an interface to the same network.
Apart ==
    \A p, q \in Ifaces :
        p # q /\ At(p, "network interface add") /\ At(q, "network interface add") => run[p].netid # run[q].netid

Inv ==
    /\ Types
    /\ \A i \in Ifaces : link[i].exists \/ link[i] = NoLink
    /\ Apart
    /\ \A p \in Ifaces : Stage(p)

-----------------------------------------------------------------------------
(* What a step of p may change *)

Same(r, s) ==
    /\ s.op = r.op /\ s.status = r.status /\ s.opts = r.opts /\ s.netid = r.netid
    /\ s.cleanup = r.cleanup /\ s.exiting = r.exiting /\ s.missed = r.missed

NetStep(p, n) ==
    \/ nets'[n] = nets[n]
    \/ ~ nets[n].exists /\ nets'[n].iface = None
    \/ /\ nets[n].exists /\ nets[n].iface = None /\ nets'[n].iface = p
       /\ At(p, "network interface add") /\ n = run[p].netid
    \/ nets[n].exists /\ nets[n].iface = p /\ (nets'[n].iface = p \/ ~ nets'[n].exists)

Private(p) ==
    /\ \A q \in Ifaces : q # p => run'[q] = run[q] /\ link'[q] = link[q] /\ (q \in dirty' <=> q \in dirty)
    /\ \A r \in Rule : r.iface # p => (r \in rules' <=> r \in rules)
    /\ \A n \in Netids : NetStep(p, n)

\* The frame of a step of p.
Frame(p) ==
    /\ Types' /\ Private(p)
    /\ link'[p].exists \/ link'[p] = NoLink
    /\ (Running(p) /\ run'[p] # run[p]) \/ UNCHANGED <<link, rules, nets>>

Turn(p) ==
    /\ Frame(p)
    /\ \/ PlacedNow(p)'
       \/ LinkingNow(p)' /\ ~ nets[run[p].netid].exists /\ run'[p].netid = run[p].netid

\* A list of one command.
LEMMA FirstIs ==
  ASSUME NEW a
  PROVE  Head(<<a>>) = a /\ Tail(<<a>>) = <<>> /\ <<a>>[1] = a /\ <<a>> # <<>>
  OBVIOUS

\* The link is made by the commands in this order.
LEMMA MakingIs ==
  ASSUME NEW t \in MakingLists
  PROVE  /\ t # <<>>
         /\ \/ Head(t) = <<"link add">> /\ Tail(t) \in MakingLists /\ Head(Tail(t)) = <<"wg addconf">>
            \/ Head(t) = <<"wg addconf">> /\ Tail(t) \in MakingLists /\ Head(Tail(t)) = <<"link up">>
            \/ Head(t) = <<"link up">> /\ Tail(t) \in MakingLists /\ Head(Tail(t)) = <<"wg show listen-port">>
            \/ Head(t) = <<"wg show listen-port">>
  <1> DEFINE a == <<"link add">>
             b == <<"wg addconf">>
             c == <<"link up">>
             d == <<"wg show listen-port">>
  <1>1. MakingLists = {<<a, b, c, d>>, <<b, c, d>>, <<c, d>>, <<d>>}
    BY Zenon DEF MakingLists
  <1> HIDE DEF a, b, c, d
  <1>2. t # <<>> /\ \/ Head(t) = a /\ Tail(t) \in MakingLists /\ Head(Tail(t)) = b
                    \/ Head(t) = b /\ Tail(t) \in MakingLists /\ Head(Tail(t)) = c
                    \/ Head(t) = c /\ Tail(t) \in MakingLists /\ Head(Tail(t)) = d
                    \/ Head(t) = d
    <2>1. /\ Head(<<a, b, c, d>>) = a /\ Tail(<<a, b, c, d>>) = <<b, c, d>> /\ <<a, b, c, d>> # <<>>
          /\ Head(<<b, c, d>>) = b /\ Tail(<<b, c, d>>) = <<c, d>> /\ <<b, c, d>> # <<>>
          /\ Head(<<c, d>>) = c /\ Tail(<<c, d>>) = <<d>> /\ <<c, d>> # <<>>
          /\ Head(<<d>>) = d /\ <<d>> # <<>>
      OBVIOUS
    <2> QED
      BY <1>1, <2>1, Zenon
  <1> QED
    BY <1>2, Zenon DEF a, b, c, d

\* The first command of each stage.
LEMMA HeadNames ==
  ASSUME NEW p, NEW r \in Proc, NEW l, NEW R, NEW S, NEW D, NEW net, r.todo # <<>>, r.status = "running"
  PROVE  LET h == Head(r.todo)[1]
         IN  /\ Resting(p, r, l, R, S, D) => h \in {"ip link show", "wg show interfaces"}
             /\ Making(p, r, l, R, S, D) => h \in {"link add", "wg addconf", "link up", "wg show listen-port"}
             /\ Marking(p, r, l, R, S, D) => h \in PreNames \cup {"network create"}
             /\ Linking(p, r, l, R, S, D, net) => h = "network interface add"
             /\ Filling(p, r, l, R, S, D, net) => h \in PostNames
             /\ Clearing(p, r, l, R, S, D) => h \in DelNames
  <1> DEFINE t == r.todo
  <1>1. t \in Seq(Cmd)
    BY DEF Proc
  <1>2. ASSUME Resting(p, r, l, R, S, D) PROVE Head(t)[1] \in {"ip link show", "wg show interfaces"}
    <2>1. t = << <<"ip link show">> >> \/ t = << <<"wg show interfaces">> >>
      BY <1>2, Zenon DEF Resting, cmd_up, cmd_down
    <2>2. Head(t) = <<"ip link show">> \/ Head(t) = <<"wg show interfaces">>
      BY <2>1, FirstIs, Zenon
    <2> QED
      BY <2>2, FirstIs, Zenon
  <1>3. ASSUME Making(p, r, l, R, S, D) PROVE Head(t)[1] \in {"link add", "wg addconf", "link up", "wg show listen-port"}
    <2>1. t \in MakingLists
      BY <1>3, Zenon DEF Making
    <2>2. \/ Head(t) = <<"link add">> \/ Head(t) = <<"wg addconf">> \/ Head(t) = <<"link up">>
          \/ Head(t) = <<"wg show listen-port">>
      BY <2>1, MakingIs, Zenon
    <2> QED
      BY <2>2, FirstIs, Zenon
  <1>4. ASSUME Marking(p, r, l, R, S, D) PROVE Head(t)[1] \in PreNames \cup {"network create"}
    <2>1. IsMarking(t)
      BY <1>4, Zenon DEF Marking
    <2>2. <<"network create">>[1] = "network create"
      OBVIOUS
    <2> QED
      BY <1>1, <2>1, <2>2, MarkingTail, Zenon
  <1>5. ASSUME Linking(p, r, l, R, S, D, net) PROVE Head(t)[1] = "network interface add"
    <2>1. Head(t) = <<"network interface add">>
      BY <1>5, Zenon DEF Linking, IsLinking
    <2> QED
      BY <2>1, FirstIs, Zenon
  <1>6. ASSUME Filling(p, r, l, R, S, D, net) PROVE Head(t)[1] \in PostNames
    <2>1. IsFilling(t)
      BY <1>6, Zenon DEF Filling
    <2> QED
      BY <1>1, <2>1, FillingTail, Zenon
  <1>7. ASSUME Clearing(p, r, l, R, S, D) PROVE Head(t)[1] \in DelNames
    <2>1. IsClearing(t)
      BY <1>7, Zenon DEF Clearing
    <2> QED
      BY <1>1, <2>1, ClearingTail, Zenon
  <1> QED
    BY <1>2, <1>3, <1>4, <1>5, <1>6, <1>7, Zenon

\* What the others' steps leave of q.
LEMMA Bystander ==
  ASSUME Inv, NEW p \in Ifaces, NEW q \in Ifaces, q # p, Types', Private(p)
  PROVE  /\ Stage(q)' /\ Traces(q)' = Traces(q)
         /\ run'[q] = run[q] /\ link'[q] = link[q]
         /\ (q \in dirty' <=> q \in dirty)
  <1>1. /\ run'[q] = run[q] /\ link'[q] = link[q] /\ (q \in dirty' <=> q \in dirty)
        /\ \A r \in Rule : r.iface # p => (r \in rules' <=> r \in rules)
        /\ \A n \in Netids : NetStep(p, n)
    BY Zenon DEF Private
  <1>2. RulesOf(q)' = RulesOf(q)
    <2>1. rules \subseteq Rule /\ rules' \subseteq Rule
      BY Zenon DEF Inv, Types
    <2> QED
      BY <1>1, <2>1, Zenon DEF RulesOf
  <1>3. q # None /\ p # None
    BY WgQuickAndroidAssumption, Zenon
  <1>4. ASSUME NEW n \in Netids
        PROVE  /\ n \in NetsOf(q)' <=> n \in NetsOf(q)
               /\ n \in NetsOf(q) => nets'[n] = nets[n]
    BY <1>1, <1>3, Zenon DEF NetsOf, NetStep
  <1>5. NetsOf(q)' = NetsOf(q)
    BY <1>4, Zenon DEF NetsOf
  <1>6. Traces(q)' = Traces(q)
    <2>1. {<<n, nets'[n]>> : n \in NetsOf(q)} = {<<n, nets[n]>> : n \in NetsOf(q)}
      <3>1. NetsOf(q) \subseteq Netids
        BY Zenon DEF NetsOf
      <3> QED
        BY <1>4, <3>1, Zenon
    <2> QED
      BY <1>1, <1>2, <1>5, <2>1, Zenon DEF Traces
  <1>7. Stage(q)'
    <2> DEFINE r == run[q]
               l == link[q]
               R == RulesOf(q)
               S == NetsOf(q)
    <2>1. Stage(q)
      BY Zenon DEF Inv
    <2>2. CASE \/ Resting(q, r, l, R, S, dirty) \/ Making(q, r, l, R, S, dirty)
               \/ Marking(q, r, l, R, S, dirty) \/ Clearing(q, r, l, R, S, dirty)
      <3>1. \/ Resting(q, r, l, R, S, dirty') \/ Making(q, r, l, R, S, dirty')
            \/ Marking(q, r, l, R, S, dirty') \/ Clearing(q, r, l, R, S, dirty')
        BY <1>1, <2>2, Zenon DEF Resting, Making, Marking, Clearing
      <3> QED
        BY <1>1, <1>2, <1>5, <3>1, Zenon DEF Stage, PlacedNow, Placed
    <2>3. CASE Filling(q, r, l, R, S, dirty, nets[r.netid])
      <3>1. r.netid \in Netids /\ nets[r.netid].exists /\ nets[r.netid].iface = q
        BY <2>3, Zenon DEF Filling, Filled
      <3>2. nets'[r.netid] = nets[r.netid]
        BY <1>1, <1>3, <3>1, Zenon DEF NetStep
      <3>3. Filling(q, r, l, R, S, dirty', nets[r.netid])
        BY <1>1, <2>3, Zenon DEF Filling
      <3> QED
        BY <1>1, <1>2, <1>5, <3>2, <3>3, Zenon DEF Stage, PlacedNow, Placed
    <2>4. CASE Linking(q, r, l, R, S, dirty, nets[r.netid])
      <3>1. r.netid \in Netids /\ nets[r.netid].exists /\ nets[r.netid].iface = None
        BY <2>4, Zenon DEF Linking, Filled
      <3>2. At(q, "network interface add")
        <4>1. r.todo # <<>> /\ r.status = "running" /\ Head(r.todo) = <<"network interface add">>
          BY <2>4, Zenon DEF Linking, IsLinking, Up
        <4>2. <<"network interface add">>[1] = "network interface add"
          OBVIOUS
        <4> QED
          BY <4>1, <4>2, Zenon DEF At, Running
      <3>3. ~ (At(p, "network interface add") /\ r.netid = run[p].netid)
        BY <3>2, Zenon DEF Inv, Apart
      <3>4. nets'[r.netid] = nets[r.netid]
        BY <1>1, <1>3, <3>1, <3>3, Zenon DEF NetStep
      <3>5. Linking(q, r, l, R, S, dirty', nets[r.netid])
        BY <1>1, <2>4, Zenon DEF Linking
      <3> QED
        BY <1>1, <1>2, <1>5, <3>4, <3>5, Zenon DEF Stage, LinkingNow
    <2> QED
      BY <2>1, <2>2, <2>3, <2>4, Zenon DEF Stage, PlacedNow, LinkingNow, Placed
  <1> QED
    BY <1>1, <1>6, <1>7, Zenon

\* The step of one process leaves the invariant of all.
LEMMA TurnIs ==
  ASSUME Inv, NEW p \in Ifaces, Turn(p)
  PROVE  Inv'
  <1>1. Types' /\ Private(p) /\ (link'[p].exists \/ link'[p] = NoLink)
    BY Zenon DEF Turn, Frame
  <1>2. \A q \in Ifaces : Stage(q)'
    <2>1. Stage(p)'
      BY Zenon DEF Turn, Stage
    <2> QED
      BY <1>1, <2>1, Bystander, Zenon
  <1>3. \A q \in Ifaces : q # p => run'[q] = run[q] /\ link'[q] = link[q]
    BY <1>1, Zenon DEF Private
  <1>4. \A i \in Ifaces : link'[i].exists \/ link'[i] = NoLink
    BY <1>1, <1>3, Zenon DEF Inv
  <1>5. \A q \in Ifaces : q # p => (At(q, "network interface add")' <=> At(q, "network interface add"))
    BY <1>3, Zenon DEF At, Running
  <1>6. \A q \in Ifaces : run[q] \in Proc /\ run'[q] \in Proc
    BY <1>1 DEF Inv, Types
  <1>7. ASSUME NEW q \in Ifaces, q # p, At(q, "network interface add"), At(p, "network interface add")'
        PROVE  run'[p].netid # run[q].netid
    <2>1. LinkingNow(q)
      <3>1. Stage(q)
        BY Zenon DEF Inv
      <3>2. run[q].todo # <<>> /\ run[q].status = "running" /\ Head(run[q].todo)[1] = "network interface add"
        BY <1>7, Zenon DEF At, Running
      <3>3. ~ PlacedNow(q)
        BY <1>6, <3>2, HeadNames, Zenon DEF PlacedNow, Placed, PreNames, PostNames, DelNames
      <3> QED
        BY <3>1, <3>3, Zenon DEF Stage
    <2>2. nets[run[q].netid].exists
      BY <2>1, Zenon DEF LinkingNow, Linking
    <2>3. ~ PlacedNow(p)'
      <3>2. run'[p].todo # <<>> /\ run'[p].status = "running" /\ Head(run'[p].todo)[1] = "network interface add"
        BY <1>7, Zenon DEF At, Running
      <3> QED
        BY <1>6, <3>2, HeadNames, Zenon DEF PlacedNow, Placed, PreNames, PostNames, DelNames
    <2>4. ~ nets[run[p].netid].exists /\ run'[p].netid = run[p].netid
      BY <2>3, Zenon DEF Turn
    <2> QED
      BY <2>2, <2>4, Zenon
  <1>8. Apart'
    <2> SUFFICES ASSUME NEW x \in Ifaces, NEW y \in Ifaces, x # y,
                        At(x, "network interface add")', At(y, "network interface add")'
                 PROVE  run'[x].netid # run'[y].netid
      BY Zenon DEF Apart
    <2>1. CASE x = p
      BY <1>3, <1>5, <1>7, <2>1, Zenon
    <2>2. CASE y = p
      BY <1>3, <1>5, <1>7, <2>2, Zenon
    <2>3. CASE x # p /\ y # p
      BY <1>3, <1>5, <2>3, Zenon DEF Inv, Apart
    <2> QED
      BY <2>1, <2>2, <2>3, Zenon
  <1> QED
    BY <1>1, <1>2, <1>4, <1>8, Zenon DEF Inv

-----------------------------------------------------------------------------
(* The frame of every kind of step *)

Others(p) == \A q \in Ifaces : q # p => run'[q] = run[q]

\* A process in the middle of its commands: the first one and the rest.
LEMMA AtIs ==
  ASSUME Types, NEW p \in Ifaces, Running(p), run[p].todo # <<>>
  PROVE  LET t == run[p].todo
         IN  /\ run[p] \in Proc /\ t \in Seq(Cmd) /\ Head(t) \in Cmd /\ Tail(t) \in Seq(Cmd) /\ Tail(t) # t
             /\ Range(t) = {Head(t)} \cup Range(Tail(t)) /\ <<>> \o Tail(t) = Tail(t)
  <1>1. run[p] \in Proc
    BY Zenon DEF Types
  <1>2. run[p].todo \in Seq(Cmd)
    BY <1>1 DEF Proc
  <1> DEFINE t == run[p].todo
  <1> HIDE DEF t
  <1>3. t \in Seq(Cmd) /\ t # <<>>
    BY <1>2, Zenon DEF t
  <1>4. /\ Head(t) \in Cmd /\ Tail(t) \in Seq(Cmd) /\ Tail(t) # t
        /\ Range(t) = {Head(t)} \cup Range(Tail(t)) /\ <<>> \o Tail(t) = Tail(t)
    BY <1>3, TailIs
  <1> QED
    BY <1>1, <1>2, <1>4, Zenon DEF t

\* Another list is run.
LEMMA TodoIs ==
  ASSUME Types, NEW p \in Ifaces, NEW t \in Seq(Cmd), run' = [run EXCEPT ![p].todo = t]
  PROVE  /\ run' \in [Ifaces -> Proc] /\ Others(p)
         /\ Same(run[p], run'[p]) /\ run'[p].todo = t
  <1>1. run \in [Ifaces -> Proc]
    BY Zenon DEF Types
  <1>2. run'[p] = [run[p] EXCEPT !.todo = t] /\ Others(p) /\ run[p] \in Proc
    BY <1>1 DEF Others
  <1>3. run'[p] \in Proc /\ Same(run[p], run'[p]) /\ run'[p].todo = t
    BY <1>2 DEF Proc, Same
  <1>4. run' \in [Ifaces -> Proc]
    <2>1. run' = [run EXCEPT ![p] = [run[p] EXCEPT !.todo = t]]
      OBVIOUS
    <2>2. [run[p] EXCEPT !.todo = t] \in Proc
      BY <1>2, <1>3, Zenon
    <2> QED
      BY <1>1, <2>1, <2>2
  <1> QED
    BY <1>2, <1>3, <1>4, Zenon

\* Go runs more commands in front of the rest.
LEMMA GoIs ==
  ASSUME Types, NEW p \in Ifaces, Running(p), run[p].todo # <<>>, NEW more \in Seq(Cmd), Go(p, more)
  PROVE  /\ run' \in [Ifaces -> Proc] /\ Others(p)
         /\ Same(run[p], run'[p]) /\ run'[p].todo = more \o Tail(run[p].todo)
         /\ run'[p].todo \in Seq(Cmd)
         /\ Range(run'[p].todo) = Range(more) \cup Range(Tail(run[p].todo))
  <1> DEFINE u == Tail(run[p].todo)
             t == more \o u
  <1>1. u \in Seq(Cmd)
    BY AtIs, Zenon
  <1>2. run' = [run EXCEPT ![p].todo = t]
    <2>1. run \in [Ifaces -> Proc]
      BY Zenon DEF Types
    <2> QED
      BY <2>1 DEF Go
  <1> HIDE DEF u
  <1>3. t \in Seq(Cmd) /\ Range(t) = Range(more) \cup Range(u)
    BY <1>1, JoinIs
  <1> HIDE DEF t
  <1>4. /\ run' \in [Ifaces -> Proc] /\ Others(p) /\ Same(run[p], run'[p]) /\ run'[p].todo = t
    BY <1>2, <1>3, TodoIs, Zenon
  <1> QED
    BY <1>3, <1>4, Zenon DEF t, u

\* Done goes on with the rest.
LEMMA DoneIs ==
  ASSUME Types, NEW p \in Ifaces, Running(p), run[p].todo # <<>>, Done(p)
  PROVE  /\ run' \in [Ifaces -> Proc] /\ Others(p) /\ run'[p] # run[p]
         /\ Same(run[p], run'[p]) /\ run'[p].todo = Tail(run[p].todo)
  <1>1. <<>> \in Seq(Cmd)
    OBVIOUS
  <1>2. Go(p, <<>>)
    BY Zenon DEF Done
  <1>3. /\ run' \in [Ifaces -> Proc] /\ Others(p)
        /\ Same(run[p], run'[p]) /\ run'[p].todo = <<>> \o Tail(run[p].todo)
    BY <1>1, <1>2, GoIs, Zenon
  <1>4. <<>> \o Tail(run[p].todo) = Tail(run[p].todo) /\ Tail(run[p].todo) # run[p].todo
    BY AtIs, Zenon
  <1> QED
    BY <1>3, <1>4, Zenon

\* exit ends the process: nothing is left for it to run.
LEMMA ExitIs ==
  ASSUME Types, NEW p \in Ifaces, NEW status \in {"ok", "failed"}, Exit(p, status)
  PROVE  /\ run' \in [Ifaces -> Proc] /\ Others(p)
         /\ run'[p].status = status /\ ~ run'[p].cleanup /\ ~ run'[p].exiting
  <1>1. run \in [Ifaces -> Proc]
    BY Zenon DEF Types
  <1> DEFINE r == [Idle EXCEPT !.status = status]
  <1>2. r \in Proc /\ r.status = status /\ ~ r.cleanup /\ ~ r.exiting
    <2>1. <<>> \in Seq(Cmd) /\ <<>> \in Seq(Line) /\ <<>> \in Seq(Value) /\ None \in Lst
      BY DEF Lst
    <2>2. NoOptions \in Options
      BY <2>1 DEF NoOptions, Options
    <2> QED
      BY <2>1, <2>2, Zenon DEF Proc, Idle
  <1>3. run' = [run EXCEPT ![p] = r]
    BY Zenon DEF Exit
  <1> HIDE DEF r
  <1>4. run' \in [Ifaces -> Proc] /\ Others(p) /\ run'[p] = r
    BY <1>1, <1>2, <1>3 DEF Others
  <1> QED
    BY <1>2, <1>4, Zenon

\* A step that changes neither links nor rules nor networks.
LEMMA KeptIs ==
  ASSUME Inv, NEW p \in Ifaces, run' \in [Ifaces -> Proc], Others(p), UNCHANGED <<link, rules, nets>>,
         faults' \in 0..MaxFaults, dirty' = dirty \/ dirty' = dirty \cup {p}
  PROVE  Frame(p) /\ link'[p] = link[p] /\ RulesOf(p)' = RulesOf(p) /\ NetsOf(p)' = NetsOf(p)
  <1>1. link' = link /\ rules' = rules /\ nets' = nets
    BY Zenon
  <1>2. Types'
    <2>1. /\ link \in [Ifaces -> LinkType] /\ rules \in SUBSET Rule
          /\ nets \in [Netids -> NetType] /\ dirty \in SUBSET Ifaces
      BY Zenon DEF Inv, Types
    <2>2. dirty' \in SUBSET Ifaces
      BY <2>1, Zenon
    <2> QED
      BY <1>1, <2>1, <2>2, Zenon DEF Types
  <1>3. Private(p)
    BY <1>1, Zenon DEF Private, Others, NetStep
  <1>4. RulesOf(p)' = RulesOf(p) /\ NetsOf(p)' = NetsOf(p)
    BY <1>1, Zenon DEF RulesOf, NetsOf
  <1> QED
    BY <1>1, <1>2, <1>3, <1>4, Zenon DEF Frame, Inv

\* A step that changes the link.
LEMMA SetLinkIs ==
  ASSUME Inv, NEW p \in Ifaces, Running(p), run[p].todo # <<>>, NEW l \in LinkType, l.exists \/ l = NoLink, SetLink(p, l)
  PROVE  /\ Frame(p) /\ link'[p] = l /\ RulesOf(p)' = RulesOf(p) /\ NetsOf(p)' = NetsOf(p)
         /\ nets' = nets /\ dirty' = dirty
         /\ Same(run[p], run'[p]) /\ run'[p].todo = Tail(run[p].todo)
  <1>1. link' = [link EXCEPT ![p] = l] /\ Done(p) /\ rules' = rules /\ nets' = nets /\ faults' = faults /\ dirty' = dirty
    BY Zenon DEF SetLink
  <1>2. /\ link \in [Ifaces -> LinkType] /\ rules \in SUBSET Rule
        /\ nets \in [Netids -> NetType] /\ dirty \in SUBSET Ifaces /\ faults \in 0..MaxFaults /\ Types
    BY Zenon DEF Inv, Types
  <1>3. /\ run' \in [Ifaces -> Proc] /\ Others(p) /\ run'[p] # run[p]
        /\ Same(run[p], run'[p]) /\ run'[p].todo = Tail(run[p].todo)
    BY <1>1, <1>2, DoneIs, Zenon
  <1>4. link' \in [Ifaces -> LinkType] /\ link'[p] = l /\ \A q \in Ifaces : q # p => link'[q] = link[q]
    BY <1>1, <1>2
  <1>5. Types'
    BY <1>1, <1>2, <1>3, <1>4, Zenon DEF Types
  <1>6. Private(p)
    BY <1>1, <1>3, <1>4, Zenon DEF Private, Others, NetStep
  <1>7. RulesOf(p)' = RulesOf(p) /\ NetsOf(p)' = NetsOf(p)
    BY <1>1, Zenon DEF RulesOf, NetsOf
  <1> QED
    BY <1>1, <1>3, <1>4, <1>5, <1>6, <1>7, Zenon DEF Frame

\* A step that changes the rules of p.
LEMMA SetRulesIs ==
  ASSUME Inv, NEW p \in Ifaces, Running(p), run[p].todo # <<>>, Done(p), UNCHANGED <<link, nets, faults, dirty>>,
         rules' \in SUBSET Rule, \A r \in Rule : r.iface # p => (r \in rules' <=> r \in rules)
  PROVE  /\ Frame(p) /\ link'[p] = link[p] /\ NetsOf(p)' = NetsOf(p) /\ nets' = nets /\ dirty' = dirty
         /\ Same(run[p], run'[p]) /\ run'[p].todo = Tail(run[p].todo)
  <1>1. link' = link /\ nets' = nets /\ faults' = faults /\ dirty' = dirty
    BY Zenon
  <1>2. /\ link \in [Ifaces -> LinkType]
        /\ nets \in [Netids -> NetType] /\ dirty \in SUBSET Ifaces /\ faults \in 0..MaxFaults /\ Types
    BY Zenon DEF Inv, Types
  <1>3. /\ run' \in [Ifaces -> Proc] /\ Others(p) /\ run'[p] # run[p]
        /\ Same(run[p], run'[p]) /\ run'[p].todo = Tail(run[p].todo)
    BY <1>1, <1>2, DoneIs, Zenon
  <1>4. Types'
    BY <1>1, <1>2, <1>3, Zenon DEF Types
  <1>5. Private(p)
    BY <1>1, <1>3, Zenon DEF Private, Others, NetStep
  <1>6. NetsOf(p)' = NetsOf(p)
    BY <1>1, Zenon DEF NetsOf
  <1>7. link'[p].exists \/ link'[p] = NoLink
    BY <1>1, Zenon DEF Inv
  <1> QED
    BY <1>1, <1>3, <1>4, <1>5, <1>6, <1>7, Zenon DEF Frame

\* A step that changes a network.
LEMMA SetNetIs ==
  ASSUME Inv, NEW p \in Ifaces, Running(p), run[p].todo # <<>>, NEW n \in Netids, NEW m \in NetType, SetNet(p, n, m), NetStep(p, n)
  PROVE  /\ Frame(p) /\ link'[p] = link[p] /\ RulesOf(p)' = RulesOf(p) /\ dirty' = dirty
         /\ nets'[n] = m /\ \A k \in Netids : k # n => nets'[k] = nets[k]
         /\ Same(run[p], run'[p]) /\ run'[p].todo = Tail(run[p].todo)
  <1>1. nets' = [nets EXCEPT ![n] = m] /\ Done(p) /\ rules' = rules /\ link' = link /\ faults' = faults /\ dirty' = dirty
    BY Zenon DEF SetNet
  <1>2. /\ link \in [Ifaces -> LinkType] /\ rules \in SUBSET Rule
        /\ nets \in [Netids -> NetType] /\ dirty \in SUBSET Ifaces /\ faults \in 0..MaxFaults /\ Types
    BY Zenon DEF Inv, Types
  <1>3. /\ run' \in [Ifaces -> Proc] /\ Others(p) /\ run'[p] # run[p]
        /\ Same(run[p], run'[p]) /\ run'[p].todo = Tail(run[p].todo)
    BY <1>1, <1>2, DoneIs, Zenon
  <1>4. nets' \in [Netids -> NetType] /\ nets'[n] = m /\ \A k \in Netids : k # n => nets'[k] = nets[k]
    BY <1>1, <1>2
  <1>5. Types'
    BY <1>1, <1>2, <1>3, <1>4, Zenon DEF Types
  <1>6. Private(p)
    <2>1. \A k \in Netids : NetStep(p, k)
      BY <1>4, Zenon DEF NetStep
    <2> QED
      BY <1>1, <1>3, <2>1, Zenon DEF Private, Others
  <1>7. RulesOf(p)' = RulesOf(p)
    BY <1>1, Zenon DEF RulesOf
  <1>8. link'[p].exists \/ link'[p] = NoLink
    BY <1>1, Zenon DEF Inv
  <1> QED
    BY <1>1, <1>3, <1>4, <1>5, <1>6, <1>7, <1>8, Zenon DEF Frame

-----------------------------------------------------------------------------
(* The stage of a process, by the command that is next *)

RestingNow(p) == Resting(p, run[p], link[p], RulesOf(p), NetsOf(p), dirty)
MakingNow(p) == Making(p, run[p], link[p], RulesOf(p), NetsOf(p), dirty)
MarkingNow(p) == Marking(p, run[p], link[p], RulesOf(p), NetsOf(p), dirty)
FillingNow(p) == Filling(p, run[p], link[p], RulesOf(p), NetsOf(p), dirty, nets[run[p].netid])
ClearingNow(p) == Clearing(p, run[p], link[p], RulesOf(p), NetsOf(p), dirty)

\* The next command tells which stage of cmd_up or of del_if a process is in.
LEMMA StageAt ==
  ASSUME Inv, NEW p \in Ifaces, NEW c, At(p, c)
  PROVE  /\ Types /\ Running(p) /\ run[p].todo # <<>> /\ Head(run[p].todo)[1] = c /\ run[p] \in Proc
         /\ Head(run[p].todo) \in Cmd
         /\ c \in {"ip link show", "wg show interfaces"} => RestingNow(p)
         /\ c \in {"link add", "wg addconf", "wg show listen-port"} => MakingNow(p)
         /\ c = "link up" => MakingNow(p) \/ MarkingNow(p)
         /\ c \in {"link down", "wg set fwmark", "rule", "network create"} => MarkingNow(p)
         /\ c = "network interface add" => LinkingNow(p)
         /\ c \in PostNames \ {"am broadcast"} => FillingNow(p)
         /\ c = "am broadcast" => FillingNow(p) \/ ClearingNow(p)
         /\ c \in DelNames \ {"am broadcast"} => ClearingNow(p)
  <1>1. Types /\ Stage(p) /\ Running(p) /\ run[p].todo # <<>> /\ Head(run[p].todo)[1] = c
    BY Zenon DEF Inv, At
  <1>2. run[p] \in Proc /\ Head(run[p].todo) \in Cmd
    BY <1>1, AtIs, Zenon
  <1>3. run[p].status = "running"
    BY <1>1, Zenon DEF Running
  <1>4. /\ RestingNow(p) => c \in {"ip link show", "wg show interfaces"}
        /\ MakingNow(p) => c \in {"link add", "wg addconf", "link up", "wg show listen-port"}
        /\ MarkingNow(p) => c \in PreNames \cup {"network create"}
        /\ LinkingNow(p) => c = "network interface add"
        /\ FillingNow(p) => c \in PostNames
        /\ ClearingNow(p) => c \in DelNames
    BY <1>1, <1>2, <1>3, HeadNames, Zenon DEF RestingNow, MakingNow, MarkingNow, LinkingNow, FillingNow, ClearingNow
  <1>5. RestingNow(p) \/ MakingNow(p) \/ MarkingNow(p) \/ LinkingNow(p) \/ FillingNow(p) \/ ClearingNow(p)
    BY <1>1, Zenon DEF Stage, PlacedNow, Placed, RestingNow, MakingNow, MarkingNow, LinkingNow, FillingNow, ClearingNow
  <1>6. /\ c \in {"ip link show", "wg show interfaces"} => RestingNow(p)
        /\ c \in {"link add", "wg addconf", "wg show listen-port"} => MakingNow(p)
        /\ c = "link up" => MakingNow(p) \/ MarkingNow(p)
        /\ c \in {"link down", "wg set fwmark", "rule", "network create"} => MarkingNow(p)
        /\ c = "network interface add" => LinkingNow(p)
    BY <1>4, <1>5, Zenon DEF PreNames, PostNames, DelNames
  <1>7. /\ c \in PostNames \ {"am broadcast"} => FillingNow(p)
        /\ c = "am broadcast" => FillingNow(p) \/ ClearingNow(p)
    BY <1>4, <1>5, Zenon DEF PreNames, PostNames, DelNames
  <1>8. c \in DelNames \ {"am broadcast"} => ClearingNow(p)
    BY <1>4, <1>5, Zenon DEF PreNames, PostNames, DelNames
  <1> QED
    BY <1>1, <1>2, <1>6, <1>7, <1>8, Zenon

\* The lists of cmd_up and cmd_down.
LEMMA MakeList ==
  LET t == add_if \o set_config \o determine_listen_port
  IN  t \in Seq(Cmd) /\ t \in MakingLists /\ Head(t) = <<"link add">>
  <1>a. ASSUME NEW S, NEW s \in Seq(S), NEW t \in Seq(S), Len(s) = Len(t), \A k \in 1..Len(s) : s[k] = t[k]
        PROVE  s = t
    BY <1>a
  <1>b. ASSUME NEW a \in Cmd, NEW b \in Cmd, NEW c \in Cmd, NEW d \in Cmd
        PROVE  (<<a>> \o <<b>>) \o <<c, d>> = <<a, b, c, d>>
    <2> DEFINE s == <<a>>
               t == <<b>>
               u == <<c, d>>
               w == <<a, b, c, d>>
               x == s \o t
               y == x \o u
    <2>1. s \in Seq(Cmd) /\ t \in Seq(Cmd) /\ u \in Seq(Cmd) /\ w \in Seq(Cmd)
      OBVIOUS
    <2>2. /\ Len(s) = 1 /\ s[1] = a /\ Len(t) = 1 /\ t[1] = b /\ Len(u) = 2 /\ u[1] = c /\ u[2] = d
          /\ Len(w) = 4 /\ w[1] = a /\ w[2] = b /\ w[3] = c /\ w[4] = d
      OBVIOUS
    <2> HIDE DEF s, t, u, w
    <2>3. /\ x \in Seq(Cmd) /\ Len(x) = Len(s) + Len(t)
          /\ \A k \in 1..Len(s) : x[k] = s[k]
          /\ \A k \in 1..Len(t) : x[k + Len(s)] = t[k]
      BY <2>1, JoinIs
    <2> HIDE DEF x
    <2>4. /\ y \in Seq(Cmd) /\ Len(y) = Len(x) + Len(u)
          /\ \A k \in 1..Len(x) : y[k] = x[k]
          /\ \A k \in 1..Len(u) : y[k + Len(x)] = u[k]
      <3>1. x \in Seq(Cmd) /\ u \in Seq(Cmd)
        BY <2>1, <2>3, Zenon
      <3> QED
        BY <3>1, JoinIs
    <2> HIDE DEF y
    <2>5. Len(y) = 4 /\ y[1] = a /\ y[2] = b /\ y[3] = c /\ y[4] = d
      BY <2>2, <2>3, <2>4
    <2>6. \A k \in 1..Len(y) : y[k] = w[k]
      <3>1. \A k \in 1..4 : k = 1 \/ k = 2 \/ k = 3 \/ k = 4
        OBVIOUS
      <3> QED
        BY <2>2, <2>5, <3>1, Zenon
    <2>7. y = w
      <3>1. Len(y) = Len(w)
        BY <2>2, <2>5, Zenon
      <3> QED
        BY <2>1, <2>4, <2>6, <3>1, <1>a
    <2> QED
      BY <2>7, Zenon DEF y, x, s, t, u, w
  <1> DEFINE a == <<"link add">>
             b == <<"wg addconf">>
             c == <<"link up">>
             d == <<"wg show listen-port">>
             t == add_if \o set_config \o determine_listen_port
  <1>1. a \in Cmd /\ b \in Cmd /\ c \in Cmd /\ d \in Cmd
    BY Zenon DEF Cmd, Words
  <1>2. t = (<<a>> \o <<b>>) \o <<c, d>> /\ <<a, b, c, d>> \in MakingLists
    BY Zenon DEF add_if, set_config, determine_listen_port, MakingLists
  <1>3. a = <<"link add">>
    BY Zenon
  <1> HIDE DEF a, b, c, d, t
  <1>5. (<<a>> \o <<b>>) \o <<c, d>> = <<a, b, c, d>>
    BY <1>1, <1>b, Zenon
  <1>6. <<a, b, c, d>> \in Seq(Cmd) /\ Head(<<a, b, c, d>>) = a
    BY <1>1
  <1>7. t = <<a, b, c, d>>
    BY <1>2, <1>5, Zenon
  <1> QED
    BY <1>2, <1>3, <1>6, <1>7, Zenon DEF t

Broadcasts(b) == \A c \in Range(b) : c[1] = "am broadcast"

\* del_if, and a broadcast after it.
LEMMA DelList ==
  ASSUME NEW b \in Seq(Cmd), Len(b) <= 1, Broadcasts(b)
  PROVE  LET t == del_if \o b
         IN  /\ t \in Seq(Cmd) /\ IsClearing(t)
             /\ <<"link del">> \in Range(t) /\ <<"ip rule show">> \in Range(t)
             /\ <<"save", "4">> \in Range(t) /\ <<"save", "6">> \in Range(t)
             /\ \A c \in Range(t) : c[1] # "rule del" /\ c[1] # "network destroy"
  <1> DEFINE x == <<"link del">>
             y == <<"save", "4">>
             z == <<"save", "6">>
             w == <<"ip rule show">>
  <1>1. x \in Cmd /\ y \in Cmd /\ z \in Cmd /\ w \in Cmd
    BY Zenon DEF Cmd, Words, Family
  <1>2. x[1] = "link del" /\ y[1] = "save" /\ z[1] = "save" /\ w[1] = "ip rule show"
    OBVIOUS
  <1>3. del_if = <<x, y, z, w>>
    BY Zenon DEF del_if
  <1>4. x[1] \in DelNames /\ y[1] \in DelNames /\ z[1] \in DelNames /\ w[1] \in DelNames
    BY <1>2, Zenon DEF DelNames
  <1>5. x = <<"link del">> /\ y = <<"save", "4">> /\ z = <<"save", "6">> /\ w = <<"ip rule show">>
    BY Zenon
  <1> HIDE DEF x, y, z, w
  <1> DEFINE s == <<x, y, z, w>>
             L == Len(b)
             t == s \o b
  <1>6. s \in Seq(Cmd) /\ Len(s) = 4 /\ s[1] = x /\ s[2] = y /\ s[3] = z /\ s[4] = w /\ DOMAIN s = 1..4
    BY <1>1
  <1>7. (L = 0 \/ L = 1) /\ L \in Nat /\ \A k \in 1..L : b[k] \in Range(b)
    <2>0. \A n \in Nat : n <= 1 => n = 0 \/ n = 1
      OBVIOUS
    <2>1. (L = 0 \/ L = 1) /\ L \in Nat /\ DOMAIN b = 1..L
      <3>1. L \in Nat /\ DOMAIN b = 1..L
        OBVIOUS
      <3> QED
        BY <2>0, <3>1, Zenon
    <2>2. \A k \in DOMAIN b : b[k] \in Range(b)
      BY Zenon DEF Range
    <2> QED
      BY <2>1, <2>2, Zenon
  <1> HIDE DEF s
  <1>8. t \in Seq(Cmd) /\ Len(t) = 4 + L /\ (\A k \in 1..4 : t[k] = s[k]) /\ (\A k \in 1..L : t[k + 4] = b[k])
        /\ Range(t) = Range(s) \cup Range(b)
    <2>1. s \in Seq(Cmd) /\ b \in Seq(Cmd)
      BY <1>6, Zenon
    <2>2. /\ t \in Seq(Cmd) /\ Len(t) = Len(s) + L /\ (\A k \in 1..Len(s) : t[k] = s[k])
          /\ (\A k \in 1..L : t[k + Len(s)] = b[k])
          /\ Range(t) = Range(s) \cup Range(b)
      BY <2>1, JoinIs
    <2> QED
      BY <1>6, <2>2, Zenon
  <1> HIDE DEF t, L
  <1>9. \A k : k \in 1..4 <=> (k = 1 \/ k = 2 \/ k = 3 \/ k = 4)
    BY SMT
  <1>10. Range(s) = {x, y, z, w}
    BY <1>6, <1>9, Zenon DEF Range
  <1>11. \A k \in 1..Len(t) : (k \in 1..4) \/ (L = 1 /\ k = 1 + 4 /\ k = Len(t) /\ 1 \in 1..L)
    BY <1>7, <1>8
  <1>12. IsClearing(t)
    <2> SUFFICES ASSUME NEW k \in 1..Len(t)
                 PROVE  /\ t[k][1] \in DelNames
                        /\ t[k][1] = "am broadcast" => k = Len(t)
                        /\ t[k][1] \in {"link del", "network destroy"} => k = 1
      BY Zenon DEF IsClearing
    <2>1. CASE k \in 1..4
      <3>1. t[k] = s[k] /\ (k = 1 \/ k = 2 \/ k = 3 \/ k = 4)
        BY <1>8, <1>9, <2>1, Zenon
      <3> QED
        BY <1>2, <1>4, <1>6, <3>1, Zenon
    <2>2. CASE L = 1 /\ k = 1 + 4 /\ k = Len(t) /\ 1 \in 1..L
      <3>1. t[k] \in Range(b)
        BY <1>7, <1>8, <2>2, Zenon
      <3> QED
        BY <2>2, <3>1, Zenon DEF DelNames, Broadcasts
    <2> QED
      BY <1>11, <2>1, <2>2, Zenon
  <1>13. del_if \o b = t
    BY <1>3, Zenon DEF t, s
  <1> QED
    BY <1>2, <1>5, <1>8, <1>10, <1>12, <1>13, Zenon DEF Broadcasts

=============================================================================
