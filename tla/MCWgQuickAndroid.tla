--------------------------- MODULE MCWgQuickAndroid ---------------------------
(* WgQuickAndroid on small instances. *)
EXTENDS WgQuickAndroid, TLC

L(k, v) == [key |-> k, val |-> v]

\* Excluded applications at the upper boundary; included ones, with a name
\* that is not installed; both, which is an error.
Excluding == <<L("[Interface]", <<>>), L("Address", <<"a4", "a6">>), L("DNS", <<"d4", "host">>),
               L("ExcludedApplications", <<"b", "a">>), L("ExcludedApplications", <<"c">>),
               L("[Peer]", <<>>), L("Endpoint", <<"e4">>), L("AllowedIPs", <<"r1", "r2">>)>>
Including == <<L("[Interface]", <<>>), L("Address", <<"a4">>), L("DNS", <<"host">>), L("MTU", <<1280>>),
               L("IncludedApplications", <<"c", "x", "a">>), L("[Peer]", <<>>), L("AllowedIPs", <<"r1">>)>>
Both      == <<L("[Interface]", <<>>), L("IncludedApplications", <<"a">>), L("ExcludedApplications", <<>>)>>

MCFiles == {Excluding, Including, Both}
MCIfaces == {<<"w", "0">>, <<"w", "1">>}
MCAppIfaces == {<<"w", "0">>}
MCPackages == [a |-> 2, b |-> 4, c |-> 5]
MCRouteMtu == [default |-> 1500, e4 |-> 1400]
Symmetry == Permutations(Netids)

=============================================================================
