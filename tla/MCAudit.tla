------------------------------ MODULE MCAudit -------------------------------
(* Up to two rows of hosts, web/1, web/10 and db/1 among them, and processes *)
(* that differ in user, address, state and port.                            *)
EXTENDS Audit

P(i, n, u, ports) == [row |-> i, name |-> n, user |-> u, ports |-> ports]
Q(n, s, a) == [number |-> n, state |-> s, address |-> a]

web1 == {
    P(1, "nginx", "root", {Q(80, "LISTEN", "0.0.0.0")}),
    P(1, "nginx", "www", {Q(80, "ESTABLISHED", "10.0.0.1")}),
    P(1, "sshd", "root", {Q(22, "LISTEN", "0.0.0.0"), Q(2222, "LISTEN", "0.0.0.0")}),
    P(1, "dhclient", "", {Q(68, "LISTEN", "0.0.0.0")})}
both == {
    P(1, "nginx", "root", {Q(80, "LISTEN", "0.0.0.0")}),
    P(2, "nginx", "root", {Q(80, "LISTEN", "127.0.0.1"), Q(22, "LISTEN", "0.0.0.0")})}

\* Up to two processes on web/1 alone, on two hosts, and on two rows of one name.
MCScans ==
    {d \in [hosts : {<<"web/1">>}, procs : SUBSET web1] : Cardinality(d.procs) <= 2}
    \cup [hosts : {<<"web/1", "web/1">>, <<"web/1", "db/1">>, <<"web/10", "web/1">>}, procs : SUBSET both]

E(c, u, ports, ignore) == [command |-> c, user |-> u, ports |-> ports, ignore |-> ignore]
web(ps) == [prefix |-> "web/", processes |-> ps]

MCManifests == {
    <<>>,
    <<web(<<E("sshd", "root", {22}, FALSE), E("sshd", "root", {}, TRUE)>>)>>,
    <<web(<<>>), [prefix |-> "d_", processes |-> <<>>], [prefix |-> "db", processes |-> <<>>]>>,
    <<web(<<E("nginx", "root", {80}, FALSE)>>)>>}

MCHasPrefix ==
    {<<"web/", "web/1">>, <<"web/", "web/10">>, <<"web/1", "web/1">>, <<"web/1", "web/10">>,
     <<"web/10", "web/10">>, <<"db", "db/1">>, <<"db/1", "db/1">>}
MCLike == MCHasPrefix \cup {<<"d_", "db/1">>}

\* One machine with a server on two ports.
MCServerScans ==
    {[hosts |-> <<"web/1">>, procs |-> ps] :
        ps \in SUBSET {P(1, "nginx", "root", {Q(n, "LISTEN", "0.0.0.0")}) : n \in 80..81}}
=============================================================================
