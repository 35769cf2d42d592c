---------------------------- MODULE MCProcScan ------------------------------
(***************************************************************************)
(* Two pids, so that one can be used again and a socket can go to the      *)
(* other; a program with TLS and one without, run by different users.  One *)
(* number is listened on at an address of the network and on localhost,    *)
(* there with IPv6, which netstat.go cannot read and PowerShell lists.     *)
(***************************************************************************)
EXTENDS ProcScan

MCUserOf == [g \in Program |-> IF g = "nginx" THEN "www" ELSE "root"]

SocketOf(protocol, h, n, state) ==
    [protocol |-> protocol, local |-> [host |-> h, port |-> n],
     foreign |-> [host |-> "0.0.0.0", port |-> 0], state |-> state]

network == SocketOf("tcp", "10.0.0.5", 443, "LISTEN")
loopback == SocketOf("tcp", "localhost", 443, "LISTEN")
loopback6 == SocketOf("tcp6", "::1", 443, "LISTEN")
syslog == SocketOf("udp", "localhost", 514, "")

MCSockets == {network, loopback6, syslog}
MCNetworkAndLoopback == {network, loopback}
MCOne == {loopback}
MCKeyAlgos == <<"rsa", "ed25519">>
=============================================================================
