------------------------------ MODULE Netstat -------------------------------
(***************************************************************************)
(* netstat/netstat.go: what scantron reads from the output of              *)
(*   netstat -at -4 -6 --numeric-ports -u -p                               *)
(*                                                                         *)
(* A line is a record of its fields, as process_linux.go has netstat print *)
(* them.  An address is a host and a port; netstat prints port 0 as "*".   *)
(* Hosts are printed by name where they have one, since --numeric-ports    *)
(* does not concern them.  pid 0 stands for "-": no process is known.      *)
(***************************************************************************)
EXTENDS Integers

CONSTANT IPv6   \* the hosts that are printed as IPv6 addresses, with colons

Protocol == {"tcp", "tcp6", "udp", "udp6"}

\* A line that names no process is skipped, and so are headings and the lines
\* of other protocols.
parseNetstatLine(line) == line.protocol \in Protocol /\ line.pid # 0

\* "::" is put into brackets, once: ":::22" becomes "[::]:22", but "::1:22"
\* becomes "[::]1:22" and "fe80::1:22" becomes "fe80[::]1:22", which
\* net.SplitHostPort refuses, as it does an address with more single colons.
\* The error is logged, and the address is empty.
splitAddress(a) ==
    IF a.host \in IPv6 \ {"::"} THEN [host |-> "", number |-> -1]
    ELSE [host |-> a.host, number |-> IF a.port = 0 THEN -1 ELSE a.port]

createNetstatPort(line) ==
    LET local == splitAddress(line.local)
        foreign == splitAddress(line.foreign)
    IN  [protocol |-> line.protocol, state |-> line.state,
         address |-> local.host, number |-> local.number,
         foreignAddress |-> foreign.host, foreignNumber |-> foreign.number]
=============================================================================
