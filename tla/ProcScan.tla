------------------------------ MODULE ProcScan ------------------------------
(***************************************************************************)
(* proc_scan on one machine (cmd/proc_scan/main.go) with the process scan  *)
(* of process/process_scanner.go, process_linux.go and process_windows.go  *)
(* and the key scan of ssh/ssh_scanner.go, up to what scanMachine of       *)
(* scanner/scanner.go makes of its output.                                 *)
(*                                                                         *)
(* The program itself is sequential, but it looks at a machine that goes   *)
(* on working: it lists the processes, their users and the sockets one     *)
(* after the other, and then connects to the number of each listening      *)
(* socket on localhost, twice.  In between processes end, pids are used    *)
(* again and sockets change hands.  Its output is one JSON document, or it *)
(* exits with an error.                                                    *)
(***************************************************************************)
EXTENDS Netstat, FiniteSets, Sequences

CONSTANTS
    Pid,
    Program,
    Socket,        \* the sockets that may be open, as lines of netstat without pid
    Local,         \* the hosts whose sockets a connection to localhost may reach
    UserOf,        \* UserOf[g]: the user that program g runs as
    ServesTLS,     \* the programs that serve TLS on every socket they listen on
    HostKeys,      \* the algorithms sshd has a host key for
    keyAlgos,      \* the algorithms ScanSSH asks for, in its order
    MaxFaults,     \* bound: the changes of the machine and the failures of what
                   \* proc_scan asks, that do not end it, during the scan
    Nobody         \* in place of a program: the pid is free

ASSUME MachineAssumption ==
    /\ Pid \subseteq Nat \ {0} /\ Nobody \notin Program
    /\ UserOf \in [Program -> STRING] /\ "" \notin {UserOf[g] : g \in Program}
    /\ ServesTLS \subseteq Program
    /\ \A s \in Socket : s.protocol \in Protocol /\ s.state \in {"LISTEN", "ESTABLISHED", ""}

\* ScanSSH asks for each algorithm once.
ASSUME KeyAssumption ==
    /\ keyAlgos \in Seq({keyAlgos[i] : i \in DOMAIN keyAlgos})
    /\ \A i, j \in DOMAIN keyAlgos : keyAlgos[i] = keyAlgos[j] => i = j

ASSUME FaultsAssumption == MaxFaults \in Nat

VARIABLES
    os,         \* the machine: "linux" or "windows"
    runs,       \* the machine: the program that runs under each pid
    owner,      \* the machine: the pids that have each socket open, one or none
    faults,     \* the changes and failures so far
    restarted,  \* history: the pids that changed programs during the scan
    moved,      \* history: the sockets that changed owners during the scan
    pc,         \* where proc_scan is
    name,       \* the listed processes, a function of their pids
    user,       \* the users read so far, a function of pids
    listed,     \* ProcessPorts, as pairs of a socket and a pid
    scanned,    \* TLSInformation of the sockets tried so far
    fetching,   \* the sockets whose ciphers are known and certificate is not
    sshKeys,    \* the algorithms of the keys received so far
    dialled,    \* how many of keyAlgos were asked for
    outcome,    \* of scanMachine: "none", "reported" or "failed"
    host        \* the processes that scanMachine returns

machine == <<os, runs, owner, restarted, moved>>
looks == <<name, user, listed>>
tls == <<scanned, fetching>>
ssh == <<sshKeys, dialled>>
result == <<outcome, host>>
vars == <<machine, faults, pc, looks, tls, ssh, result>>

\* TLSInformation: nil, with a certificate, or with a ScanError.
TLSInformation == {"nil", "certificate", "error"}

Taken(p) == runs[p] # Nobody
Owners == {{}} \cup {{p} : p \in {p \in Pid : Taken(p)}}

Init ==
    /\ os \in {"linux", "windows"}
    /\ runs \in [Pid -> Program \cup {Nobody}]
    /\ owner \in [Socket -> Owners]
    /\ faults = 0 /\ restarted = {} /\ moved = {}
    /\ pc = "processes"
    \* <<>> is the function of no argument.
    /\ name = <<>> /\ user = <<>> /\ listed = {} /\ scanned = <<>> /\ fetching = {}
    /\ sshKeys = <<>> /\ dialled = 0
    /\ outcome = "none" /\ host = {}

-----------------------------------------------------------------------------
(* The machine: processes end and start, and open and close sockets, up to *)
(* the last look that proc_scan has at them.                               *)

Fault == faults < MaxFaults /\ faults' = faults + 1
NoFault == UNCHANGED faults

Change ==
    /\ pc \in {"processes", "users", "ports", "tcp", "tls"} /\ Fault
    /\ UNCHANGED <<os, pc, looks, tls, ssh, result>>

ProcessEnds(p) ==
    /\ Change /\ Taken(p)
    /\ runs' = [runs EXCEPT ![p] = Nobody]
    /\ owner' = [s \in Socket |-> owner[s] \ {p}]
    /\ restarted' = restarted \cup {p}
    /\ moved' = moved \cup {s \in Socket : p \in owner[s]}

ProcessStarts(p) ==
    /\ Change /\ ~Taken(p)
    /\ \E g \in Program : runs' = [runs EXCEPT ![p] = g]
    /\ restarted' = restarted \cup {p}
    /\ UNCHANGED <<owner, moved>>

SocketMoves(s) ==
    /\ Change
    /\ \E o \in Owners \ {owner[s]} :
          (o = {} \/ owner[s] = {}) /\ owner' = [owner EXCEPT ![s] = o]
    /\ moved' = moved \cup {s}
    /\ UNCHANGED <<runs, restarted>>

MachineStep ==
    \/ \E p \in Pid : ProcessEnds(p) \/ ProcessStarts(p)
    \/ \E s \in Socket : SocketMoves(s)

-----------------------------------------------------------------------------
(* The processes and their sockets.                                        *)

Goto(l) == pc' = l /\ UNCHANGED result

\* os.Exit(1), or a panic: scanMachine returns RunCommand's error, and nothing
\* is left of the program.
Forget ==
    /\ name' = <<>> /\ user' = <<>> /\ listed' = {} /\ scanned' = <<>> /\ fetching' = {}
    /\ sshKeys' = <<>> /\ dialled' = 0

Exit ==
    /\ pc' = "returned" /\ outcome' = "failed" /\ Forget
    /\ UNCHANGED <<machine, faults, host>>

Listing == {p \in Pid : Taken(p)}

\* go-ps lists pids and names; PowerShell lists the owners with them, and
\* GetOwner may find none.
GetProcesses ==
    /\ pc = "processes"
    /\ Goto(IF os = "linux" THEN "users" ELSE "ports")
    /\ name' = [p \in Listing |-> runs[p]]
    /\ \/ os = "linux" /\ UNCHANGED user /\ NoFault
       \/ os = "windows" /\ user' = [p \in Listing |-> UserOf[runs[p]]] /\ NoFault
       \/ os = "windows" /\ Fault /\ \E known \in SUBSET Listing :
             user' = [p \in Listing |-> IF p \in known THEN UserOf[runs[p]] ELSE ""]
    /\ UNCHANGED <<machine, listed, tls, ssh>>

GetProcessesFails == pc = "processes" /\ Exit

\* ps is asked for the user of the pid, whoever has it by now.
getUser(p) ==
    /\ pc = "users" /\ p \in DOMAIN name \ DOMAIN user
    /\ \E u \in {"", IF Taken(p) THEN UserOf[runs[p]] ELSE ""} :
          /\ user' = [r \in DOMAIN user \cup {p} |-> IF r = p THEN u ELSE user[r]]
          /\ IF Taken(p) /\ u = "" THEN Fault ELSE NoFault
    /\ UNCHANGED <<machine, pc, name, listed, tls, ssh, result>>

UsersRead ==
    /\ pc = "users" /\ DOMAIN user = DOMAIN name
    /\ Goto("ports")
    /\ UNCHANGED <<machine, faults, looks, tls, ssh>>

Line(s, p) == [protocol |-> s.protocol, local |-> s.local, foreign |-> s.foreign,
               state |-> s.state, pid |-> p]
OpenSockets(ss) == {x \in ss \X Pid : x[2] \in owner[x[1]]}
UDP == {s \in Socket : s.protocol \in {"udp", "udp6"}}

\* netstat; its error is dropped, and then there are no ports.
GetPortsLinux ==
    /\ pc = "ports" /\ os = "linux"
    /\ \/ listed' = {x \in OpenSockets(Socket) : parseNetstatLine(Line(x[1], x[2]))} /\ NoFault
       \/ listed' = {} /\ Fault
    /\ Goto("tls")
    /\ UNCHANGED <<machine, name, user, tls, ssh>>

\* PowerShell lists the UDP endpoints, and then the TCP connections; without
\* both there are no ports.
GetUDPEndpoints ==
    /\ pc = "ports" /\ os = "windows"
    /\ \/ listed' = OpenSockets(UDP) /\ Goto("tcp") /\ NoFault
       \/ listed' = {} /\ Goto("tls") /\ Fault
    /\ UNCHANGED <<machine, name, user, tls, ssh>>

\* Fault: the endpoints stay when the connections cannot be listed.
GetTCPOrKeepUDP ==
    /\ pc = "tcp"
    /\ \/ listed' = listed \cup OpenSockets(Socket \ UDP) /\ NoFault
       \/ listed' = listed /\ Fault
    /\ Goto("tls")
    /\ UNCHANGED <<machine, name, user, tls, ssh>>

GetTCPConnections ==
    /\ pc = "tcp"
    /\ \/ listed' = listed \cup OpenSockets(Socket \ UDP) /\ NoFault
       \/ listed' = {} /\ Fault
    /\ Goto("tls")
    /\ UNCHANGED <<machine, name, user, tls, ssh>>

\* The Port of a listed socket: netstat's line is parsed, PowerShell's JSON has
\* the fields as they are, and the state spelled otherwise.
PortOf(s) ==
    IF os = "linux" THEN createNetstatPort(Line(s, 1))
    ELSE [protocol |-> IF s \in UDP THEN "udp" ELSE "tcp",
          state |-> CASE s.state = "LISTEN" -> "Listen"
                      [] s.state = "ESTABLISHED" -> "Established"
                      [] s.state = "" -> "",
          address |-> s.local.host, number |-> s.local.port,
          foreignAddress |-> s.foreign.host, foreignNumber |-> s.foreign.port]

-----------------------------------------------------------------------------
(* TLS on the listening sockets of the listed processes.                   *)

LocalPortsForPID(p) == {s \in Socket : <<s, p>> \in listed}

\* Fault: the sockets of all pids are scanned, listed or not.
ToScanAll == {x[1] : x \in {x \in listed : x[1].state = "LISTEN"}}

\* Only sockets that listen are scanned, in either spelling, and not UDP.
ToScan ==
    {s \in UNION {LocalPortsForPID(p) : p \in DOMAIN name} : s.state = "LISTEN"}

Record(s, info) ==
    scanned' = [t \in DOMAIN scanned \cup {s} |-> IF t = s THEN info ELSE scanned[t]]

\* The sockets that may answer a connection to this number of localhost.
Reached(n) == {t \in Socket : /\ t.state = "LISTEN" /\ t.local.host \in Local
                              /\ t.local.port = n}

\* TLS is served on localhost at the number of s, whatever address s has.
AnswersTLS(s) ==
    \E t \in Reached(PortOf(s).number) : \E p \in owner[t] : runs[p] \in ServesTLS

\* TlsScan.Scan: no TLS if nobody answers in time; and if somebody does, an
\* error is kept where the table of cipher suites cannot be read.
ScanCiphers(s) ==
    /\ pc = "tls" /\ s \in ToScan \ DOMAIN scanned /\ fetching = {}
    /\ \/ Record(s, "nil") /\ UNCHANGED fetching /\ IF AnswersTLS(s) THEN Fault ELSE NoFault
       \/ AnswersTLS(s) /\ fetching' = {s} /\ UNCHANGED scanned /\ NoFault
       \/ AnswersTLS(s) /\ Record(s, "error") /\ UNCHANGED fetching /\ Fault
    /\ UNCHANGED <<machine, pc, looks, ssh, result>>

\* Fault: a failed fetch is tried again.
FetchAgain(s) ==
    /\ pc = "tls" /\ s \in fetching
    /\ \/ AnswersTLS(s) /\ Record(s, "certificate") /\ fetching' = {}
       \/ UNCHANGED tls
    /\ UNCHANGED <<machine, faults, pc, looks, ssh, result>>

\* FetchTLSInformation: a certificate, or an error that is kept.
FetchTLSInformation(s) ==
    /\ pc = "tls" /\ s \in fetching /\ fetching' = {}
    /\ \/ AnswersTLS(s) /\ Record(s, "certificate") /\ NoFault
       \/ Record(s, "error") /\ IF AnswersTLS(s) THEN Fault ELSE NoFault
    /\ UNCHANGED <<machine, pc, looks, ssh, result>>

\* A key that is neither RSA nor ECDSA makes it panic.
FetchPanics(s) == pc = "tls" /\ s \in fetching /\ AnswersTLS(s) /\ Exit

\* tls.Dial in FetchTLSInformation and ssh.Dial have no timeout: nothing is
\* ever heard of the program again.
Hang ==
    /\ (pc = "tls" /\ fetching # {}) \/ pc = "keys"
    /\ Goto("hung") /\ Forget
    /\ UNCHANGED <<machine, faults>>

ProcessesScanned ==
    /\ pc = "tls" /\ fetching = {} /\ ToScan \subseteq DOMAIN scanned
    /\ Goto("files")
    /\ UNCHANGED <<machine, faults, looks, tls, ssh>>

-----------------------------------------------------------------------------
(* Files, keys and the output.                                             *)

\* The file walk of FileWalker.tla: it succeeds or ends it all.
ScanFiles ==
    /\ pc = "files"
    /\ \/ Goto("keys") /\ UNCHANGED <<machine, faults, looks, tls, ssh>>
       \/ Exit

\* One connection for each algorithm, on localhost:22.  The callback has the
\* key before the login fails, with an error of package ssh, as it does when
\* sshd has no such key or ends the handshake early; any other error ends
\* the scan of the machine.
DialKey ==
    /\ pc = "keys" /\ dialled < Len(keyAlgos)
    /\ dialled' = dialled + 1
    /\ \/ /\ keyAlgos[dialled + 1] \in HostKeys
          /\ sshKeys' = Append(sshKeys, keyAlgos[dialled + 1])
          /\ NoFault
       \/ /\ UNCHANGED sshKeys
          /\ IF keyAlgos[dialled + 1] \in HostKeys THEN Fault ELSE NoFault
    /\ UNCHANGED <<machine, pc, looks, tls, result>>

DialFails == pc = "keys" /\ dialled < Len(keyAlgos) /\ Exit

ScanSSH ==
    \/ DialKey \/ DialFails
    \/ /\ pc = "keys" /\ dialled = Len(keyAlgos)
       /\ Goto("encode")
       /\ UNCHANGED <<machine, faults, looks, tls, ssh>>

\* SystemInfo.Processes.  `of` is the socket a port was read from.
Processes ==
    {[pid |-> p, name |-> name[p], user |-> user[p],
      ports |-> {[of |-> s, port |-> PortOf(s),
                  tls |-> IF s \in DOMAIN scanned THEN scanned[s] ELSE "nil"]
                   : s \in LocalPortsForPID(p)}] : p \in DOMAIN name}

\* json.Encode writes a ScanError as an object, and json.Decode cannot read an
\* object into a field of the interface type error: scanMachine then fails.
Decode ==
    /\ pc = "encode"
    /\ pc' = "returned"
    /\ IF \E s \in DOMAIN scanned : scanned[s] = "error"
       THEN outcome' = "failed" /\ UNCHANGED host
       ELSE outcome' = "reported" /\ host' = Processes
    /\ UNCHANGED <<machine, faults, looks, tls, ssh>>

ScanStep ==
    \/ GetProcesses \/ GetProcessesFails \/ (\E p \in Pid : getUser(p)) \/ UsersRead
    \/ GetPortsLinux \/ GetUDPEndpoints \/ GetTCPConnections
    \/ (\E s \in Socket : ScanCiphers(s) \/ FetchTLSInformation(s) \/ FetchPanics(s))
    \/ ProcessesScanned \/ ScanFiles \/ ScanSSH \/ Decode

Terminated == pc \in {"returned", "hung"} /\ UNCHANGED vars

Next == MachineStep \/ ScanStep \/ Hang \/ Terminated

\* proc_scan goes on whatever the machine does, unless a server keeps silent.
Spec == Init /\ [][Next]_vars /\ WF_vars(ScanStep)

-----------------------------------------------------------------------------
(* Properties.                                                             *)

Pcs == {"processes", "users", "ports", "tcp", "tls", "files", "keys", "encode",
        "returned", "hung"}

\* The types of the variables; only sockets of listed processes are connected to.
TypeOK ==
    /\ os \in {"linux", "windows"} /\ pc \in Pcs /\ faults \in 0..MaxFaults
    /\ runs \in [Pid -> Program \cup {Nobody}]
    /\ owner \in [Socket -> {{}} \cup {{p} : p \in Pid}]
    /\ restarted \subseteq Pid /\ moved \subseteq Socket
    /\ DOMAIN user \subseteq DOMAIN name /\ DOMAIN name \subseteq Pid
    /\ listed \subseteq Socket \X Pid
    /\ \A s \in DOMAIN scanned \cup fetching :
          s.state = "LISTEN" /\ \E p \in DOMAIN name : <<s, p>> \in listed
    /\ \A s \in DOMAIN scanned : scanned[s] \in TLSInformation
    /\ sshKeys \in Seq(HostKeys) /\ dialled \in 0..Len(keyAlgos)
    /\ outcome \in {"none", "reported", "failed"}

PortsTrue(r) ==
    \A i \in r.ports : i.of \notin moved => owner[i.of] = {r.pid}
PortsComplete(r) ==
    \A s \in Socket \ moved : owner[s] = {r.pid} => \E i \in r.ports : i.of = s
\* Something that localhost reaches at the number of port i serves TLS, or did
\* so before it changed.
CertificateTrue(i) ==
    \E t \in Reached(i.port.number) :
       t \in moved \/ \E p \in owner[t] : p \in restarted \/ runs[p] \in ServesTLS

\* Of whatever did not change hands during the scan the host's report is true,
\* though it is put together from several looks at the machine: a process that
\* ran all the time is there with its name and its user, if it was told; the
\* sockets it held all the time are there, unless a listing failed and no
\* socket of any process is; a certificate is shown only where TLS is served;
\* and no SSH key is there twice, which the report of duplicate keys would take
\* for the key of another host.
TrueOfWhatStayed ==
    outcome = "reported" =>
       /\ \A p \in Pid \ restarted :
             IF ~Taken(p) THEN \A r \in host : r.pid # p
             ELSE \E r \in host :
                    /\ r.pid = p /\ r.name = runs[p] /\ r.user \in {"", UserOf[runs[p]]}
                    /\ PortsTrue(r)
                    /\ PortsComplete(r) \/ \A s \in host : s.ports = {}
       /\ \A r \in host : \A i \in r.ports : i.tls = "certificate" => CertificateTrue(i)
       /\ \A i, j \in DOMAIN sshKeys : sshKeys[i] = sshKeys[j] => i = j

\* scanMachine returns: proc_scan looks at each thing once and does not wait
\* for the machine to come to rest, unless a server keeps silent.
Ends == <>(pc \in {"returned", "hung"})

\* The test "records tls errors" of db/sqlite_test.go has a port whose TLS scan
\* failed saved with its error: the output that holds it must reach SaveReport.
TlsErrorsRecorded ==
    [][pc = "encode" /\ (\E s \in DOMAIN scanned : scanned[s] = "error")
          => outcome' # "failed"]_vars

\* README.md speaks of "processes using non-approved SSL/TLS settings": a
\* process that is shown with TLS settings, and was there all the time with
\* its sockets, serves TLS.
TlsIsOfTheProcess ==
    outcome = "reported" => \A r \in host : \A i \in r.ports :
       i.tls = "certificate" /\ i.of \notin moved /\ r.pid \notin restarted
          => runs[r.pid] \in ServesTLS
=============================================================================
