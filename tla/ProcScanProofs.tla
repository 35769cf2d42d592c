--------------------------- MODULE ProcScanProofs ---------------------------
(***************************************************************************)
(* Proofs about proc_scan, for any pids, programs, sockets, keys and any   *)
(* number of changes of the machine during the scan.                       *)
(*                                                                         *)
(* Each look at the machine is true when it is taken.  The invariant says  *)
(* that it stays true of whatever is neither in restarted nor in moved,    *)
(* until all looks are put together.                                       *)
(***************************************************************************)
EXTENDS ProcScan, SequenceTheorems, TLAPS

\* The scan still has what it saw.
Kept == pc \notin {"returned", "hung"} \/ outcome = "reported"

\* Nothing is there before its stage; what is reported is what was seen.
Stages ==
    /\ pc = "processes" => name = <<>> /\ user = <<>>
    /\ pc \in {"processes", "users", "ports"} => listed = {}
    /\ pc \in {"processes", "users", "ports", "tcp"} => scanned = <<>> /\ fetching = {}
    /\ outcome # "none" => pc = "returned"
    /\ outcome = "reported" => host = Processes

\* Of a pid that did not change hands name and user are right.
Named(p) == /\ p \in DOMAIN name <=> Taken(p)
            /\ p \in DOMAIN name => name[p] = runs[p]
NamesTrue == pc # "processes" /\ Kept => \A p \in Pid \ restarted : Named(p)
UsersTrue ==
    /\ \A p \in DOMAIN user \ restarted : user[p] \in {"", UserOf[runs[p]]}
    /\ pc \notin {"processes", "users"} /\ Kept => DOMAIN user = DOMAIN name

\* Of a socket that did not change hands the pid is right, and it is listed
\* unless none is.
ListedFrom(S) == \A s \in S \ moved, p \in Pid : owner[s] = {p} => <<s, p>> \in listed
SocketsTrue ==
    /\ \A s \in Socket, p \in Pid : <<s, p>> \in listed /\ s \notin moved => owner[s] = {p}
    /\ pc = "tcp" => ListedFrom(UDP)
    /\ pc \notin {"processes", "users", "ports", "tcp"} => listed = {} \/ ListedFrom(Socket)

\* A certificate came from a socket that localhost reaches.
ServedOrChanged(n) ==
    \E t \in Reached(n) : t \in moved \/ \E p \in owner[t] : p \in restarted \/ runs[p] \in ServesTLS
CertificatesTrue ==
    \A s \in DOMAIN scanned : scanned[s] = "certificate" => ServedOrChanged(PortOf(s).number)

\* The keys are of different algorithms that were asked for.
KeysTrue ==
    /\ \A i \in DOMAIN sshKeys : \E k \in 1..dialled : sshKeys[i] = keyAlgos[k]
    /\ \A i, j \in DOMAIN sshKeys : sshKeys[i] = sshKeys[j] => i = j

Looks == Stages /\ NamesTrue /\ UsersTrue /\ SocketsTrue /\ CertificatesTrue /\ KeysTrue
Inv == TypeOK /\ Looks

LEMMA PortOfStays == UNCHANGED os => \A s : PortOf(s)' = PortOf(s)
BY DEF PortOf

LEMMA ProcessesStay == UNCHANGED <<os, name, user, listed, scanned>> => Processes' = Processes
BY DEF Processes, PortOf, LocalPortsForPID

LEMMA KeysAsked == Len(keyAlgos) \in Nat /\ DOMAIN keyAlgos = 1..Len(keyAlgos)
BY KeyAssumption, LenProperties

LEMMA EmptyFunction == DOMAIN <<>> = {}
OBVIOUS

LEMMA InitInv == Init => Inv
<1> SUFFICES ASSUME Init PROVE Inv
  OBVIOUS
<1>1. /\ pc = "processes" /\ name = <<>> /\ user = <<>> /\ listed = {} /\ scanned = <<>> /\ fetching = {}
      /\ sshKeys = <<>> /\ dialled = 0 /\ outcome = "none" /\ faults = 0 /\ restarted = {} /\ moved = {}
      /\ os \in {"linux", "windows"} /\ runs \in [Pid -> Program \cup {Nobody}]
      /\ owner \in [Socket -> Owners]
  BY DEF Init
<1>2. owner \in [Socket -> {{}} \cup {{p} : p \in Pid}]
  BY <1>1 DEF Owners
<1>3. sshKeys \in Seq(HostKeys) /\ dialled \in 0..Len(keyAlgos) /\ faults \in 0..MaxFaults
  BY <1>1, KeysAsked, FaultsAssumption, EmptySeq
<1>4. TypeOK
  BY <1>1, <1>2, <1>3, EmptyFunction DEF TypeOK, Pcs
<1>5. Looks
  BY <1>1, EmptyFunction
  DEF Looks, Stages, NamesTrue, UsersTrue, SocketsTrue, CertificatesTrue, KeysTrue
<1> QED
  BY <1>4, <1>5 DEF Inv

-----------------------------------------------------------------------------
(* The machine changes.                                                    *)

LEMMA FaultCounts ==
    ASSUME faults \in 0..MaxFaults, Fault \/ NoFault PROVE faults' \in 0..MaxFaults
BY FaultsAssumption DEF Fault, NoFault

\* What ends, starts or changes hands is remembered.
LEMMA ChangesRemembered ==
    ASSUME TypeOK, MachineStep
    PROVE  /\ runs' \in [Pid -> Program \cup {Nobody}]
           /\ owner' \in [Socket -> {{}} \cup {{p} : p \in Pid}]
           /\ restarted \subseteq restarted' /\ restarted' \subseteq Pid
           /\ moved \subseteq moved' /\ moved' \subseteq Socket
           /\ \A p \in Pid \ restarted' : runs'[p] = runs[p]
           /\ \A s \in Socket \ moved' : owner'[s] = owner[s]
           /\ Change
<1>a. /\ runs \in [Pid -> Program \cup {Nobody}]
      /\ owner \in [Socket -> {{}} \cup {{p} : p \in Pid}]
      /\ restarted \subseteq Pid /\ moved \subseteq Socket
  BY DEF TypeOK
<1>1. ASSUME NEW p \in Pid, ProcessEnds(p)
      PROVE  /\ owner' \in [Socket -> {{}} \cup {{q} : q \in Pid}]
             /\ \A s \in Socket \ moved' : owner'[s] = owner[s]
  <2>1. owner' = [s \in Socket |-> owner[s] \ {p}] /\ moved' = moved \cup {s \in Socket : p \in owner[s]}
    BY <1>1 DEF ProcessEnds
  <2>2. ASSUME NEW s \in Socket PROVE owner[s] \ {p} \in {{}} \cup {{q} : q \in Pid}
    <3>1. owner[s] = {} \/ \E q \in Pid : owner[s] = {q}
      BY <1>a
    <3>2. CASE owner[s] = {}
      BY <3>2
    <3>3. ASSUME NEW q \in Pid, owner[s] = {q} PROVE owner[s] \ {p} \in {{}} \cup {{r} : r \in Pid}
      <4>1. owner[s] \ {p} = {} \/ owner[s] \ {p} = {q}
        BY <3>3
      <4> QED
        BY <4>1
    <3> QED
      BY <3>1, <3>2, <3>3
  <2>3. ASSUME NEW s \in Socket \ moved' PROVE owner'[s] = owner[s]
    <3>1. p \notin owner[s] /\ owner'[s] = owner[s] \ {p}
      BY <2>1
    <3> QED
      BY <3>1
  <2> QED
    BY <2>1, <2>2, <2>3
<1>2. ASSUME NEW p \in Pid, ProcessEnds(p) \/ ProcessStarts(p)
      PROVE  /\ runs' \in [Pid -> Program \cup {Nobody}]
             /\ restarted' = restarted \cup {p} /\ \A q \in Pid \ restarted' : runs'[q] = runs[q]
             /\ Change
  BY <1>a, <1>2 DEF ProcessEnds, ProcessStarts
<1>3. ASSUME NEW p \in Pid, ProcessStarts(p) PROVE UNCHANGED <<owner, moved>>
  BY <1>3 DEF ProcessStarts
<1>4. ASSUME NEW s \in Socket, SocketMoves(s)
      PROVE  /\ owner' \in [Socket -> {{}} \cup {{q} : q \in Pid}]
             /\ moved' = moved \cup {s} /\ \A t \in Socket \ moved' : owner'[t] = owner[t]
             /\ UNCHANGED <<runs, restarted>> /\ Change
  BY <1>a, <1>4 DEF SocketMoves, Owners
<1>5. ASSUME NEW p \in Pid, ProcessEnds(p) PROVE moved \subseteq moved' /\ moved' \subseteq Socket
  BY <1>a, <1>5 DEF ProcessEnds
<1> QED
  BY <1>a, <1>1, <1>2, <1>3, <1>4, <1>5 DEF MachineStep

LEMMA MachineKeeps ==
    ASSUME Inv, MachineStep PROVE Inv'
<1>a. TypeOK
  BY DEF Inv
<1>b. /\ runs' \in [Pid -> Program \cup {Nobody}]
      /\ owner' \in [Socket -> {{}} \cup {{p} : p \in Pid}]
      /\ restarted \subseteq restarted' /\ restarted' \subseteq Pid
      /\ moved \subseteq moved' /\ moved' \subseteq Socket
      /\ \A p \in Pid \ restarted' : runs'[p] = runs[p]
      /\ \A s \in Socket \ moved' : owner'[s] = owner[s]
      /\ Change
  BY <1>a, ChangesRemembered
<1>c. /\ pc \in {"processes", "users", "ports", "tcp", "tls"} /\ Fault
      /\ UNCHANGED <<os, pc, name, user, listed, scanned, fetching, sshKeys, dialled, outcome, host>>
  BY <1>b DEF Change, looks, tls, ssh, result
<1>d. outcome = "none" /\ outcome' = "none"
  BY <1>a, <1>c DEF Inv, Looks, Stages, TypeOK
<1>1. TypeOK'
  <2>1. faults' \in 0..MaxFaults
    BY <1>a, <1>c, FaultCounts DEF TypeOK
  <2> QED
    BY <1>a, <1>b, <1>c, <2>1 DEF TypeOK
<1>2. Stages'
  BY <1>c, <1>d DEF Inv, Looks, Stages
<1>3. NamesTrue'
  <2> SUFFICES ASSUME pc # "processes", NEW p \in Pid \ restarted' PROVE Named(p)'
    BY <1>c DEF NamesTrue
  <2>1. Named(p) /\ runs'[p] = runs[p]
    BY <1>b, <1>c DEF Inv, Looks, NamesTrue, Kept
  <2> QED
    BY <1>c, <2>1 DEF Named, Taken
<1>4. UsersTrue'
  <2>1. DOMAIN user \subseteq Pid
    BY <1>a DEF TypeOK
  <2> QED
    BY <1>b, <1>c, <2>1 DEF Inv, Looks, UsersTrue, Kept
<1>5. SocketsTrue'
  BY <1>b, <1>c DEF Inv, Looks, SocketsTrue, ListedFrom, UDP
<1>6. CertificatesTrue'
  <2>1. ASSUME NEW n, ServedOrChanged(n) PROVE ServedOrChanged(n)'
    <3>1. PICK t \in Reached(n) : t \in moved \/ \E p \in owner[t] : p \in restarted \/ runs[p] \in ServesTLS
      BY <2>1 DEF ServedOrChanged
    <3>2. t \in Socket
      BY DEF Reached
    <3>3. CASE t \in moved'
      BY <3>1, <3>3 DEF ServedOrChanged
    <3>4. CASE t \notin moved'
      <4>1. PICK p \in owner[t] : p \in restarted \/ runs[p] \in ServesTLS
        BY <1>b, <3>1, <3>4
      <4>2. p \in Pid /\ p \in owner'[t]
        BY <1>a, <1>b, <3>2, <3>4 DEF TypeOK
      <4>3. p \in restarted' \/ runs'[p] \in ServesTLS
        BY <1>b, <4>1, <4>2
      <4> QED
        BY <3>1, <4>2, <4>3 DEF ServedOrChanged
    <3> QED
      BY <3>3, <3>4
  <2> QED
    BY <1>c, <2>1, PortOfStays DEF Inv, Looks, CertificatesTrue
<1>7. KeysTrue'
  BY <1>c DEF Inv, Looks, KeysTrue
<1> QED
  BY <1>1, <1>2, <1>3, <1>4, <1>5, <1>6, <1>7 DEF Inv, Looks

-----------------------------------------------------------------------------
(* proc_scan looks.                                                        *)

\* When the program ends without a report, nothing of it is left.
LEMMA ForgetKeeps ==
    ASSUME Inv, Forget, UNCHANGED <<machine, faults, host>>, outcome = "none",
           pc' \in {"returned", "hung"}, outcome' \in {"none", "failed"}, outcome' # "none" => pc' = "returned"
    PROVE  Inv'
<1>1. /\ name' = <<>> /\ user' = <<>> /\ listed' = {} /\ scanned' = <<>> /\ fetching' = {}
      /\ sshKeys' = <<>> /\ dialled' = 0
      /\ UNCHANGED <<os, runs, owner, restarted, moved, faults, host>>
  BY DEF Forget, machine
<1>2. sshKeys' \in Seq(HostKeys) /\ dialled' \in 0..Len(keyAlgos)
  BY <1>1, KeysAsked, EmptySeq
<1>3. TypeOK'
  BY <1>1, <1>2, EmptyFunction DEF Inv, TypeOK, Pcs
<1>4. Looks'
  BY <1>1, EmptyFunction
  DEF Looks, Stages, NamesTrue, UsersTrue, SocketsTrue, CertificatesTrue, KeysTrue, Kept
<1> QED
  BY <1>3, <1>4 DEF Inv

LEMMA ExitKeeps ==
    ASSUME Inv, Exit, pc # "returned" PROVE Inv'
<1>1. outcome = "none"
  BY DEF Inv, Looks, Stages
<1> QED
  BY <1>1, ForgetKeeps DEF Exit

LEMMA HangKeeps ==
    ASSUME Inv, Hang PROVE Inv'
<1>1. /\ pc \in {"tls", "keys"} /\ pc' = "hung" /\ UNCHANGED <<outcome, host, machine, faults>> /\ Forget
  BY DEF Hang, Goto, result
<1>2. outcome = "none"
  BY <1>1 DEF Inv, Looks, Stages
<1> QED
  BY <1>1, <1>2, ForgetKeeps

LEMMA ProcessesKeep ==
    ASSUME Inv, GetProcesses PROVE Inv'
<1>a. TypeOK /\ Stages
  BY DEF Inv, Looks
<1>1. /\ pc = "processes" /\ pc' \in {"users", "ports"} /\ (pc' = "ports" <=> os = "windows")
      /\ name' = [p \in Listing |-> runs[p]] /\ (Fault \/ NoFault)
      /\ UNCHANGED <<os, runs, owner, restarted, moved, listed, scanned, fetching, sshKeys, dialled, outcome, host>>
  BY <1>a DEF GetProcesses, Goto, result, machine, tls, ssh, TypeOK
<1>2. /\ name = <<>> /\ user = <<>> /\ listed = {} /\ scanned = <<>> /\ fetching = {} /\ outcome = "none"
  BY <1>a, <1>1 DEF Stages
<1>3. DOMAIN name' = Listing /\ Listing \subseteq Pid /\ \A p \in Pid : p \in Listing <=> Taken(p)
  BY <1>1 DEF Listing
<1>4. \/ os = "linux" /\ user' = <<>>
      \/ os = "windows" /\ DOMAIN user' = Listing /\ \A p \in Listing : user'[p] \in {"", UserOf[runs[p]]}
  BY <1>2 DEF GetProcesses
<1>5. TypeOK'
  <2>1. faults' \in 0..MaxFaults
    BY <1>a, <1>1, FaultCounts DEF TypeOK
  <2>2. DOMAIN user' \subseteq DOMAIN name'
    BY <1>3, <1>4, EmptyFunction
  <2> QED
    BY <1>a, <1>1, <1>2, <1>3, <2>1, <2>2, EmptyFunction DEF TypeOK, Pcs
<1>6. Stages'
  BY <1>1, <1>2 DEF Stages
<1>7. NamesTrue'
  BY <1>1, <1>3 DEF NamesTrue, Named, Taken
<1>8. UsersTrue'
  BY <1>1, <1>3, <1>4, EmptyFunction DEF UsersTrue
<1>9. SocketsTrue' /\ CertificatesTrue' /\ KeysTrue'
  BY <1>1, <1>2, EmptyFunction DEF Inv, Looks, SocketsTrue, CertificatesTrue, KeysTrue
<1> QED
  BY <1>5, <1>6, <1>7, <1>8, <1>9 DEF Inv, Looks

LEMMA UserKeeps ==
    ASSUME Inv, NEW p \in Pid, getUser(p) PROVE Inv'
<1>a. TypeOK /\ Stages
  BY DEF Inv, Looks
<1>1. /\ pc = "users" /\ p \in DOMAIN name \ DOMAIN user /\ (Fault \/ NoFault)
      /\ UNCHANGED <<os, runs, owner, restarted, moved, pc, name, listed, scanned, fetching, sshKeys, dialled, outcome, host>>
  BY DEF getUser, result, machine, tls, ssh
<1>2. PICK u \in {"", IF Taken(p) THEN UserOf[runs[p]] ELSE ""} :
         user' = [r \in DOMAIN user \cup {p} |-> IF r = p THEN u ELSE user[r]]
  BY DEF getUser
<1>3. scanned = <<>> /\ fetching = {} /\ listed = {} /\ outcome = "none"
  BY <1>a, <1>1 DEF Stages
<1>4. TypeOK'
  <2>1. faults' \in 0..MaxFaults
    BY <1>a, <1>1, FaultCounts DEF TypeOK
  <2> QED
    BY <1>a, <1>1, <1>2, <1>3, <2>1, EmptyFunction DEF TypeOK
<1>5. Stages'
  BY <1>1, <1>3 DEF Stages, Inv, Looks
<1>6. NamesTrue'
  BY <1>1 DEF NamesTrue, Named, Taken, Kept, Inv, Looks
<1>7. UsersTrue'
  <2>1. ASSUME NEW q \in DOMAIN user' \ restarted' PROVE user'[q] \in {"", UserOf[runs'[q]]}
    <3>1. q = p \/ q \in DOMAIN user \ restarted
      BY <1>1, <1>2
    <3>2. CASE q = p
      BY <1>1, <1>2, <3>2
    <3>3. CASE q # p
      BY <1>1, <1>2, <3>1, <3>3 DEF Inv, Looks, UsersTrue
    <3> QED
      BY <3>2, <3>3
  <2> QED
    BY <1>1, <2>1 DEF UsersTrue
<1>8. SocketsTrue' /\ CertificatesTrue' /\ KeysTrue'
  BY <1>1, <1>3, EmptyFunction DEF Inv, Looks, SocketsTrue, CertificatesTrue, KeysTrue
<1> QED
  BY <1>4, <1>5, <1>6, <1>7, <1>8 DEF Inv, Looks

\* The steps from one stage to the next.
LEMMA StageKeeps ==
    ASSUME Inv, UsersRead \/ ProcessesScanned \/ (ScanFiles /\ ~Exit) \/ (ScanSSH /\ ~DialKey /\ ~DialFails)
    PROVE  Inv'
<1>a. TypeOK /\ Stages
  BY DEF Inv, Looks
<1>1. /\ UNCHANGED <<os, runs, owner, restarted, moved, name, user, listed, scanned, fetching, sshKeys, dialled,
                     faults, outcome, host>>
      /\ \/ pc = "users" /\ pc' = "ports" /\ DOMAIN user = DOMAIN name
         \/ pc \in {"tls", "files", "keys"} /\ pc' \in {"files", "keys", "encode"}
  BY DEF UsersRead, ProcessesScanned, ScanFiles, ScanSSH, Goto, machine, looks, tls, ssh, result
<1>2. outcome = "none"
  BY <1>a, <1>1 DEF Stages
<1>3. TypeOK'
  BY <1>a, <1>1 DEF TypeOK, Pcs
<1>4. Stages'
  BY <1>a, <1>1, <1>2 DEF Stages
<1>5. NamesTrue' /\ UsersTrue'
  BY <1>1 DEF Inv, Looks, NamesTrue, Named, Taken, UsersTrue, Kept
<1>6. SocketsTrue'
  BY <1>1 DEF Inv, Looks, SocketsTrue, ListedFrom, UDP
<1>7. CertificatesTrue' /\ KeysTrue'
  BY <1>1, PortOfStays DEF Inv, Looks, CertificatesTrue, ServedOrChanged, KeysTrue
<1> QED
  BY <1>3, <1>4, <1>5, <1>6, <1>7 DEF Inv, Looks

\* The sockets as they are listed.
LEMMA OpenNow ==
    ASSUME TypeOK, NEW S \in SUBSET Socket
    PROVE  /\ OpenSockets(S) \subseteq Socket \X Pid
           /\ \A s \in Socket, p \in Pid : <<s, p>> \in OpenSockets(S) => owner[s] = {p} /\ s \in S
           /\ \A s \in S, p \in Pid : owner[s] = {p} => <<s, p>> \in OpenSockets(S)
<1>1. \A s \in Socket, p \in Pid : <<s, p>> \in OpenSockets(S) <=> s \in S /\ p \in owner[s]
  BY DEF OpenSockets
<1>2. \A s \in Socket, p \in Pid : p \in owner[s] => owner[s] = {p}
  BY DEF TypeOK
<1>3. OpenSockets(S) \subseteq Socket \X Pid
  BY DEF OpenSockets
<1> QED
  BY <1>1, <1>2, <1>3

LEMMA PortsKeep ==
    ASSUME Inv, GetPortsLinux \/ GetUDPEndpoints \/ GetTCPConnections PROVE Inv'
<1>a. TypeOK /\ Stages
  BY DEF Inv, Looks
<1>1. /\ pc \in {"ports", "tcp"} /\ pc' \in {"tcp", "tls"} /\ (Fault \/ NoFault)
      /\ UNCHANGED <<os, runs, owner, restarted, moved, name, user, scanned, fetching, sshKeys, dialled, outcome, host>>
  BY DEF GetPortsLinux, GetUDPEndpoints, GetTCPConnections, Goto, machine, tls, ssh, result
<1>2. scanned = <<>> /\ fetching = {} /\ outcome = "none"
  BY <1>a, <1>1 DEF Stages
<1>3. \/ listed' = {} /\ pc' = "tls"
      \/ listed' = OpenSockets(Socket) /\ pc' = "tls"
      \/ listed' = OpenSockets(UDP) /\ pc' = "tcp"
      \/ listed' = listed \cup OpenSockets(Socket \ UDP) /\ pc = "tcp" /\ pc' = "tls"
  <2>1. \A x \in OpenSockets(Socket) : parseNetstatLine(Line(x[1], x[2]))
    BY MachineAssumption DEF OpenSockets, parseNetstatLine, Line
  <2>2. {x \in OpenSockets(Socket) : parseNetstatLine(Line(x[1], x[2]))} = OpenSockets(Socket)
    BY <2>1
  <2> QED
    BY <2>2 DEF GetPortsLinux, GetUDPEndpoints, GetTCPConnections, Goto
<1>4. UDP \subseteq Socket /\ Socket \ UDP \subseteq Socket
  BY DEF UDP
<1>5. listed' \subseteq Socket \X Pid /\ SocketsTrue'
  <2>1. CASE listed' = {} /\ pc' = "tls"
    BY <2>1 DEF SocketsTrue
  <2>2. CASE listed' = OpenSockets(Socket) /\ pc' = "tls"
    BY <1>a, <1>1, <2>2, OpenNow DEF SocketsTrue, ListedFrom
  <2>3. CASE listed' = OpenSockets(UDP) /\ pc' = "tcp"
    BY <1>a, <1>1, <1>4, <2>3, OpenNow DEF SocketsTrue, ListedFrom
  <2>4. CASE listed' = listed \cup OpenSockets(Socket \ UDP) /\ pc = "tcp" /\ pc' = "tls"
    <3>1. /\ \A s \in Socket, p \in Pid : <<s, p>> \in listed /\ s \notin moved => owner[s] = {p}
          /\ ListedFrom(UDP) /\ listed \subseteq Socket \X Pid
      BY <1>a, <2>4 DEF Inv, Looks, SocketsTrue, TypeOK
    <3>2. /\ OpenSockets(Socket \ UDP) \subseteq Socket \X Pid
          /\ \A s \in Socket, p \in Pid : <<s, p>> \in OpenSockets(Socket \ UDP) => owner[s] = {p}
          /\ \A s \in Socket \ UDP, p \in Pid : owner[s] = {p} => <<s, p>> \in OpenSockets(Socket \ UDP)
      BY <1>a, <1>4, OpenNow
    <3>3. ListedFrom(Socket)'
      BY <1>1, <2>4, <3>1, <3>2 DEF ListedFrom
    <3> QED
      BY <1>1, <2>4, <3>1, <3>2, <3>3 DEF SocketsTrue
  <2> QED
    BY <1>3, <2>1, <2>2, <2>3, <2>4
<1>6. TypeOK'
  <2>1. faults' \in 0..MaxFaults
    BY <1>a, <1>1, FaultCounts DEF TypeOK
  <2> QED
    BY <1>a, <1>1, <1>2, <1>5, <2>1, EmptyFunction DEF TypeOK, Pcs
<1>7. Stages'
  BY <1>1, <1>2 DEF Stages
<1>8. NamesTrue' /\ UsersTrue'
  BY <1>1 DEF Inv, Looks, NamesTrue, Named, Taken, UsersTrue, Kept
<1>9. CertificatesTrue' /\ KeysTrue'
  BY <1>1, <1>2, EmptyFunction DEF Inv, Looks, CertificatesTrue, KeysTrue
<1> QED
  BY <1>5, <1>6, <1>7, <1>8, <1>9 DEF Inv, Looks

LEMMA TlsKeeps ==
    ASSUME Inv, NEW s \in Socket, ScanCiphers(s) \/ FetchTLSInformation(s) PROVE Inv'
<1>a. TypeOK /\ Stages
  BY DEF Inv, Looks
<1>1. /\ pc = "tls" /\ (Fault \/ NoFault)
      /\ UNCHANGED <<os, runs, owner, restarted, moved, pc, name, user, listed, sshKeys, dialled, outcome, host>>
  BY DEF ScanCiphers, FetchTLSInformation, machine, looks, ssh, result
<1>2. outcome = "none"
  BY <1>a, <1>1 DEF Stages
<1>3. s.state = "LISTEN" /\ \E p \in DOMAIN name : <<s, p>> \in listed
  BY <1>a DEF ScanCiphers, FetchTLSInformation, ToScan, LocalPortsForPID, TypeOK
<1>4. /\ fetching' \in {{}, {s}}
      /\ \/ UNCHANGED scanned
         \/ \E info \in TLSInformation : Record(s, info) /\ (info = "certificate" => AnswersTLS(s))
  BY DEF ScanCiphers, FetchTLSInformation, TLSInformation
<1>5. TypeOK' /\ CertificatesTrue'
  <2>1. faults' \in 0..MaxFaults
    BY <1>a, <1>1, FaultCounts DEF TypeOK
  <2>2. CASE UNCHANGED scanned
    BY <1>a, <1>1, <1>3, <1>4, <2>1, <2>2, PortOfStays
    DEF TypeOK, Inv, Looks, CertificatesTrue, ServedOrChanged
  <2>3. ASSUME NEW info \in TLSInformation, Record(s, info), info = "certificate" => AnswersTLS(s)
        PROVE  TypeOK' /\ CertificatesTrue'
    <3>1. /\ DOMAIN scanned' = DOMAIN scanned \cup {s} /\ scanned'[s] = info
          /\ \A t \in DOMAIN scanned \ {s} : scanned'[t] = scanned[t]
      BY <2>3 DEF Record
    <3>2. TypeOK'
      BY <1>a, <1>1, <1>3, <1>4, <2>1, <3>1 DEF TypeOK
    <3>3. info = "certificate" => ServedOrChanged(PortOf(s).number)
      BY <2>3 DEF AnswersTLS, ServedOrChanged
    <3>4. CertificatesTrue'
      BY <1>1, <3>1, <3>3, PortOfStays DEF Inv, Looks, CertificatesTrue, ServedOrChanged
    <3> QED
      BY <3>2, <3>4
  <2> QED
    BY <1>4, <2>2, <2>3
<1>6. Stages'
  BY <1>1, <1>2 DEF Stages
<1>7. NamesTrue' /\ UsersTrue'
  BY <1>1 DEF Inv, Looks, NamesTrue, Named, Taken, UsersTrue, Kept
<1>8. SocketsTrue'
  BY <1>1 DEF Inv, Looks, SocketsTrue, ListedFrom, UDP
<1>9. KeysTrue'
  BY <1>1 DEF Inv, Looks, KeysTrue
<1> QED
  BY <1>5, <1>6, <1>7, <1>8, <1>9 DEF Inv, Looks

LEMMA KeyKeeps ==
    ASSUME Inv, DialKey PROVE Inv'
<1>a. TypeOK /\ Stages
  BY DEF Inv, Looks
<1>1. /\ pc = "keys" /\ dialled < Len(keyAlgos) /\ dialled' = dialled + 1 /\ (Fault \/ NoFault)
      /\ UNCHANGED <<os, runs, owner, restarted, moved, pc, name, user, listed, scanned, fetching, outcome, host>>
  BY DEF DialKey, machine, looks, tls, result
<1>2. dialled \in 0..Len(keyAlgos) /\ dialled \in Nat /\ Len(keyAlgos) \in Nat /\ sshKeys \in Seq(HostKeys)
  BY <1>a, KeysAsked DEF TypeOK
<1>3. dialled' \in 0..Len(keyAlgos) /\ dialled + 1 \in DOMAIN keyAlgos
  BY <1>1, <1>2, KeysAsked
<1>4. 1..dialled \subseteq 1..dialled' /\ dialled + 1 \in 1..dialled'
  BY <1>1, <1>2
<1>5. sshKeys' \in Seq(HostKeys) /\ KeysTrue'
  <2>1. CASE UNCHANGED sshKeys
    BY <1>2, <1>4, <2>1 DEF Inv, Looks, KeysTrue
  <2>2. CASE keyAlgos[dialled + 1] \in HostKeys /\ sshKeys' = Append(sshKeys, keyAlgos[dialled + 1])
    <3> DEFINE a == keyAlgos[dialled + 1]
               n == Len(sshKeys)
    <3>1. /\ n \in Nat /\ DOMAIN sshKeys = 1..n /\ DOMAIN sshKeys' = 1..(n + 1) /\ sshKeys' \in Seq(HostKeys)
          /\ sshKeys'[n + 1] = a /\ \A i \in 1..n : sshKeys'[i] = sshKeys[i]
      BY <1>2, <2>2, AppendProperties, LenProperties
    <3>2. \A i \in 1..(n + 1) : i \in 1..n \/ i = n + 1
      BY <3>1
    <3>3. \A k \in 1..dialled : keyAlgos[k] # a
      BY <1>2, <1>3, KeyAssumption, KeysAsked
    <3>4. \A i \in 1..n : \E k \in 1..dialled : sshKeys[i] = keyAlgos[k]
      BY <3>1 DEF Inv, Looks, KeysTrue
    <3>5. \A i \in 1..n : sshKeys[i] # a
      BY <3>3, <3>4
    <3>6. \A i \in DOMAIN sshKeys' : \E k \in 1..dialled' : sshKeys'[i] = keyAlgos[k]
      BY <1>4, <3>1, <3>2, <3>4
    <3>7. \A i, j \in DOMAIN sshKeys' : sshKeys'[i] = sshKeys'[j] => i = j
      BY <3>1, <3>2, <3>5 DEF Inv, Looks, KeysTrue
    <3> QED
      BY <3>1, <3>6, <3>7 DEF KeysTrue
  <2> QED
    BY <2>1, <2>2 DEF DialKey
<1>6. TypeOK'
  <2>1. faults' \in 0..MaxFaults
    BY <1>a, <1>1, FaultCounts DEF TypeOK
  <2> QED
    BY <1>a, <1>1, <1>3, <1>5, <2>1 DEF TypeOK
<1>7. Stages'
  BY <1>a, <1>1 DEF Stages
<1>8. NamesTrue' /\ UsersTrue'
  BY <1>1 DEF Inv, Looks, NamesTrue, Named, Taken, UsersTrue, Kept
<1>9. SocketsTrue'
  BY <1>1 DEF Inv, Looks, SocketsTrue, ListedFrom, UDP
<1>10. CertificatesTrue'
  BY <1>1, PortOfStays DEF Inv, Looks, CertificatesTrue, ServedOrChanged
<1> QED
  BY <1>5, <1>6, <1>7, <1>8, <1>9, <1>10 DEF Inv, Looks

LEMMA DecodeKeeps ==
    ASSUME Inv, Decode PROVE Inv'
<1>a. TypeOK /\ Stages
  BY DEF Inv, Looks
<1>1. /\ pc = "encode" /\ pc' = "returned"
      /\ UNCHANGED <<os, runs, owner, restarted, moved, faults, name, user, listed, scanned, fetching, sshKeys, dialled>>
      /\ outcome' = "failed" \/ (outcome' = "reported" /\ host' = Processes)
  BY DEF Decode, machine, looks, tls, ssh
<1>2. TypeOK'
  BY <1>a, <1>1 DEF TypeOK, Pcs
<1>3. Processes' = Processes
  BY <1>1, ProcessesStay
<1>4. Stages'
  BY <1>1, <1>3 DEF Stages
<1>5. NamesTrue' /\ UsersTrue'
  BY <1>1 DEF Inv, Looks, NamesTrue, Named, Taken, UsersTrue, Kept
<1>6. SocketsTrue'
  BY <1>1 DEF Inv, Looks, SocketsTrue, ListedFrom, UDP
<1>7. CertificatesTrue' /\ KeysTrue'
  BY <1>1, PortOfStays DEF Inv, Looks, CertificatesTrue, ServedOrChanged, KeysTrue
<1> QED
  BY <1>2, <1>4, <1>5, <1>6, <1>7 DEF Inv, Looks

LEMMA StutterKeeps ==
    ASSUME Inv, UNCHANGED vars PROVE Inv'
<1>1. UNCHANGED <<os, runs, owner, restarted, moved, faults, pc, name, user, listed, scanned, fetching,
                  sshKeys, dialled, outcome, host>>
  BY DEF vars, machine, looks, tls, ssh, result
<1>2. TypeOK'
  BY <1>1 DEF Inv, TypeOK
<1>3. Processes' = Processes
  BY <1>1, ProcessesStay
<1>4. Stages'
  BY <1>1, <1>3 DEF Stages, Inv, Looks
<1>5. NamesTrue' /\ UsersTrue' /\ SocketsTrue'
  BY <1>1 DEF Inv, Looks, NamesTrue, Named, Taken, UsersTrue, Kept, SocketsTrue, ListedFrom, UDP
<1>6. CertificatesTrue' /\ KeysTrue'
  BY <1>1, PortOfStays DEF Inv, Looks, CertificatesTrue, ServedOrChanged, KeysTrue
<1> QED
  BY <1>2, <1>4, <1>5, <1>6 DEF Inv, Looks

THEOREM Invariance == Spec => []Inv
<1>1. ASSUME Inv, [Next]_vars PROVE Inv'
  <2>1. ASSUME ScanStep PROVE Inv'
    <3>1. CASE GetProcesses \/ \E p \in Pid : getUser(p)
      BY <1>1, <3>1, ProcessesKeep, UserKeeps
    <3>2. CASE GetProcessesFails \/ (\E s \in Socket : FetchPanics(s)) \/ (ScanFiles /\ Exit) \/ DialFails
      <4>1. Exit /\ pc # "returned"
        BY <3>2 DEF GetProcessesFails, FetchPanics, ScanFiles, DialFails
      <4> QED
        BY <1>1, <4>1, ExitKeeps
    <3>3. CASE UsersRead \/ ProcessesScanned \/ (ScanFiles /\ ~Exit) \/ (ScanSSH /\ ~DialKey /\ ~DialFails)
      BY <1>1, <3>3, StageKeeps
    <3>4. CASE GetPortsLinux \/ GetUDPEndpoints \/ GetTCPConnections
      BY <1>1, <3>4, PortsKeep
    <3>5. CASE \E s \in Socket : ScanCiphers(s) \/ FetchTLSInformation(s)
      BY <1>1, <3>5, TlsKeeps
    <3>6. CASE DialKey \/ Decode
      BY <1>1, <3>6, KeyKeeps, DecodeKeeps
    <3> QED
      BY <2>1, <3>1, <3>2, <3>3, <3>4, <3>5, <3>6, Zenon DEF ScanStep, ScanSSH
  <2> QED
    BY <1>1, <2>1, MachineKeeps, HangKeeps, StutterKeeps DEF Next, Terminated
<1> QED
  BY InitInv, <1>1, PTL DEF Spec

-----------------------------------------------------------------------------
(* The properties.                                                         *)

\* The variables of proc_scan keep their types, whatever the machine does, and
\* only sockets of listed processes are connected to.
THEOREM TypeCorrect == Spec => []TypeOK
BY Invariance, PTL DEF Inv

\* A row of the report.
LEMMA RowOf ==
    ASSUME NEW p \in DOMAIN name
    PROVE  \E r \in Processes :
              /\ r.pid = p /\ r.name = name[p] /\ r.user = user[p]
              /\ \A i \in r.ports : <<i.of, p>> \in listed /\ i.of \in Socket
              /\ \A s \in Socket : <<s, p>> \in listed => \E i \in r.ports : i.of = s
<1> DEFINE row(s) == [of |-> s, port |-> PortOf(s), tls |-> IF s \in DOMAIN scanned THEN scanned[s] ELSE "nil"]
           ports == {row(s) : s \in LocalPortsForPID(p)}
           r == [pid |-> p, name |-> name[p], user |-> user[p], ports |-> ports]
<1>1. r \in Processes
  BY DEF Processes
<1>2. \A i \in ports : i.of \in LocalPortsForPID(p)
  OBVIOUS
<1>3. ASSUME NEW s \in LocalPortsForPID(p) PROVE \E i \in ports : i.of = s
  <2>1. row(s) \in ports /\ row(s).of = s
    OBVIOUS
  <2> HIDE DEF row, ports
  <2> QED
    BY <2>1
<1>4. r.pid = p /\ r.name = name[p] /\ r.user = user[p] /\ r.ports = ports
  OBVIOUS
<1> HIDE DEF r, ports
<1>5. /\ \A i \in r.ports : <<i.of, p>> \in listed /\ i.of \in Socket
      /\ \A s \in Socket : <<s, p>> \in listed => \E i \in r.ports : i.of = s
  BY <1>2, <1>3, <1>4 DEF LocalPortsForPID
<1> QED
  BY <1>1, <1>4, <1>5

LEMMA RowsAre ==
    ASSUME NEW r \in Processes
    PROVE  /\ r.pid \in DOMAIN name
           /\ \A i \in r.ports : <<i.of, r.pid>> \in listed
           /\ \A i \in r.ports : i.tls = "certificate" =>
                 i.of \in DOMAIN scanned /\ scanned[i.of] = "certificate" /\ i.port = PortOf(i.of)
<1>1. PICK p \in DOMAIN name :
         r = [pid |-> p, name |-> name[p], user |-> user[p],
              ports |-> {[of |-> s, port |-> PortOf(s), tls |-> IF s \in DOMAIN scanned THEN scanned[s] ELSE "nil"]
                           : s \in LocalPortsForPID(p)}]
  BY DEF Processes
<1>2. r.pid = p
  BY <1>1
<1>3. ASSUME NEW i \in r.ports
      PROVE  /\ <<i.of, p>> \in listed
             /\ i.tls = "certificate" =>
                   i.of \in DOMAIN scanned /\ scanned[i.of] = "certificate" /\ i.port = PortOf(i.of)
  <2>1. PICK s \in LocalPortsForPID(p) :
           i = [of |-> s, port |-> PortOf(s), tls |-> IF s \in DOMAIN scanned THEN scanned[s] ELSE "nil"]
    BY <1>1
  <2>2. i.of = s /\ i.port = PortOf(s) /\ i.tls = IF s \in DOMAIN scanned THEN scanned[s] ELSE "nil"
    BY <2>1
  <2> QED
    BY <2>2 DEF LocalPortsForPID
<1> QED
  BY <1>2, <1>3

\* For any machine and any changes of it during the scan: of whatever did not
\* change hands the report is true, and certificates and keys are.
THEOREM ReportIsTrue == Spec => []TrueOfWhatStayed
<1>1. ASSUME Inv, outcome = "reported"
      PROVE  /\ \A p \in Pid \ restarted :
                   IF ~Taken(p) THEN \A r \in host : r.pid # p
                   ELSE \E r \in host :
                          /\ r.pid = p /\ r.name = runs[p] /\ r.user \in {"", UserOf[runs[p]]}
                          /\ PortsTrue(r)
                          /\ PortsComplete(r) \/ \A s \in host : s.ports = {}
             /\ \A r \in host : \A i \in r.ports : i.tls = "certificate" => CertificateTrue(i)
             /\ \A i, j \in DOMAIN sshKeys : sshKeys[i] = sshKeys[j] => i = j
  <2>a. pc = "returned" /\ host = Processes /\ Kept
    BY <1>1 DEF Inv, Looks, Stages, Kept
  <2>b. /\ \A p \in Pid \ restarted : Named(p)
        /\ DOMAIN user = DOMAIN name
        /\ \A p \in DOMAIN user \ restarted : user[p] \in {"", UserOf[runs[p]]}
        /\ \A s \in Socket, p \in Pid : <<s, p>> \in listed /\ s \notin moved => owner[s] = {p}
        /\ listed = {} \/ ListedFrom(Socket)
        /\ CertificatesTrue /\ KeysTrue
    BY <1>1, <2>a DEF Inv, Looks, NamesTrue, UsersTrue, SocketsTrue
  <2>1. ASSUME NEW p \in Pid \ restarted, ~Taken(p) PROVE \A r \in host : r.pid # p
    BY <2>a, <2>b, <2>1, RowsAre DEF Named
  <2>2. ASSUME NEW p \in Pid \ restarted, Taken(p)
        PROVE  \E r \in host :
                  /\ r.pid = p /\ r.name = runs[p] /\ r.user \in {"", UserOf[runs[p]]}
                  /\ PortsTrue(r)
                  /\ PortsComplete(r) \/ \A s \in host : s.ports = {}
    <3>1. p \in DOMAIN name /\ name[p] = runs[p] /\ user[p] \in {"", UserOf[runs[p]]}
      BY <2>b, <2>2 DEF Named
    <3>2. PICK r \in Processes :
             /\ r.pid = p /\ r.name = name[p] /\ r.user = user[p]
             /\ \A i \in r.ports : <<i.of, p>> \in listed /\ i.of \in Socket
             /\ \A s \in Socket : <<s, p>> \in listed => \E i \in r.ports : i.of = s
      BY <3>1, RowOf
    <3>3. PortsTrue(r)
      BY <2>b, <3>2 DEF PortsTrue
    <3>4. CASE listed = {}
      <4>1. \A s \in host : s.ports = {}
        BY <2>a, <3>4, RowsAre
      <4> QED
        BY <2>a, <3>1, <3>2, <3>3, <4>1
    <3>5. CASE ListedFrom(Socket)
      <4>1. PortsComplete(r)
        BY <3>2, <3>5 DEF PortsComplete, ListedFrom
      <4> QED
        BY <2>a, <3>1, <3>2, <3>3, <4>1
    <3> QED
      BY <2>b, <3>4, <3>5
  <2>3. ASSUME NEW r \in host, NEW i \in r.ports, i.tls = "certificate" PROVE CertificateTrue(i)
    <3>1. i.of \in DOMAIN scanned /\ scanned[i.of] = "certificate" /\ i.port = PortOf(i.of)
      BY <2>a, <2>3, RowsAre
    <3> QED
      BY <2>b, <3>1 DEF CertificatesTrue, ServedOrChanged, CertificateTrue
  <2> QED
    BY <2>1, <2>2, <2>3, <2>b DEF KeysTrue
<1>2. Inv => TrueOfWhatStayed
  BY <1>1 DEF TrueOfWhatStayed
<1> QED
  BY Invariance, <1>2, PTL
=============================================================================
