------------------------------ MODULE Reports -------------------------------
(***************************************************************************)
(* scantron report: commands/report.go with the four queries of report/*.go*)
(* on the database of Database.tla.                                        *)
(*                                                                         *)
(* The command opens the file and makes its queries one after the other,   *)
(* outside of any transaction, while a scan may go on saving.  Each query  *)
(* joins tables along their ids.  The command exports the reports where    *)
(* asked to, prints them, and fails if any has a row.                      *)
(***************************************************************************)
EXTENDS Database

CONSTANTS
    HostName,       \* HostName[v]: the name of the host v, told apart by its address
    PortColumns,    \* PortColumns[v]: address, number and state of the port v
    UserColumn,     \* UserColumn[v]: the user of the process v
    Internal,       \* the addresses 127.0.0.1, 172.* and 169.*
    JobsFiles,      \* the paths under /var/vcap/data/jobs/
    WorldReadable,  \* the paths whose permissions have the bit 04
    Recommended,    \* the ciphers BuildCipherSuites marks as recommended
    MaxReadErrors   \* bound: the queries of a command that fail after they began

ASSUME ReportsAssumption ==
    /\ \A v \in DOMAIN PortColumns : DOMAIN PortColumns[v] = {"address", "number", "state"}
    /\ MaxReadErrors \in Nat

VARIABLES
    rep,        \* the report command: pc and the reports built so far
    readErrors, \* the queries of this command that failed after they began
    atOpen      \* history: what was saved when the command opened the file

allVars == <<vars, rep, readErrors, atOpen>>

NoReports == [root |-> {}, tls |-> {}, files |-> {}, keys |-> {}]
After == [root |-> "tls", tls |-> "files", files |-> "keys", keys |-> "export"]

-----------------------------------------------------------------------------
(* The queries, on the committed rows R.                                   *)

Refers(R, x, v) == CHOOSE y \in InTable(R, TableOf[v]) : y.id = x.of[v]
HostOf(R, x) == HostName[Refers(R, x, "hostID").value]
HostOfPort(R, po) == HostOf(R, Refers(R, po, "processID"))

Exposed(po) ==
    LET c == PortColumns[po.value]
    IN  c.state \in {"LISTEN", "Listen", "Bound"} /\ c.address \notin Internal

BuildRootProcessesReport(R) ==
    {<<HostOfPort(R, po), PortColumns[po.value].number, Refers(R, po, "processID").value>> :
        po \in {po \in InTable(R, "ports") :
                  LET pr == Refers(R, po, "processID").value
                  IN  /\ Exposed(po)
                      /\ UserColumn[pr] \in {"root", "SYSTEM"}
                      /\ pr \notin {"sshd", "rpcbind"}}}

goodSuites == {"VersionTLS12"}

\* Fault: a pair is approved if its suite or its cipher is.
NotApprovedAtAll(suite, cipher) == suite \notin goodSuites /\ cipher \notin Recommended

NotApproved(suite, cipher) == suite \notin goodSuites \/ cipher \notin Recommended

\* The suites and ciphers of each host, port and process are put together.
BuildTLSViolationsReport(R) ==
    LET row(x) ==
            LET po == Refers(R, Refers(R, x, "certID"), "portID")
            IN  [for |-> <<HostOfPort(R, po), PortColumns[po.value].number,
                           Refers(R, po, "processID").value>>,
                 suite |-> Refers(R, x, "suiteID").value,
                 cipher |-> Refers(R, x, "cipherID").value]
        found == {r \in {row(x) : x \in InTable(R, "certificate_to_ciphersuite")} :
                    NotApproved(r.suite, r.cipher)}
    IN  {<<h, {r.suite : r \in {r \in found : r.for = h}} \ goodSuites,
              {r.cipher : r \in {r \in found : r.for = h}} \ Recommended>>
           : h \in {r.for : r \in found}}

BuildWorldReadableFilesReport(R) ==
    {<<HostOf(R, f), f.value>> :
        f \in {f \in InTable(R, "files") : f.value \in JobsFiles \cap WorldReadable}}

\* A host has a row for each pair of keys, which a set does not count.
BuildInsecureSshKeyReport(R) ==
    {<<HostOf(R, s[1])>> :
        s \in {s \in InTable(R, "ssh_keys") \X InTable(R, "ssh_keys") :
                 s[1].value = s[2].value /\ s[1].id # s[2].id}}

Build(R, step) ==
    CASE step = "root" -> BuildRootProcessesReport(R)
      [] step = "tls" -> BuildTLSViolationsReport(R)
      [] step = "files" -> BuildWorldReadableFilesReport(R)
      [] step = "keys" -> BuildInsecureSshKeyReport(R)

-----------------------------------------------------------------------------
(* The command.                                                            *)

Idle == [pc |-> "start", built |-> NoReports]

ReportsInit == Init /\ rep = Idle /\ readErrors = 0 /\ atOpen = {}

Proceed(pc) == rep' = [rep EXCEPT !.pc = pc] /\ UNCHANGED <<vars, readErrors, atOpen>>

Open ==
    /\ rep.pc = "start" /\ OpenDatabase
    /\ rep' = [rep EXCEPT !.pc = IF reader' = "open" THEN "root" ELSE "failed"]
    /\ atOpen' = saved
    /\ UNCHANGED readErrors

Built(step, report) ==
    /\ rep.pc = step
    /\ rep' = [pc |-> After[step], built |-> [rep.built EXCEPT ![step] = report]]
    /\ UNCHANGED <<vars, atOpen>>

BuildReport(step) == Built(step, Build(rows, step)) /\ UNCHANGED readErrors

BuildFails(step) == rep.pc = step /\ Proceed("failed")

\* The error that ends rows.Next is not asked for: what was read so far passes
\* for the result.
BuildTruncated(step) ==
    /\ readErrors < MaxReadErrors /\ readErrors' = readErrors + 1
    /\ \E some \in SUBSET Build(rows, step) : Built(step, some)

\* The directory, if one is named and is not there, and a file for each report.
Export == rep.pc = "export" /\ (Proceed("print") \/ Proceed("failed"))

\* Fault: one of the reports does not count.
PrintThreeReports ==
    /\ rep.pc = "print"
    /\ rep' = [Idle EXCEPT !.pc = IF [rep.built EXCEPT !.files = {}] = NoReports THEN "clean" ELSE "violations"]
    /\ UNCHANGED <<vars, readErrors, atOpen>>

\* The command succeeds if all four reports are empty.
PrintReports ==
    /\ rep.pc = "print"
    /\ rep' = [Idle EXCEPT !.pc = IF rep.built = NoReports THEN "clean" ELSE "violations"]
    /\ UNCHANGED <<vars, readErrors, atOpen>>

\* The process ends, and the command may be given again.
End ==
    /\ rep.pc \in {"clean", "violations", "failed"} /\ CloseDatabase
    /\ rep' = Idle /\ readErrors' = 0 /\ atOpen' = {}

ReportStep ==
    \/ Open \/ Export \/ PrintReports \/ End
    \/ \E step \in DOMAIN NoReports : BuildReport(step) \/ BuildFails(step) \/ BuildTruncated(step)

ReportsNext ==
    \/ ReportStep
    \/ ((\E c \in Command : CommandStep(c)) \/ RemoveFile) /\ UNCHANGED <<rep, readErrors, atOpen>>

ReportsSpec == ReportsInit /\ [][ReportsNext]_allVars

-----------------------------------------------------------------------------
(* What the reports should show of a set S of saved scans, told from the   *)
(* scans themselves.                                                       *)

HostsIn(S) == UNION {ToSet(r.hosts) : r \in S}

\* The ports of the processes, with what identifies them in a report.
Ports(S) ==
    UNION {UNION {{[for |-> <<HostName[h.host], PortColumns[p.number].number, s.name>>, port |-> p] :
                     p \in ToSet(s.ports)} : s \in ToSet(h.services)} : h \in HostsIn(S)}

ExternalRoot(S) ==
    {x.for : x \in {x \in Ports(S) :
        /\ PortColumns[x.port.number].state \in {"LISTEN", "Listen", "Bound"}
        /\ PortColumns[x.port.number].address \notin Internal
        /\ UserColumn[x.for[3]] \in {"root", "SYSTEM"} /\ x.for[3] \notin {"sshd", "rpcbind"}}}

\* The suites with ciphers of the ports at x that have a certificate.
Offered(S, x) ==
    UNION {{t \in ToSet(y.port.tls.suites) : t.ciphers # <<>>} :
             y \in {y \in Ports(S) : y.for = x /\ y.port.tls # NoTLS /\ y.port.tls.cert # ""}}
WeakTLS(S) ==
    {y \in {<<x, {t.suite : t \in Offered(S, x)} \ goodSuites,
                 (UNION {ToSet(t.ciphers) : t \in Offered(S, x)}) \ Recommended>> :
              x \in {p.for : p \in Ports(S)}} : y[2] # {} \/ y[3] # {}}

ReadableFiles(S) ==
    UNION {{<<HostName[h.host], f.path>> : f \in {f \in ToSet(h.files) : f.path \in JobsFiles \cap WorldReadable}} :
             h \in HostsIn(S)}

\* The hosts with a key that was saved more than once, of them or of others.
SavedKeys(S) ==
    UNION {UNION {{[host |-> r.hosts[i].host, key |-> r.hosts[i].keys[j], at |-> <<r, i, j>>] :
                     j \in DOMAIN r.hosts[i].keys} : i \in DOMAIN r.hosts} : r \in S}
SharedKeys(S) ==
    {<<HostName[k.host]>> : k \in {k \in SavedKeys(S) : \E l \in SavedKeys(S) : l.key = k.key /\ l.at # k.at}}

Violations(S) ==
    [root |-> ExternalRoot(S), tls |-> WeakTLS(S), files |-> ReadableFiles(S), keys |-> SharedKeys(S)]

-----------------------------------------------------------------------------
(* Properties.                                                             *)

\* The types of the variables, those of Database.tla included.
ReportsTypeOK ==
    /\ TypeOK
    /\ rep.pc \in DOMAIN After \cup {"start", "export", "print", "clean", "violations", "failed"}
    /\ DOMAIN rep.built = DOMAIN NoReports
    /\ rep.pc = "start" <=> reader = "closed"
    /\ readErrors \in 0..MaxReadErrors /\ atOpen \subseteq Report

\* Each report shows, when its query is made, all the violations of the scans
\* saved at that moment and nothing else, whatever rows the scans share and
\* whatever other scan is being saved, unless the query fails halfway.
ShowsTheSaved ==
    [][\A step \in DOMAIN NoReports :
          rep.pc = step /\ rep'.pc = After[step] /\ readErrors' = readErrors
             => rep'.built[step] = Violations(saved)[step]]_allVars

\* The command exits with 0 only if nothing that was saved when it opened the
\* file is a violation, unless a query failed halfway.
CleanMeansClean ==
    rep.pc = "clean" /\ readErrors = 0 => Violations(atOpen) = NoReports

\* As the tests of commands/report_test.go expect, the command does not exit
\* with 0 when the database holds violations.
ViolationsFail == rep.pc = "clean" => Violations(atOpen) = NoReports
=============================================================================
