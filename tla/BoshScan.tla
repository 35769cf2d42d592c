------------------------------ MODULE BoshScan ------------------------------
(***************************************************************************)
(* scantron bosh-scan: commands/bosh_scan.go with scanner/bosh.go and      *)
(* scanner/scanner.go.                                                     *)
(*                                                                         *)
(* The command runs one goroutine per deployment.  Each sets up an SSH     *)
(* account on all machines of its deployment, scans them in a goroutine    *)
(* per machine that copies proc_scan there and runs it, collects the hosts *)
(* over an unbuffered channel, removes the account and saves the report    *)
(* under a mutex.  log.Fatalf and a panic in any goroutine end the whole   *)
(* process at once.  The director and the machines may refuse or fail any  *)
(* request; a machine may also never answer, since RunCommand and          *)
(* UploadFile have no timeout.                                             *)
(***************************************************************************)
EXTENDS Naturals, Sequences, FiniteSets

CONSTANTS
    Deployment,   \* the deployments named on the command line
    VM,           \* all machines
    VMsOf,        \* VMsOf[d]: the machines the director lists for d
    NoOne         \* the mutex is free

ASSUME DeploymentAssumption ==
    /\ IsFiniteSet(Deployment) /\ IsFiniteSet(VM)
    /\ VMsOf \in [Deployment -> SUBSET VM]
    /\ \A d, e \in Deployment : d # e => VMsOf[d] \cap VMsOf[e] = {}
    /\ NoOne \notin Deployment

VARIABLES
    main,      \* the command: its progress and, at the end, its outcome
    session,   \* whether requests to the director find a token session
    dbFile,    \* whether the database file exists
    dep,       \* pc of each deployment's goroutine
    vms,       \* the machines VMs() returned to Scan
    wg,        \* Scan's WaitGroup
    closer,    \* pc of the goroutine that closes hosts
    closed,    \* whether the channel hosts is closed
    scanned,   \* scannedHosts
    account,   \* the SSH account on the machines of a deployment
    vm,        \* the goroutine of each machine
    mutex,     \* who holds the command's mutex
    report     \* the reports committed for each deployment

depVars == <<vms, wg, closer, closed, scanned, account>>
work == <<dep, depVars, vm, mutex, report>>
vars == <<main, session, dbFile, work>>

\* What was set up for a scan: "tried" once its removal was tried, of which the
\* error is dropped; "left" if nothing is going to remove it.
Residue == {"none", "present", "tried", "left"}

Init ==
    /\ main = "certificate" /\ session = TRUE /\ dbFile \in BOOLEAN
    /\ dep = [d \in Deployment |-> "idle"]
    /\ vms = [d \in Deployment |-> {}] /\ scanned = [d \in Deployment |-> {}]
    /\ wg = [d \in Deployment |-> 0]
    /\ closer = [d \in Deployment |-> "off"] /\ closed = [d \in Deployment |-> FALSE]
    /\ account = [d \in Deployment |-> "none"]
    /\ vm = [m \in VM |-> [pc |-> "idle", ok |-> FALSE, temp |-> "none",
                           remote |-> "none", conn |-> FALSE]]
    /\ mutex = NoOne
    /\ report = [d \in Deployment |-> <<>>]

-----------------------------------------------------------------------------
(* The command.                                                            *)

Alive == main \notin {"succeeded", "failed"}

\* log.Fatalf, or a panic: the process is gone and nothing deferred runs.
Exit == main' = "failed" /\ UNCHANGED <<session, dbFile, work>>

MainGoto(pc) == main' = pc /\ UNCHANGED <<session, dbFile, work>>

\* The CA certificate, if one is named, is read from a file.
ReadCACert == main = "certificate" /\ (MainGoto("info") \/ Exit)

\* Asked anonymously, the director names its kind of authentication; UAA is
\* for the creds of a UAA client.
getDirectorInfo == main = "info" /\ (MainGoto("uaa") \/ MainGoto("find") \/ Exit)

\* A director that names no UAA url makes getUAA return neither a UAA nor an
\* error, and the session is made over nothing.
getUAA ==
    /\ main = "uaa"
    /\ \/ /\ main' = "find" /\ session' \in BOOLEAN
          /\ UNCHANGED <<dbFile, work>>
       \/ Exit

\* An account name and key for each deployment; no request is made.
FindDeployments == main = "find" /\ (MainGoto("create") \/ Exit)

GetDeployments == ReadCACert \/ getDirectorInfo \/ getUAA \/ FindDeployments

\* An existing file is refused.
RefuseDatabase == main = "create" /\ dbFile /\ Exit

\* A new file is made first and its schema written then, which may fail.
CreateDatabase ==
    /\ main = "create" /\ ~dbFile
    /\ dbFile' = TRUE
    /\ main' \in {"launch", "failed"}
    /\ UNCHANGED <<session, work>>

Launch ==
    /\ main = "launch"
    /\ main' = "wait"
    /\ dep' = [d \in Deployment |-> "list"]
    /\ UNCHANGED <<session, dbFile, depVars, vm, mutex, report>>

\* Fault: the command does not wait for the deployments.
FinishEarly ==
    /\ main = "wait"
    /\ MainGoto("succeeded")

Finish ==
    /\ main = "wait"
    /\ \A d \in Deployment : dep[d] = "end"
    /\ MainGoto("succeeded")

MainStep == GetDeployments \/ RefuseDatabase \/ CreateDatabase \/ Launch \/ Finish

-----------------------------------------------------------------------------
(* A deployment's goroutine: Scan, then SaveReport under the mutex.        *)

At(d, pc) == Alive /\ dep[d] = pc
DepGoto(d, pc) == dep' = [dep EXCEPT ![d] = pc]

\* Fault: wg.Add is forgotten.
ListVMsUncounted(d) ==
    /\ At(d, "list") /\ DepGoto(d, "setup")
    /\ \E listed \in {VMsOf[d], {}} : vms' = [vms EXCEPT ![d] = listed]
    /\ UNCHANGED <<main, session, dbFile, wg, closer, closed, scanned, account, vm, mutex, report>>

\* The first request needs a token: without a session it panics.
ListVMsPanics(d) == At(d, "list") /\ ~session /\ Exit

\* VMs() drops the director's error: the list is then empty.
ListVMs(d) ==
    /\ At(d, "list") /\ session /\ DepGoto(d, "setup")
    /\ \E listed \in {VMsOf[d], {}} :
          /\ vms' = [vms EXCEPT ![d] = listed]
          /\ wg' = [wg EXCEPT ![d] = Cardinality(listed)]
    /\ UNCHANGED <<main, session, dbFile, closer, closed, scanned, account, vm, mutex, report>>

\* Setup fails before Cleanup is deferred, and the command exits.
SetupFails(d) == At(d, "setup") /\ Exit

\* Setup succeeds: the goroutines of the machines and the closer are started.
Setup(d) ==
    /\ At(d, "setup") /\ DepGoto(d, "collect")
    /\ account' = [account EXCEPT ![d] = "present"]
    /\ vm' = [m \in VM |-> IF m \in vms[d] THEN [vm[m] EXCEPT !.pc = "connect"] ELSE vm[m]]
    /\ closer' = [closer EXCEPT ![d] = "wait"]
    /\ UNCHANGED <<main, session, dbFile, vms, wg, closed, scanned, mutex, report>>

\* hosts is unbuffered: the machine's send is the deployment's receive.
Receive(d, m) ==
    /\ At(d, "collect") /\ m \in vms[d] /\ vm[m].pc = "send"
    /\ scanned' = [scanned EXCEPT ![d] = @ \cup {m}]
    /\ vm' = [vm EXCEPT ![m].pc = "close"]
    /\ UNCHANGED <<main, session, dbFile, dep, vms, wg, closer, closed, account, mutex, report>>

\* Fault: Scan stops collecting before hosts is closed.
CollectEndsEarly(d) ==
    /\ At(d, "collect")
    /\ DepGoto(d, "cleanup")
    /\ UNCHANGED <<main, session, dbFile, depVars, vm, mutex, report>>

\* Fault: Cleanup is not called.
CollectEndsUnclean(d) ==
    /\ At(d, "collect") /\ closed[d]
    /\ DepGoto(d, "lock")
    /\ UNCHANGED <<main, session, dbFile, depVars, vm, mutex, report>>

CollectEnds(d) ==
    /\ At(d, "collect") /\ closed[d]
    /\ DepGoto(d, "cleanup")
    /\ UNCHANGED <<main, session, dbFile, depVars, vm, mutex, report>>

\* The deferred Cleanup, whose error is dropped.
Cleanup(d) ==
    /\ At(d, "cleanup") /\ DepGoto(d, "lock")
    /\ account' = [account EXCEPT ![d] = "tried"]
    /\ UNCHANGED <<main, session, dbFile, vms, wg, closer, closed, scanned, vm, mutex, report>>

Lock(d) ==
    /\ At(d, "lock") /\ mutex = NoOne
    /\ mutex' = d /\ DepGoto(d, "save")
    /\ UNCHANGED <<main, session, dbFile, depVars, vm, report>>

\* SaveReport is one transaction: it commits, or the command exits.
SaveReport(d) ==
    /\ At(d, "save") /\ DepGoto(d, "unlock")
    /\ report' = [report EXCEPT ![d] = Append(@, scanned[d])]
    /\ UNCHANGED <<main, session, dbFile, depVars, vm, mutex>>

SaveFails(d) == At(d, "save") /\ Exit

\* Fault: the mutex is not released.
UnlockForgotten(d) ==
    /\ At(d, "unlock") /\ DepGoto(d, "end")
    /\ UNCHANGED <<main, session, dbFile, depVars, vm, mutex, report>>

Unlock(d) ==
    /\ At(d, "unlock") /\ DepGoto(d, "end")
    /\ mutex' = NoOne
    /\ UNCHANGED <<main, session, dbFile, depVars, vm, report>>

DepStep(d) ==
    \/ ListVMsPanics(d) \/ ListVMs(d) \/ SetupFails(d) \/ Setup(d)
    \/ (\E m \in VM : Receive(d, m)) \/ CollectEnds(d)
    \/ Cleanup(d) \/ Lock(d) \/ SaveReport(d) \/ SaveFails(d) \/ Unlock(d)

\* Fault: the closer does not wait for the WaitGroup.
CloserHurries(d) ==
    /\ Alive /\ closer[d] = "wait"
    /\ closer' = [closer EXCEPT ![d] = "close"]
    /\ UNCHANGED <<main, session, dbFile, dep, vms, wg, closed, scanned, account, vm, mutex, report>>

CloserWaits(d) ==
    /\ Alive /\ closer[d] = "wait" /\ wg[d] = 0
    /\ closer' = [closer EXCEPT ![d] = "close"]
    /\ UNCHANGED <<main, session, dbFile, dep, vms, wg, closed, scanned, account, vm, mutex, report>>

CloseHosts(d) ==
    /\ Alive /\ closer[d] = "close"
    /\ closer' = [closer EXCEPT ![d] = "end"]
    /\ closed' = [closed EXCEPT ![d] = TRUE]
    /\ UNCHANGED <<main, session, dbFile, dep, vms, wg, scanned, account, vm, mutex, report>>

CloserStep(d) == CloserWaits(d) \/ CloseHosts(d)

-----------------------------------------------------------------------------
(* A machine's goroutine: connect, scanMachine, send, Close, wg.Done.      *)

VMAt(m, pc) == Alive /\ vm[m].pc = pc
VMBecomes(m, r) ==
    vm' = [vm EXCEPT ![m] = r] /\ UNCHANGED <<main, session, dbFile, dep, depVars, mutex, report>>
VMGoto(m, pc) == VMBecomes(m, [vm[m] EXCEPT !.pc = pc])

\* BestAddress panics on a machine without addresses, ConnectTo when the
\* stemcells could not be listed.
ConnectTo(m) == VMAt(m, "connect") /\ (VMGoto(m, "temp") \/ Exit)

\* The temporary file may not be created, or created and not written: its
\* removal is then not deferred yet.
WriteTempFile(m) ==
    /\ VMAt(m, "temp")
    /\ \E r \in {<<"upload", "present">>, <<"close", "none">>, <<"close", "left">>} :
          VMBecomes(m, [vm[m] EXCEPT !.pc = r[1], !.temp = r[2]])

\* sshConn dials; after Create the errors of the copy are dropped.
Upload(m) ==
    /\ VMAt(m, "upload")
    /\ VMBecomes(m, [vm[m] EXCEPT !.pc = "run", !.remote = "present", !.conn = TRUE])

UploadFails(m) ==
    /\ VMAt(m, "upload")
    /\ \E c \in BOOLEAN : VMBecomes(m, [vm[m] EXCEPT !.pc = "remove", !.conn = c])

\* RunCommand and the decoding of its output; proc_scan may exit non-zero.
RunCommand(m) ==
    /\ VMAt(m, "run")
    /\ \E ok \in BOOLEAN : VMBecomes(m, [vm[m] EXCEPT !.pc = "delete", !.ok = ok])

\* The machine does not answer, and no timeout ends the wait.
Hang(m) ==
    /\ Alive /\ vm[m].pc \in {"upload", "run", "delete"}
    /\ VMGoto(m, "hung")

\* The deferred DeleteFile and os.Remove, whose errors are dropped.
DeleteFile(m) ==
    /\ VMAt(m, "delete")
    /\ VMBecomes(m, [vm[m] EXCEPT !.pc = "remove", !.remote = "tried"])

\* Fault: a machine whose scan failed is reported as well.
RemoveTempFileThenSend(m) ==
    /\ VMAt(m, "remove")
    /\ VMBecomes(m, [vm[m] EXCEPT !.pc = "send", !.temp = "tried"])

RemoveTempFile(m) ==
    /\ VMAt(m, "remove")
    /\ VMBecomes(m, [vm[m] EXCEPT !.pc = IF vm[m].ok THEN "send" ELSE "close",
                                  !.temp = "tried"])

Close(m) ==
    /\ VMAt(m, "close")
    /\ VMBecomes(m, [vm[m] EXCEPT !.pc = "done", !.conn = FALSE])

\* Fault: wg.Done is forgotten.
DoneForgotten(m) == VMAt(m, "done") /\ VMGoto(m, "end")

Done(m) ==
    /\ VMAt(m, "done")
    /\ vm' = [vm EXCEPT ![m].pc = "end"]
    /\ wg' = [d \in Deployment |-> IF m \in VMsOf[d] THEN wg[d] - 1 ELSE wg[d]]
    /\ UNCHANGED <<main, session, dbFile, dep, vms, closer, closed, scanned, account, mutex, report>>

Answer(m) ==
    \/ ConnectTo(m) \/ WriteTempFile(m) \/ Upload(m) \/ UploadFails(m) \/ RunCommand(m)
    \/ DeleteFile(m) \/ RemoveTempFile(m) \/ Close(m) \/ Done(m)

VMStep(m) == Answer(m) \/ Hang(m)

-----------------------------------------------------------------------------

Hung(d) == \E m \in vms[d] : vm[m].pc = "hung"

\* The process has ended, or waits for machines that do not answer.
Terminated ==
    /\ \/ ~Alive
       \/ /\ main = "wait" /\ \E d \in Deployment : Hung(d)
          /\ \A d \in Deployment : dep[d] = "end" \/ (dep[d] = "collect" /\ Hung(d))
          /\ \A m \in VM : vm[m].pc \in {"idle", "hung", "end"}
    /\ UNCHANGED vars

Next ==
    \/ MainStep
    \/ \E d \in Deployment : DepStep(d) \/ CloserStep(d)
    \/ \E m \in VM : VMStep(m)
    \/ Terminated

\* Goroutines run, and the director and the machines answer unless they hang.
Fairness ==
    /\ WF_vars(MainStep)
    /\ \A d \in Deployment : WF_vars(DepStep(d)) /\ WF_vars(CloserStep(d))
    /\ \A m \in VM : WF_vars(VMStep(m))

Spec == Init /\ [][Next]_vars /\ Fairness

-----------------------------------------------------------------------------
(* Properties.                                                             *)

MainPcs == {"certificate", "info", "uaa", "find", "create", "launch", "wait", "succeeded", "failed"}
DepPcs == {"idle", "list", "setup", "collect", "cleanup", "lock", "save", "unlock", "end"}
VMState == [pc : {"idle", "connect", "temp", "upload", "run", "hung", "delete",
                  "remove", "send", "close", "done", "end"},
            ok : BOOLEAN, temp : Residue, remote : Residue, conn : BOOLEAN]

\* The types of the variables.
TypeOK ==
    /\ main \in MainPcs /\ session \in BOOLEAN /\ dbFile \in BOOLEAN
    /\ dep \in [Deployment -> DepPcs]
    /\ vms \in [Deployment -> SUBSET VM] /\ scanned \in [Deployment -> SUBSET VM]
    /\ \A d \in Deployment : vms[d] \subseteq VMsOf[d]
    /\ wg \in [Deployment -> Nat]
    /\ closer \in [Deployment -> {"off", "wait", "close", "end"}]
    /\ closed \in [Deployment -> BOOLEAN]
    /\ account \in [Deployment -> Residue]
    /\ vm \in [VM -> VMState]
    /\ mutex \in Deployment \cup {NoOne}
    /\ report \in [Deployment -> Seq(SUBSET VM)]

\* No machine's goroutine is about to send on the closed channel hosts or to
\* take the WaitGroup below zero, and hosts is closed once: a panic there ends
\* the scans of all deployments.
NoPanic ==
    \A d \in Deployment :
       /\ \A m \in vms[d] : /\ vm[m].pc = "send" => ~closed[d]
                            /\ vm[m].pc = "done" => wg[d] > 0
       /\ closer[d] = "close" => ~closed[d]

\* As long as a machine's scan runs or its connection is open, the SSH account
\* it logs in with is set up: Cleanup is not called before the last machine of
\* the deployment has closed its connection.
SessionsUnderAccount ==
    \A d \in Deployment : \A m \in vms[d] :
       vm[m].conn \/ vm[m].pc \notin {"idle", "done", "end"} => account[d] = "present"

\* A saved report lists exactly the machines whose scan succeeded, all of them
\* having finished, and not those whose scan failed: the failure of one machine
\* neither loses nor adds another.
ReportIsScan ==
    \A d \in Deployment : report[d] # <<>> =>
       /\ report[d] = <<{m \in vms[d] : vm[m].ok}>>
       /\ \A m \in vms[d] : vm[m].pc = "end"

\* When the command succeeds, it has tried to remove all it set up, the SSH
\* accounts, the uploaded scanners and the temporary files, and has closed every
\* connection.  Whether the removals succeeded it does not know, and a temporary
\* file whose writing failed stays: its removal is not deferred yet.
NothingForgotten ==
    main = "succeeded" =>
       /\ \A d \in Deployment : account[d] = "tried"
       /\ \A m \in VM : /\ ~vm[m].conn /\ vm[m].remote \in {"none", "tried"}
                        /\ vm[m].temp \in {"none", "tried"} \/ (vm[m].temp = "left" /\ ~vm[m].ok)

\* The command implements ScanCommand: reports are written whole and once,
\* and success means that all are written.
Command == INSTANCE ScanCommand WITH
    status <- IF main \in {"succeeded", "failed"} THEN main ELSE "running"
ImplementsCommand == Command!Spec

\* A machine that hangs holds up its own deployment only: every other one is
\* saved, unless the command fails.
OthersSaved ==
    \A d \in Deployment : <>(report[d] # <<>> \/ ~Alive \/ Hung(d))

\* The command ends, unless a machine hangs.
Ends == <>(~Alive \/ \E d \in Deployment : Hung(d))
=============================================================================
