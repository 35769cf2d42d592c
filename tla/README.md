# Scantron in TLA+

Scantron takes a census of machines: processes and the ports they listen on,
the TLS protocols and cipher suites those ports accept, files, and SSH host
keys.  `scantron bosh-scan` and `scantron direct-scan` copy a program,
`proc_scan`, to each machine, run it there and store what it prints in a SQLite
file; `report`, `audit` and `generate-manifest` read that file.

This directory models that code in TLA+, checks the models with TLC on small
instances and proves part of what they show with TLAPS for every instance.
`PROJECT.json` maps every definition to the lines it models and lists the
hazards the properties are for.

1. [The system](#1-the-system-inventory)
2. [The plan](#2-the-plan)
3. [The modules and the code](#3-the-modules-and-the-code)
4. [The runs](#4-the-runs)
5. [Fairness](#5-fairness)
6. [What is proved](#6-what-is-proved)
7. [Where the code does otherwise](#7-where-the-code-does-otherwise)
8. [What is not modelled](#8-what-is-not-modelled)

## 1. The system: inventory

On the operator's machine:

| component | state | operations | what is hard | what makes it correct |
|---|---|---|---|---|
| bosh-scan (`commands/bosh_scan.go`, `scanner/bosh.go`, `scanner/scanner.go`) | a goroutine per deployment and per machine, the channel `hosts`, a WaitGroup, a mutex, temporary files, an SSH account per deployment | list machines, set up, scan, collect, clean up, save | machines that fail or never answer; `log.Fatalf` and panics that end the process while others work; closing a channel others send on | what is saved is what was scanned; nothing set up is forgotten; one machine's trouble stays its own |
| direct-scan (`commands/direct_scan.go`, `scanner/direct.go`) | none of its own | create the file, scan, save | the file exists before there is anything to save | as the database |
| remote machine (`remotemachine/remote_machine.go`) | one cached SSH connection | upload, run, delete, close | neither the dial nor a session has a timeout | the connection is closed before the account goes |
| BOSH deployment (`bosh/bosh.go`) | the director's client, the deployment's SSH keys | GetDeployments, VMs, Setup, ConnectTo, Cleanup, Releases | errors that are dropped; a UAA that may be nil; indexing lists that may be empty | a panic ends the command before or as it ends in the model of `ScanCommand` |
| database (`db/sqlite.go`, `db/schema.go`) | 16 tables, one version row | CreateDatabase, SaveReport, OpenDatabase | ends between two statements; ids carried in variables through nested loops; two commands on one path; column affinity | a report is there whole or not at all; rows hang on the rows they were reported with |
| audit and manifest (`audit/*.go`, `manifest/*.go`, `commands/audit.go`, `commands/generate.go`) | none: a database and a manifest in, a verdict out | audit, generate | several queries that must agree with each other and with the generator; scans that save in between; errors that end a query unnoticed | *ok* means that the hosts conform; a generated manifest fits its scan and tells changes |
| reports (`report/*.go`, `commands/report.go`) | the reports built so far | open, four queries, CSV files, print | queries one by one while scans go on saving; joins over rows that scans share; errors in the middle of a result | each report shows the violations of what is saved, and exit status 0 means that there are none |
| program, flags, logging (`cmd/scantron`, `commands/scantron.go`, `scanlog`) | - | - | - | - |

On each scanned machine, in `proc_scan`:

| component | state | operations | what is hard | what makes it correct |
|---|---|---|---|---|
| proc_scan (`cmd/proc_scan/main.go`, `types.go`) | the `SystemInfo` it prints | three scans in turn, JSON out | exits on the first error; JSON that cannot be read back | what it prints is what `scanMachine` gets |
| process and port scan (`process/*.go`, `netstat/netstat.go`) | - | list processes, users, sockets; TLS of each listening socket; in Linux's way or Windows' | the machine changes between one look and the next; addresses that cannot be read; TLS is tried on localhost only | the report is true of what did not change |
| cipher scan (`tlsscan/tls_scan.go`) | semaphore, WaitGroup, result channel | a task per version and suite | tasks late for the closing of the channel; a semaphore that leaks | results complete, nothing left running |
| TLS handshake (`tlsscan/dialer.go`, `tls.go`, `ciphers.go`) | error channel, timer, connection, two callbacks | AttemptHandshake, FetchTLSInformation | answers after the timeout; reads without synchronization | answers are of the right attempt |
| file walk (`filesystem/file_walker.go`) | three channels, WaitGroup | a walker, N content checkers, a closer, the collecting caller | channels closed while others send; full channels; files that cannot be opened or read to the end | all files or an error; no panic, no deadlock |
| file scanner (`filesystem/file_scanner.go`, `file_linux.go`, `file_windows.go`) | - | owner and group of each walked file | - | - |
| SSH key scan (`ssh/ssh_scanner.go`) | the keys so far | one connection per key algorithm | no timeout; errors of two kinds | no key twice |

Who talks to whom: `bosh-scan` calls the director over HTTPS and machines over
SSH; `proc_scan`'s standard output travels back as one JSON document;
`proc_scan` calls process scan, file walk and key scan one after the other in
one goroutine, and process scan calls the cipher scan, which calls
`AttemptHandshake` from many goroutines.  Inside each concurrent part the
goroutines share Go channels, WaitGroups and a semaphore; the commands share
the SQLite file.

## 2. The plan

Modules in the order they were and will be written, the most concurrent first:

1. `FileWalker` with the abstract `FileInventory` it implements - **done**;
2. `TlsScan` - **done**;
3. `BoshScan` with the abstract `ScanCommand` it implements - **done**;
4. `Database` - **done**;
5. `Audit` - **done**;
6. `Handshake`, the detail below `TlsScan` - **done**;
7. `ProcScan`, what lies between `BoshScan` and the scans of a machine, with
   the pure module `Netstat` it reads sockets through - **done**, for Linux and
   Windows and with the key scan;
8. `Reports`, which composes the report command with the commands that write
   the file (it extends `Database`) - **done**.

The modules sit on four levels, and each level takes the one below as a single
step whose outcomes the lower module justifies:

| step above | stands for | what it relies on |
|---|---|---|
| `RunCommand` of `BoshScan` | all of `ProcScan` | `Ends`, or `Hang` |
| `SaveReport`, `SaveFails` of `BoshScan` | one transaction of `Database` | `ReportsWhole` |
| `ScanFiles` of `ProcScan` | all of `FileWalker` | `ImplementsInventory`, `AllEnd` |
| `ScanCiphers` of `ProcScan` | all of `TlsScan` | `ResultsExact`, `AllEnd` |
| `Probe` of `TlsScan` | one version of `Handshake` | `SupportedIsServed` |
| `Found`, `NotFound` of `TlsScan` | one call of `AttemptHandshake` | `AnswerIsNegotiation`, `AllEnd` |

The proofs are in modules of their own, one for each component: `FileWalkerProofs`,
`TlsScanProofs`, `HandshakeProofs`, `BoshScanProofs`, `DatabaseProofs` (of
`Database` and `Reports`) with `SavedReportsProofs`, `AuditProofs` and
`ProcScanProofs`.  They came in order of worth: the inductive invariants of
`FileWalker` and `TlsScan` and `ResultsExact` first, then `Handshake`,
`BoshScan` with its refinement of `ScanCommand`, `Database`, `Audit`, what
`Walk()` returns with the refinement of `FileInventory`, `ProcScan`, what the
tables say of the saved reports, what the report command makes of them, and last
that the goroutines of the concurrent components never all wait for each other.
Section 6 says what they show and what is left.

## 3. The modules and the code

Conventions.  A goroutine is a program counter with its local variables; an
action is what it does up to the next point where another goroutine, machine or
process can notice: a channel operation, a WaitGroup, a semaphore, a request, a
statement.  A buffered channel is a sequence with a capacity, an unbuffered one
a joint step of sender and receiver.  `log.Fatalf` and a panic end everything
in one step.  Actions whose comment begins with *Fault:* are not part of any
next-state relation: each is a plausible mistake in the action that follows it,
and a run must report a violation when it takes that action's place.

### FileWalker, FileInventory

`Walk()` of `filesystem/file_walker.go`.

| state | code |
|---|---|
| `visited`, `walker` | `filepath.Walk` in its goroutine: the entries seen, the file in hand, the error |
| `regexQueue`, `wf`, `done` | the channels of these names; `done` has capacity 1, the others `maxInFlight` |
| `worker[w]` | a content checker: file, next regex, matches so far |
| `wg`, `closed` | the WaitGroup's counter; the channels that have been closed |
| `closer` | the goroutine `<-done; wg.Wait(); close(wf); close(regexQueue); done <- err` |
| `caller`, `files` | `Walk` itself, collecting |

The walk visits a tree in `filepath.Walk`'s order (`Place`) and does not enter
excluded directories.  Any entry may turn out unreadable (`VisitFails`).  A
file is opened anew for every content regex, and any of these may fail
(`CheckFails`): the matches found before are dropped.  A read that fails later
is no error: `MatchReader` takes it for the end of the text, so that the regex
may be missed, or match where the whole text does not (`Hits`, for the files in
`Damaged`), and the matches of the other regexes are kept.  Contents and names
are reduced to which regexes they match.  `FileInventory` is what a caller may
rely on: files are recorded one by one, each with what one reading of its
content gave (`Readings`), and the walk ends with every file or, having failed,
with none.

### TlsScan

`Scan`, `testCipher` and `release` of `tlsscan/tls_scan.go`.  `task[<<v, s>>]`
is the goroutine of one version and one suite; `free` the semaphore, `wg` the
WaitGroup, `resultChan` the channel, `closer` the goroutine that closes it,
`caller` `Scan`.  A task first gives back the semaphore, then the WaitGroup, as
`release` does.  Tasks are started in any order, which contains the code's
order of versions and suites.

### Handshake

`AttemptHandshake` of `tlsscan/dialer.go` for one version after the other, as
`getSupportedProtocols` calls it.  `attempt[v]` holds what a call leaves
behind when it has returned: its timer, its connection, crypto/tls's handshake
(`pc`, `result`), `errChannel` of capacity 2, the connection's `cipherSuite`
that is read by reflection and the callback's mark `providesCert`.  After a
timeout these are read while the handshake may still write them; `Seen` lets
such a read return the old value or the new one.  The handshake itself is the
library's: it may fail at any point and may succeed only as the constants
`Negotiates`, `Serves` and `Requests` say of the service.

### ProcScan, Netstat

`cmd/proc_scan/main.go` on a machine that goes on working, with the process
scan of `process/` and the key scan of `ssh/`.  `os`, `runs` and `owner` are
the machine: which program runs under a pid, which pid has a socket open.
`ProcessEnds`, `ProcessStarts` and `SocketMoves` change it until the last look
at it; `restarted` and `moved` record what changed.  The scan lists processes
and users (`GetProcesses`, `getUser`: with `ps` per pid on Linux, in one
PowerShell command on Windows), lists sockets (`GetPortsLinux`, or
`GetUDPEndpoints` and `GetTCPConnections`), and connects to the number of each
listening socket *on localhost* (`Reached` says what is there), once for the
ciphers and once for the certificate.  Each of these looks at the machine as it
is by then.  Errors go the way of the code: dropped (`netstat`, `ps`,
PowerShell's second command, which takes the answer of the first with it), kept
in the report (`ScanError`, of the cipher scan and of the certificate), or fatal (`Exit`, also for the panic over a key
that is neither RSA nor ECDSA).  `DialKey` asks `sshd` for one algorithm after
the other.  `Decode` is `json.Encode` in `proc_scan` followed by `json.Decode`
in `scanMachine`.  `Netstat` is the parser of `netstat/netstat.go` on a line's
fields: which lines count, and what becomes of addresses with colons.

### BoshScan, ScanCommand

`commands/bosh_scan.go`, `scanner/bosh.go`, `scanner/scanner.go` and the calls
they make on `remotemachine` and `bosh`.  `main` is the command; `dep[d]`, the
goroutine of a deployment, with `vms`, `wg`, `closer`, `closed` and `scanned`,
the variables of its call of `Scan`; `vm[m]` the goroutine of a machine with
its temporary file, its remote file and its connection; `account[d]` the SSH
account; `mutex`; `report[d]` the reports committed.  `GetDeployments` is made
of the steps of `bosh/bosh.go` that reach the director: the certificate, the
director's kind of authentication, UAA, and the deployments; `session` says
whether the requests that follow have a session to go over, and without one
the first of them panics (`ListVMsPanics`).  The code drops the errors of removing an account, an uploaded scanner
or a temporary file, so each of these is *tried* to be removed and nobody knows
whether it is gone; a temporary file that could not be written is *left*, since
its removal is not deferred yet.  `Exit` is `log.Fatalf`
or a panic: no deferred call runs.  `Hang` is a machine that never answers.
`ScanCommand` is the promise about the database: each report once, whole,
final, and success only with all of them.

### Database

`db/sqlite.go` and `db/schema.go`.  `schema` grows statement by statement in
the order of `createDDL`, each committed by itself.  `Statements(r)` is the
sequence of lookups and inserts that `SaveReport` makes for a report in the
order of its loops; each puts an id into a Go variable and takes its foreign
keys from Go variables, so that a stale variable would show up as a wrong key.
`tx[c]` is the transaction: the rows are visible to others after `Commit` only.
`Die` ends a command at any point.  `OpenDatabase` reads the version row.
`Stored` is the column affinity of SQLite for columns declared `string`.
`Facts(r)` says what a report says without ids, and `Joined(rows)` what the
tables say when joined; `ReportsWhole` compares them.

### Reports

`commands/report.go` and `report/*.go`, on the variables and beside the steps
of `Database`: `ReportsNext` interleaves the report command with scans that
create the file, save, die, and an operator who removes it.  `rep` is the
command, with the reports built so far.  A query is a set operator on the
committed rows, joined along their ids, and each is an action of its own
(`BuildReport`), since the code uses no transaction.  `BuildFails` is an error
the code sees; `BuildTruncated` one that it does not: where `rows.Next()` ends
for an error, what was read so far passes for the result.  `Violations(S)` says
from the scans `S` themselves, without rows and ids, what the four reports
should show.  Columns that queries read and `Database` does not tell apart
(state, address, user, permissions) are functions of a row's value.  So is
`HostName`: a row of `hosts` is looked up by name and address, and the reports
show, and group by, the name only, so that two hosts of one name are one there.

### Audit

`audit/audit.go`, `audit/generate.go` and `manifest/`.  Each query is a set
operator under the name of its function.  A database has a list of host names,
one for each row of `hosts` and possibly twice the same, and processes with
their ports, each at a row; a spec is a prefix with a sequence of entries.  Rows
that are alike are one.  `HasPrefix` and `Like` are two relations because the
code decides prefixes twice, with `strings.HasPrefix` and with SQL's `LIKE`,
which reads `_` as any character.

Actions: `Rescan` (the cluster has changed, a new database),
`GenerateManifest`, and the steps of `Audit`: `RunAudit` validates the
manifest, `MapSpec` makes the query for the hosts of one spec after the other,
`LookForHosts` the one for all hosts, `RunQuery` one query about a host after
the other in the order of `auditHost` (`Turn`), `ShowReport` ends the command.
The hosts come in any order, as Go's map does.

A query may go wrong in two ways.  If it cannot be prepared, or the row of a
`COUNT` not be read, the command ends with an error (`AuditFails`).  If it
breaks off while its rows are read in a loop, `rows.Next()` says false,
`rows.Err()` is not asked, and what was read so far passes for the result:
`MapSpecTruncated`, `LookForHostsTruncated`, `RunQueryTruncated` and, for the
generator, `GenerateTruncated`, whose manifest counts as one of no scan (`from`
is `NoManifest`).  `readErrors` counts the first three in an audit.

While an audit runs, `SaveReport` may save another report of a scan into the
same file: hosts that are new, and processes of hosts that are there, which a
deployment that is given twice is scanned for again (`Extends`).
`GenerateManifest` is one step: its query for the hosts stays open to the end,
and its lock keeps others from committing.  `from` remembers the database a
manifest was generated from, `began` the one the audit began with.

## 4. The runs

Distinct states in parentheses.

**walker** (271,488).  Three files to check, one not to check, an excluded
directory, two path and two content regexes, two checkers, channels of capacity
two: enough for both checkers to be busy with the queue and the result channel
full, for a file with several matches, and for a failure between two regexes.
Any open may fail; the reads of `/d/b`, which both content regexes match, may
break off at either of them.
`NoPanic`: nobody sends on a closed channel, closes one twice or takes the
WaitGroup below zero.  `GoroutinesAgree`: WaitGroup, channels and program
counters fit together.  `ResultComplete`: without an error every visible file
is there once, with all of its matches, with none if it could not be opened,
or, if reads of it broke off, with what each of them gave.  `ErrorHandedOver`: the error passes twice through one channel and
reaches the caller.  `ImplementsInventory`: `FileInventory`'s steps and its
fairness.  `AllEnd`: the call returns and all goroutines end.

**tls_scan** (8,627).  Two versions, two suites, two tasks at a time: tasks
wait for the semaphore, and results fill the channel.  `TasksAccounted`,
`NoPanic`, `ResultsExact` (what is returned is what was found, after the
closing of a channel that still holds results), `AllEnd`.

**handshake** (3,577).  One version refused, one served with a request for a
client certificate, timers that fire at any time: an answer or mark taken from
the wrong attempt would show.  `SupportedIsServed`, `AnswerIsNegotiation`,
`OneConnection`, and `AllEnd`: `errChannel` has room for whoever comes late.

**proc_scan** (449,367).  Linux or Windows, two pids, two programs, a TCP socket
on a network address, one with the same number on the IPv6 loopback, which
`netstat.go` cannot read and PowerShell lists, and a UDP socket.  A pid can be
used again, a socket can go to the other process.  `MaxFaults` = 2 bounds
the changes of the machine and the errors that are passed over, together: two
are what it takes for a pid to be used again, or for a change to meet an error.
`TrueOfWhatStayed`: of whatever did not change during the scan the report is
true; users, names, sockets and certificates of two programs are mixed only
where a pid or socket did change hands; the sockets are all there or, if a
listing failed, none is.  It compares sockets, not the addresses read from
`netstat`, of which section 7 says what goes wrong.  `Ends`: the scan does not wait for the machine to
come to rest.

**bosh_scan** (97,225).  Deployments of two machines and of one: a closing
WaitGroup with more than one machine, two deployments at the mutex, an exit in
one while the other works, and a director that refuses any request.
`NoPanic`; `SessionsUnderAccount`: the account is not removed under an open
session; `ReportIsScan`: a failed machine is neither reported nor does it lose
another; `NothingForgotten`: on success every account, uploaded scanner
and temporary file has been asked to be removed, whatever came of it, and every
connection is closed, but the temporary file of a failed machine stays if
its writing failed (`scanner.go:71`); `ImplementsCommand`; `OthersSaved`: a machine that hangs
holds up its own deployment only; `Ends`.

**database** (149,039).  A `bosh-scan` with three reports, one of a deployment
that is given twice, and a `direct-scan`, on one path, and the report command.
The scans share suites, ciphers, regexes, keys and a host name with each other
and within themselves, have ports with and without TLS and with an error, files
with and without matches: every branch of `SaveReport` runs, and a key kept
from an earlier row would be seen.  Two hosts have the same name and different
addresses.  Each of the four reports has something to
show of one of the scans, and nothing of the direct-scan.  `MaxReadErrors` = 1
query that fails halfway in a command; more of them add nothing to one, since
each query is judged by itself.  `ReportsWhole`, `OpenedComplete` (an
interrupted creation does not pass for a database), `OneWriter`, `SavedStays`;
`ShowsTheSaved` (each report shows all the violations of the scans saved at its
moment and no other, though they are found through ids and shared rows),
`CleanMeansClean` (exit status 0 holds for all that was saved when the command
began, though scans were saved between the queries).  Both are stated for
queries whose errors are seen; for the others see **report_errors**.

**audit** (200,696).  At most two of four processes on `web/1`, or any of two on
a pair of rows: `web/10` and `web/1`, of which the second is a prefix of the
first, `web/1` and `db/1`, and `web/1` twice.  Two processes are enough for one
name under two users, for a command that is missing and one that is unexpected,
and for a save that brings a process to a host that is there.  Four manifests
(empty; with a command named twice of which the second is ignored; with a
prefix that matches through `_` only and another that matches the same host;
with an entry that fits some scans) and those generated, truncated ones
included.  `MaxReadErrors` = 1 query of an audit may break off: the properties
speak of audits where none did, and what one does is **audit_errors**.
`OKMeansConforming` compares the queries' verdict with a definition written
spec by spec.  *ok* means that on every host that was there when the audit
began nothing was amiss then (no unexpected port, no wrong user), and that what
its spec asks for is there by now; where nothing is saved meanwhile, an audit
of a cluster that conforms says *ok*.  (Neither holds for more: a process saved
between two queries may supply what was missing, a host saved between the two
queries for hosts may be extra.)  `NoHostSkipped`: every host of the beginning
is audited or extra.  `GeneratedPasses` and `DriftDetected`: a manifest
generated from a scan accepts that scan, if no name is shared (`Plain`), and a
later scan that passes shows nothing new listening, and nothing that stopped.

Five runs expect a violation, see section 7: **proc_scan_errors**,
**proc_scan_localhost**, **database_release**, **report_errors**,
**audit_errors**.

Bounds are the sizes of the constants, `MaxFaults` of `ProcScan` and
`MaxReadErrors` of `Reports` and of `Audit`; no other model has a counter that
needs one.  Walks, scans and commands are finite, and in `Audit` the
set of states is.  Deadlock is checked in every run; where a program is at its
end `Terminated` says so.

## 5. Fairness

* Goroutines: weak fairness for each goroutine of `FileWalker`, `TlsScan` and
  `BoshScan`.  Go's scheduler runs every goroutine that is ready, and none of
  these busy-waits.
* `TlsScan` takes it that an attempt ends (fairness of `TaskStep`), which
  `Handshake` shows: the dialer has a timeout, the timer fires.
* `Handshake` assumes no answer of the service.  Fair are the caller (a dial
  ends by its timeout), the timer, the sending on a channel with room, and that
  a handshake on a connection that has been closed fails, as reads on a closed
  connection do in Go.
* `ProcScan`: `proc_scan` itself makes progress; `Hang` may happen wherever a
  call has no timeout, and `Ends` excepts it.  Nothing is assumed of the
  machine, which may change for ever.
* `BoshScan`: a machine's goroutine moves on, if by `Hang` only, which
  satisfies fairness of `VMStep`; director and machines need not succeed.
* `Database`, `Reports` and `Audit` have no fairness: their properties are about safety,
  commands may be killed and operators may stop.

## 6. What is proved

TLAPS checks the proofs for all values of the constants under the named
assumptions of the modules, which TLC evaluates in every run.

`FileWalkerProofs`, under `TreeAssumption` (a finite tree, directories apart
from regular files), `MatchAssumption` and `MaxInFlightAssumption`:

* `TypeCorrect`: `TypeOK`, with the capacities of the channels;
* `GoroutinesInStep`: `GoroutinesAgree`;
* `NeverPanics`: `NoPanic`;
* `ErrorArrives`: `ErrorHandedOver`;
* `NothingIsMissed`: `ResultComplete`, every visible file once, with what its
  reading gave: all matches, none if an open failed, and for a damaged file
  those of the reads that were made;
* `ImplementsSteps`: every step is one of `FileInventory` or a stutter, the
  safety half of `ImplementsInventory`;
* `NeverStuck` and `EveryStepCounts`, see the end of this section.

`NoPanic` is not inductive: that nobody sends on a closed channel follows from
*when* it is closed, and that from the WaitGroup.  The invariant is `Inv ==
TypeOK /\ WaitGroupCounts /\ ClosingOrder`.  `WaitGroupCounts` equates the
counter with the files in the walker's hand, in the queue and with the
checkers, so that a checker at work means a counter above zero
(`BusyKeepsWaiting`).  `ClosingOrder` ties the closer's place to what is closed
and to what the one-place channel `done` holds, and says that from the closing
of `wf` on the counter stays zero.  It stays zero because the walker, the only
one to add, has ended.  `TypeStep`, `CountStep` and `OrderStep` prove one
conjunct each, action by action; `BusyChanges` does the counting.

What `Walk()` returns needs to know where each file is before: in the walker's
hand, queued, with a worker, in `wf` or collected.  `Apart` and `Once` say that
every visited regular file is in one of the five, and there once; each action
moves one file on.  `Contents` follows the matches: after each regex those found
are what so many rounds of reading may give (`ReadUpTo`).  `Extent` ties what was
visited to `Visible`: the walk stays inside, and when it ends without an error
nothing is left to visit, because the open entries of a finite tree have a
first (`FirstOfOpen`).  When the caller stops collecting, the WaitGroup is zero
and four of the five places are empty (`NothingOnItsWay`).

`TlsScanProofs`, under `ScanAssumption` (finite sets, a positive weight):

* `TypeCorrect`: `TypeOK`;
* `TasksInStep`: `TasksAccounted`;
* `NeverPanics`: `NoPanic`;
* `ConnectionsBounded`: at most `MaxInFlight` handshakes are in progress;
* `ResultsAreExact`: `ResultsExact`, that is, what `Scan` returns is what was
  found, each suite once and under its version;
* `NeverStuck` and `EveryStepCounts`.

The invariant is `TypeOK /\ SemaphoreCounts /\ WaitGroupCounts /\
CloseIsLast`: the free weight and the tasks holding it add up, the WaitGroup is
the number of tasks not ended, *those not started included*, and past
`wg.Wait` there is none.  `TaskChange` says once how the step of one task
changes both counts, and every action of a task cites it.

`ResultsExact` speaks of the end only; the invariant `Filed` says where each
result is before.  `FoundLate`: a task has something to send only if it found
it.  `InOnePlace`: what was sent is in the channel or among the results, never
in both, the channel has it once, and the results of a version are as long as
they are many.  `ReturnedLast`: once `Scan` has returned the channel is empty,
and the closer is past its wait (or was never started), so that by `LiveTask`
nobody can send any more.

`HandshakeProofs`, under `ServiceAssumption`: `TypeCorrect`; `NoFalseSupport`
(`SupportedIsServed`), `AnswersAreTrue` (`AnswerIsNegotiation`) and `OneAtATime`
(`OneConnection`).  A handshake may go on after its attempt timed out and write
variables the caller reads.  `SoundFor(v, a)` says that whatever attempt `a`
leaves behind, early or late, is true of the version `v` it was made for, and
that the suite is noted before anything is reported; `CallerKnows`, that what
the caller goes by came from the handshake unless it is the timeout.
`ReportsFindRoom`: whoever is about to send to `errChannel` finds room there,
though nobody may listen any more, because each of the two senders sends once
and the channel has two places.  And `NeverStuck`, `EveryStepCounts`.

`BoshScanProofs`, under `DeploymentAssumption`: `TypeCorrect`, `NeverPanics`
(`NoPanic`), `AccountsOutliveSessions` (`SessionsUnderAccount`), `ReportsAreTrue`
(`ReportIsScan`), `CleansUp` (`NothingForgotten`: removals were asked for, whether
they succeeded is not known), `SavesOneAtATime` (the mutex,
which no run states by itself) and `Implements` (`ImplementsCommand`).  The
invariant is one chain for each deployment: a machine that has not ended is
counted by the WaitGroup (`Machines`), so the closer waits, so `hosts` is open,
so the deployment still collects, so its account is there and nothing is saved
(`OrderOf`).  `MachineSound` says what a machine has made and not tried to remove at
each point of its scan.  In the refinement only `SaveReport`, the success of
the command and the steps that end it map to steps of `ScanCommand`; everything
else is a stutter.  `HeldUpByItsOwn`: a deployment that has not ended goes on,
has a hung machine of its own, or waits for the mutex while its holder goes on,
so that a hung machine holds up nobody else's deployment (the code sets no
timeout on SSH).  And `NeverStuck`, `EveryStepCounts`.

`DatabaseProofs`, under `BatchAssumption` (what a report lists is listed in
slices) and `ReportsAssumption`:

* `AtMostOneWriter`: `OneWriter`; `OpensOnlyComplete`: `OpenedComplete`.  Two
  commands may both find the file missing; the first `CREATE TABLE` decides.
  `InOrder`: the schema is exactly what the one command that got further has
  created, and the version comes last.
* `NothingSavedIsLost`: `SavedStays`; a transaction holds the committed rows
  (`TxSound`), and nobody else commits while it is open.
* `LookupsAreUnique`: `NamesUnique`, the first conjunct of `ReportsWhole`, without
  any hypothesis; and
  `NoRowDangles`: every foreign key of a committed row refers to exactly one
  row.  `SaveReport` is taken as a program of statements: `Runs(q, V)` says that
  `q` uses only variables that are in `V` or set before, and lemmas follow the
  structure of the code, up to `RunsStatements` for a whole report.  What
  `FlattenSeq` returns is shown by the least counterexample, as induction
  theorems cannot be used.
* `TypeCorrect`: `ReportsTypeOK`; `ReportOnlyReads`: with the report command
  the file still behaves as `Database` says.

`SavedReportsProofs`, on top of `DatabaseProofs`:

* `SavedReportsAreWhole`: `ReportsWhole`, for reports of which

  * `StoredAsIs`: SQLite keeps the texts as they are.  The columns declared
    `string` turn text that looks like a number into the number; a release
    version that does is the finding of `database_release`;
  * `OneDeployment`: no host belongs to two deployments of one command.
    `SaveReport` looks a host up by name and address only, and gives a host it
    finds to the deployment it was first saved for.  All reports in a file are of
    the command that created it (part of the invariant `Whole`, by the argument
    of `AtMostOneWriter`), that is of one director, among whose machines a job
    with the same address is one machine unless networks overlap.

  The reports of `MCDatabase` meet both hypotheses.  Without either the theorem
  is false, not just unproved.

  Read with facts in place of ids, the statements of `SaveReport` have a meaning:
  `Says(q, E, A, E2)`, from what the Go variables stand for (`E`) the statements
  `q` say the facts `A` and leave `E2`.  `Tells` adds which variables matter, and
  one lemma for each function of the code composes them, from `TellsCiphers` up
  to `TellsStatements`: the statements for a report say `Facts` of it.  `Telling`
  is the invariant of a transaction: what its rows say by now, joined, and what
  its list has still to say are together the facts of the saved reports and of
  its own.  An insert moves one fact from the list to the rows (`InsertTells`,
  by `JoinGrows`: a new row changes the meaning of no other); a lookup that
  finds its row finds the fact there (`FoundTells`), which is where
  `OneDeployment` is needed.  `Joined` is a recursive function over the rows;
  that there is exactly one (`Joinable`) is part of the invariant.
* `ReportsShowTheSaved`: `ShowsTheSaved`, under the same hypotheses (which ask
  for more than the four reports look at: no report shows a release).  A query
  follows the ids of a row just as `Joined` does (`KeySays`), so what it finds
  can be read off the fact of the row, and the facts of each table are those of
  the hosts, ports, files and keys of the saved reports (`PortsSaid`,
  `PairsSaid`, `FilesSaid`, `KeysSaid`).  From both follow `RootShown`,
  `TLSShown` and `FilesShown`, one for each query, from `ReportsWhole` alone.
  A host is shown by its name, so the rows and the reports are compared through
  `HostName`; the theorem asks nothing of it, two hosts of one name included.
  The query for SSH keys also counts rows, and two rows may state one fact: the
  same key listed twice.  It needs an invariant of its own, `KeysWhole`: a one
  to one correspondence between the keys that were saved (told apart by where
  they stand in their report) and the rows of `ssh_keys`, and for an open
  transaction between the keys not yet in its rows and the statements it has
  left (`Filing`).  It holds because `SaveReport` inserts keys without looking
  them up and because a report is saved only once; `KeysShown` follows from it.
* `CleanIsClean`: `CleanMeansClean`, under the same hypotheses.  The four
  queries are made in different states of the database.  The invariant
  `EmptyMeansNone` says that what was saved when the file was opened is still
  there while it is open (`RemoveFile` needs that nothing runs), and that each
  report built so far, if empty, had nothing to show then: a violation stays one
  when more is saved (`ViolationsStay`).

`AuditProofs`, under `LikeAssumption` (`LIKE` matches at least what has the
prefix), `ScanAssumption` (scans are finite, no host is named by the empty
string), `ManifestAssumption` (manifests are lists) and `ErrorsAssumption` (any
number of queries may break off):

* `TypeCorrect` and `NobodySkipped` (`NoHostSkipped`);
* `OKIsConforming`: `OKMeansConforming`.  A saved report adds rows and takes none
  away (`Grown`), also of hosts that are there.  So the queries, each in a later
  state of the database, agree about the beginning: what was amiss then is among
  the rows of any later query, and what a count found is still there (`Told`).
  `Mapped` says that each host of the beginning is under the last spec that
  matches it, `Asked` that no query about it is left out.  `OKConforms` and
  `ConformsOK` then compare the queries with `HostsConform`, one for each
  direction.  All of this is claimed as long as no query has broken off
  (`Complete`); without that all of these theorems but `TypeCorrect` would be false, as
  **audit_errors** shows.
* `GeneratedManifestPasses` (`GeneratedPasses`) and `DriftIsDetected`
  (`DriftDetected`): by what an entry of a generated manifest stands for
  (`EntryOf`, `EntryFor`), and the theorem above.

`ProcScanProofs`, under `MachineAssumption`, `KeyAssumption` (each algorithm is
asked for once) and `FaultsAssumption`: `TypeCorrect`, and `ReportIsTrue`
(`TrueOfWhatStayed`).  Each look at the machine is true when it is taken; the
invariant says that it stays true of every pid not in `restarted` and every
socket not in `moved` (`NamesTrue`, `UsersTrue`, `SocketsTrue`,
`CertificatesTrue`), and `ChangesRemembered` that what ends, starts or changes
hands is in one of them.

That these four concurrent components come to an end is proved as far as it can
be without fairness.  `NeverStuck` says that until the end somebody has a step
to take.  `ENABLED` is out of the prover's reach, so the guards are written out
(`CanGo`, `Goes`, `MainGoes`); TLC found them equal to `ENABLED` of the steps
they stand for on the instances of section 4.  Each waits for another along a
chain that has a free end: the caller of `Walk()` for the closer, the closer for
the checkers, these for room in `wf`, which the caller makes.  `EveryStepCounts`
says that each step makes `StepsLeft` smaller, a natural number: the steps each
goroutine has left, weighted where one step of one makes several for another
(a directory entry visited, a file queued).  In `Handshake`
no answer of the service is needed, and in `BoshScan` a hung machine is the one
exception.

Only model-checked:

* liveness (`AllEnd`, `Ends`, `OthersSaved` and the fairness half of
  `ImplementsInventory`), which is out of the prover's reach.  What the two
  theorems leave of it is that the scheduler lets whoever can go on do so.

## 7. Where the code does otherwise

* **proc_scan_errors** (`types.go:40`).  A failed TLS fetch is kept as
  `ScanError`, of the interface type `error`.  `encoding/json` writes it as an
  object and cannot read it back, so `scanMachine` fails and the machine
  disappears from the report; `db/sqlite_test.go:397` expects such errors in
  the table `tls_scan_errors`.
* **proc_scan_localhost** (`process/process_scanner.go:91`).  TLS is tried at a
  port's number on `localhost`, whatever address the port is bound to.  Where
  one process listens on a network address and another on localhost at the
  same number, the first is shown with the certificate and ciphers of the
  second; where nobody does, a TLS service that is bound to a network address
  alone is shown without TLS.
* **report_errors** (`report/root_processes_report.go:35` and the loops of the
  other three).  `rows.Err()` is not asked for after `rows.Next()` returned
  false.  SQLite runs a query as its rows are read, so that a database locked
  by a scan that commits, or a read error, shows up there: the rows so far
  pass for the result, and `report` may exit with 0 on a database with
  violations, where `commands/report_test.go:97-100` expects 1.
* **database_release** (`db/schema.go:118`).  `version string` has NUMERIC
  affinity in SQLite: release version `60.10` is stored as `60.1`, while
  `db/sqlite_test.go:634` says that it records the version.
* **audit_errors** (`audit/audit.go:129` and the loops at 174, 205 and 275, and
  of `audit/generate.go:43`, 85 and 126).  As in the reports, `rows.Err()` is
  not asked for: where the query that maps hosts to a spec breaks off, a host is
  not audited; where the one for unexpected ports does, they pass; a manifest
  may be written that lacks hosts, processes or ports.  The exit status is 0.
* Without a run: `README.md:100-101` of the repository says that `audit` finds
  unexpected processes.  `auditHost` (`audit/audit.go:98`) looks for missing
  processes and ports, unexpected ports and wrong users only; a process no
  entry names passes, as `NothingAmiss` in `Audit` says.
* Without a run: the audit compares with `LISTEN` (`audit/audit.go:159`); a
  Windows scan stores `Listen`, so unexpected ports pass there.  (The query for
  root processes in `report/` does use `upper`.)
* Without a run: `netstat/netstat.go:97` puts `::` into brackets wherever it
  stands, so that `::1:22` becomes `[::]1:22` and cannot be split: a socket
  bound to an IPv6 address other than `::` is recorded without an address and
  with number -1, and counts as reachable from outside in the report of root
  processes even if it is bound to the loopback.  (`netstat/netstat_test.go:62`
  tries no such address.)
* Without a run: a temporary file that was created and could not be written is
  left behind (`scanner/scanner.go:71`), as `NothingForgotten` says.
* Without a run: `README.md:16-18` says that results are appended to an
  existing file; `CreateDatabase` refuses it (`RefuseDatabase` in `BoshScan`,
  `Stat` in `Database`), and after a failed scan the empty file stays and makes
  the next attempt fail.

The hazards in `PROJECT.json` without a property are listed there with the
reason.

## 8. What is not modelled

* The file scanner adds two attributes to every walked file, and a lookup that
  fails leaves them empty; that the walk may fail is a step of `ProcScan`.
* Of the process scan, command lines and environments, which decide nothing,
  and the text of `netstat`, `ps` and PowerShell beyond the fields.
* Of the reports, titles, layout and the order of rows.  Errors of writing CSV
  rows are dropped by the code; the files are not part of the model.
* Of the handshake, what `crypto/tls` does, and the contents of a certificate.
* Of `bosh/`, the director's API beyond what may fail, and the list of
  releases.  `direct-scan` is modelled where it matters, as a second command on
  a database; its use of a machine is that of `BoshScan`.
* Flags, logging, output formats, mocks and generated code.
