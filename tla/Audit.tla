------------------------------- MODULE Audit --------------------------------
(***************************************************************************)
(* scantron audit and scantron generate-manifest: audit/audit.go,          *)
(* audit/generate.go and the package manifest.                             *)
(*                                                                         *)
(* An operator scans the cluster from time to time, each time into a new   *)
(* database, generates a manifest from the database at hand or writes one, *)
(* and audits the database against the manifest at hand.  An audit makes   *)
(* its queries one after the other and outside of any transaction: a scan  *)
(* that still runs may save hosts, and processes of hosts that are there,  *)
(* in between.  Where the code reads the rows of a query in a loop it does *)
(* not ask why the loop ended, so a query that breaks off has fewer rows.  *)
(* The queries are set comprehensions over the joined rows; rows that are  *)
(* alike are one, and lists whose order does not reach a result are sets.  *)
(***************************************************************************)
EXTENDS Naturals, Sequences, FiniteSets, SequencesExt

CONSTANTS
    Scans,        \* databases: [hosts, procs]; hosts are the names, in the order
                  \* of their ids, and a process has its host's id as row
    Manifests,    \* manifests written by hand
    HasPrefix,    \* <<p, h>>: strings.HasPrefix(h, p)
    Like,         \* <<p, h>>: h LIKE p || '%', where "_" stands for any character
    NoManifest,
    MaxReadErrors \* bound: queries of one audit that break off; with none, those
                  \* of generate-manifest do not either

\* Where a host has the prefix, "prefix%" is LIKE it: LIKE only matches more.
ASSUME LikeAssumption == HasPrefix \subseteq Like

ASSUME ErrorsAssumption == MaxReadErrors \in Nat

\* A database is finite; a host is named after its job or its address, never
\* the empty string, and every string is a prefix of itself.
ASSUME ScanAssumption ==
    /\ NoManifest \notin Scans
    /\ \A d \in Scans : /\ d.hosts \in Seq(ToSet(d.hosts)) /\ IsFiniteSet(d.procs)
                        /\ \A p \in d.procs : p.row \in DOMAIN d.hosts
                        /\ \A h \in ToSet(d.hosts) : h # "" /\ <<h, h>> \in HasPrefix

\* A parsed manifest and the processes of a spec are lists.
IsManifest(m) ==
    /\ m \in Seq(ToSet(m))
    /\ \A s \in ToSet(m) : s.processes \in Seq(ToSet(s.processes))

ASSUME ManifestAssumption == \A m \in Manifests : IsManifest(m)

VARIABLES
    db,          \* the database at hand
    manifest,    \* the manifest at hand
    audit,       \* the audit that is being made: specs mapped, hosts mapped to
                 \* specs, and the rows of every query made so far
    result,      \* what the last audit of these two said
    from,        \* history: the database the manifest was generated from
    began,       \* history: the database when the audit began, while one is made
                 \* or has a result; the database at hand otherwise
    readErrors   \* history: how many queries of that audit broke off

vars == <<db, manifest, audit, result, from, began, readErrors>>

NoResult == [status |-> "none"]
NoAudit == [pc |-> "idle"]

-----------------------------------------------------------------------------
(* The package manifest: a spec has a prefix and a sequence of entries, an *)
(* entry a command, a user, a set of ports and the flag ignore.            *)

ExpectedPorts(spec) == UNION {e.ports : e \in ToSet(spec.processes)}
ExpectedCommands(spec) == {e.command : e \in ToSet(spec.processes)}

\* Fault: any entry of the command will do, not the first.
AnyEntryIgnores(spec, command) ==
    \E e \in ToSet(spec.processes) : e.command = command /\ e.ignore

\* The first entry of the command decides.
ShouldIgnorePortsForCommand(spec, command) ==
    LET p == spec.processes
    IN  \E i \in DOMAIN p : /\ p[i].command = command /\ p[i].ignore
                            /\ \A j \in 1..(i - 1) : p[j].command # command

validate(m) ==
    /\ m # <<>>
    /\ \A spec \in ToSet(m) :
          /\ spec.prefix # ""
          /\ \A e \in ToSet(spec.processes) :
                e.command # "" /\ e.user # "" /\ (e.ports # {} \/ e.ignore)

-----------------------------------------------------------------------------
(* The queries of an audit.                                                *)

Hosts(d) == ToSet(d.hosts)

\* By name: two rows of hosts may have the same one.
ProcessesOn(d, h) == {p \in d.procs : d.hosts[p.row] = h}

\* A row of ports that other machines can reach, as the queries tell.
Listening(q) == q.state = "LISTEN" /\ q.address # "127.0.0.1"

\* The mapping so far, after the query for one more spec, which reads of these
\* hosts: of the specs that match a host the last one stays.
mapHostnameToSpec(hosts, spec, input) ==
    LET found == {h \in hosts : <<spec.prefix, h>> \in Like}
    IN  [h \in DOMAIN input \cup found |-> IF h \in found THEN spec ELSE input[h]]

ExtraHosts(hosts, m) ==
    {h \in hosts : \A s \in ToSet(m) : <<s.prefix, h>> \notin HasPrefix}

\* Fault: hosts without a spec are not looked for.
MissingOnly(hosts, m) == [extra |-> {}, missing |-> {}]

lookForMissingAndExtraHosts(hosts, m) ==
    [extra |-> ExtraHosts(hosts, m),
     missing |-> {s.prefix : s \in {x \in ToSet(m) : \A h \in hosts : <<x.prefix, h>> \notin HasPrefix}}]

\* COUNT = 0; a port counts as found in any state and on any address.
lookForMissingProcesses(d, h, command) ==
    {c \in {command} : \A p \in ProcessesOn(d, h) : p.name # c}

lookForMissingPorts(d, h, port) ==
    {n \in {port} : \A p \in ProcessesOn(d, h) : \A q \in p.ports : q.number # n}

findUnexpectedPorts(d, h, spec) ==
    UNION {{<<p, q>> : q \in {q \in p.ports : Listening(q) /\ q.number \notin ExpectedPorts(spec)}} :
             p \in {p \in ProcessesOn(d, h) : ~ShouldIgnorePortsForCommand(spec, p.name)}}

\* Fault: a process of the right user makes up for one of another user.
verifySomeUser(d, h, e) ==
    {p \in ProcessesOn(d, h) :
        p.ports # {} /\ p.name = e.command /\ ~\E r \in ProcessesOn(d, h) : r.name = e.command /\ r.user = e.user}

\* Only processes with a port, of whatever kind, are compared.
verifyProcessUsers(d, h, e) ==
    {p \in ProcessesOn(d, h) : p.ports # {} /\ p.name = e.command /\ p.user # e.user}

\* The order of the queries of a host, by what they look for.
Turn == <<"missing process", "missing port", "unexpected ports", "mismatched process">>

auditHost(spec) ==
    {<<Turn[1], command>> : command \in ExpectedCommands(spec)}
    \cup {<<Turn[2], port>> : port \in ExpectedPorts(spec)}
    \cup {<<Turn[3]>>}
    \cup {<<Turn[4], e>> : e \in ToSet(spec.processes)}

Rows(d, h, spec, q) ==
    CASE q[1] = Turn[1] -> lookForMissingProcesses(d, h, q[2])
      [] q[1] = Turn[2] -> lookForMissingPorts(d, h, q[2])
      [] q[1] = Turn[3] -> findUnexpectedPorts(d, h, spec)
      [] OTHER          -> verifyProcessUsers(d, h, q[2])

\* Queries whose rows are read in a loop; of a COUNT the error is reported.
ReadInLoop(q) == q[1] \in {Turn[3], Turn[4]}

OK(r) ==
    /\ r.extra = {} /\ r.missing = {}
    /\ \A h \in DOMAIN r.hosts : \A q \in DOMAIN r.hosts[h] : r.hosts[h][q] = {}

-----------------------------------------------------------------------------
(* generate-manifest: a spec per host, an entry per listening process.     *)

getPortsFor(p) == {q.number : q \in {x \in p.ports : Listening(x)}}

\* Fault: processes without a listening port are listed as well.
AllProcesses(d) == d.procs

Listeners(d) == {p \in d.procs : getPortsFor(p) # {}}

\* The entries of a host, from the processes read and the ports read of each.
getProcessesFor(i, ports) ==
    SetToSeq({[command |-> p.name, user |-> p.user, ports |-> ports[p], ignore |-> FALSE]
              : p \in {x \in DOMAIN ports : x.row = i}})

\* The specs of the first n hosts.
getSpecsFor(d, n, ports) ==
    [i \in 1..n |-> [prefix |-> d.hosts[i], processes |-> getProcessesFor(i, ports)]]

Generated(d) == getSpecsFor(d, Len(d.hosts), [p \in Listeners(d) |-> getPortsFor(p)])

-----------------------------------------------------------------------------

Init ==
    /\ db \in Scans /\ manifest \in Manifests /\ began = db
    /\ audit = NoAudit /\ result = NoResult /\ from = NoManifest /\ readErrors = 0

\* Fault: the manifest is not validated.
RunAuditUnvalidated ==
    /\ audit = NoAudit /\ result = NoResult
    /\ audit' = [pc |-> "map", specs |-> 0, input |-> <<>>]
    /\ began' = db
    /\ UNCHANGED <<db, manifest, result, from, readErrors>>

\* audit --manifest; an invalid manifest is an error.
RunAudit ==
    /\ audit = NoAudit /\ result = NoResult
    /\ IF validate(manifest)
       THEN audit' = [pc |-> "map", specs |-> 0, input |-> <<>>] /\ UNCHANGED result
       ELSE result' = [status |-> "invalid"] /\ UNCHANGED audit
    /\ began' = db
    /\ UNCHANGED <<db, manifest, from, readErrors>>

\* A query breaks off: Next of its rows is false, Err is never asked.
BreaksOff == readErrors < MaxReadErrors /\ readErrors' = readErrors + 1

\* The query for the next spec has read of these hosts.
MapFrom(hosts) ==
    /\ audit.pc = "map" /\ audit.specs < Len(manifest)
    /\ audit' = [audit EXCEPT !.specs = @ + 1,
                             !.input = mapHostnameToSpec(hosts, manifest[audit.specs + 1], @)]
    /\ UNCHANGED <<db, manifest, result, from, began>>

MapSpec == MapFrom(Hosts(db)) /\ UNCHANGED readErrors
MapSpecTruncated == BreaksOff /\ \E seen \in SUBSET Hosts(db) : MapFrom(seen)

\* The query for all hosts has read these.
LookIn(hosts) ==
    /\ audit.pc = "map" /\ audit.specs = Len(manifest)
    /\ LET known == lookForMissingAndExtraHosts(hosts, manifest)
       IN  audit' = [pc |-> "hosts", input |-> audit.input,
                     hosts |-> [h \in DOMAIN audit.input |-> <<>>],
                     extra |-> known.extra, missing |-> known.missing]
    /\ UNCHANGED <<db, manifest, result, from, began>>

LookForHosts == LookIn(Hosts(db)) /\ UNCHANGED readErrors
LookForHostsTruncated == BreaksOff /\ \E seen \in SUBSET Hosts(db) : LookIn(seen)

\* The queries of a host that are still to be made.
Todo(h) == auditHost(audit.input[h]) \ DOMAIN audit.hosts[h]

\* One host after the other, in the order of Go's map; of a host the queries
\* by their turn.
Due(h, q) ==
    /\ audit.pc = "hosts" /\ h \in DOMAIN audit.input /\ q \in Todo(h)
    /\ \A i, j \in DOMAIN Turn : q[1] = Turn[i] /\ j < i => \A r \in Todo(h) : r[1] # Turn[j]
    /\ \A g \in DOMAIN audit.input \ {h} : audit.hosts[g] = <<>> \/ Todo(g) = {}

\* The query has had these rows.
Had(h, q, rows) ==
    /\ audit' = [audit EXCEPT !.hosts[h] =
                    [r \in DOMAIN @ \cup {q} |-> IF r = q THEN rows ELSE @[r]]]
    /\ UNCHANGED <<db, manifest, result, from, began>>

RunQuery(h, q) ==
    /\ Due(h, q) /\ Had(h, q, Rows(db, h, audit.input[h], q))
    /\ UNCHANGED readErrors

RunQueryTruncated(h, q) ==
    /\ Due(h, q) /\ ReadInLoop(q) /\ BreaksOff
    /\ \E rows \in SUBSET Rows(db, h, audit.input[h], q) : Had(h, q, rows)

\* The exit status is 0 or 3, see OK.
ShowReport ==
    /\ audit.pc = "hosts" /\ \A h \in DOMAIN audit.input : Todo(h) = {}
    /\ result' = [status |-> "audited", extra |-> audit.extra, missing |-> audit.missing,
                  hosts |-> audit.hosts]
    /\ audit' = NoAudit
    /\ UNCHANGED <<db, manifest, from, began, readErrors>>

\* A query cannot be prepared, or the one row of a COUNT not be read.
AuditFails ==
    /\ audit # NoAudit
    /\ audit' = NoAudit /\ result' = [status |-> "failed"]
    /\ began' = db /\ readErrors' = 0
    /\ UNCHANGED <<db, manifest, from>>

Audit ==
    \/ RunAudit \/ MapSpec \/ MapSpecTruncated \/ LookForHosts \/ LookForHostsTruncated
    \/ ShowReport \/ AuditFails
    \/ /\ audit.pc = "hosts"
       /\ \E h \in DOMAIN audit.input : \E q \in Todo(h) : RunQuery(h, q) \/ RunQueryTruncated(h, q)

\* Nothing is saved meanwhile: the query for the hosts is open to the end.
GenerateManifest ==
    /\ audit = NoAudit
    /\ manifest' = Generated(db) /\ from' = db
    /\ result' = NoResult /\ began' = db /\ readErrors' = 0
    /\ UNCHANGED <<db, audit>>

\* Queries for the hosts, for the processes of a host or for the ports of a
\* process break off; the manifest that is written is of no scan.
GenerateTruncated ==
    /\ audit = NoAudit /\ MaxReadErrors > 0
    /\ \E n \in 0..Len(db.hosts), read \in SUBSET Listeners(db) :
          \E ports \in [read -> SUBSET UNION {getPortsFor(p) : p \in read}] :
             /\ \A p \in read : ports[p] \subseteq getPortsFor(p)
             /\ manifest' = getSpecsFor(db, n, ports)
    /\ from' = NoManifest
    /\ result' = NoResult /\ began' = db /\ readErrors' = 0
    /\ UNCHANGED <<db, audit>>

\* The cluster has changed and is scanned into a new database.
Rescan ==
    /\ audit = NoAudit
    /\ db' \in Scans
    /\ result' = NoResult /\ began' = db' /\ readErrors' = 0
    /\ UNCHANGED <<manifest, audit, from>>

\* e is d with the rows of one more report; a host that is there already, of a
\* deployment that is scanned twice, has the new processes as well.
Extends(e, d) ==
    /\ IsPrefix(d.hosts, e.hosts) /\ d.procs \subseteq e.procs
    /\ d.hosts # e.hosts \/ d.procs # e.procs

\* The scan into this database still goes on and saves a report.
SaveReport ==
    /\ audit # NoAudit
    /\ db' \in {d \in Scans : Extends(d, db)}
    /\ UNCHANGED <<manifest, audit, result, from, began, readErrors>>

Next == Audit \/ GenerateManifest \/ GenerateTruncated \/ Rescan \/ SaveReport

Spec == Init /\ [][Next]_vars

-----------------------------------------------------------------------------
(* Properties.                                                             *)

\* The types of the variables; only a valid manifest is audited, and the result
\* is about hosts of the scan.
TypeOK ==
    /\ db \in Scans /\ began \in Scans /\ readErrors \in 0..MaxReadErrors
    /\ from \in Scans \cup {NoManifest}
    /\ from # NoManifest => manifest = Generated(from)
    /\ IsManifest(manifest)
    /\ audit.pc \in {"idle", "map", "hosts"}
    /\ audit # NoAudit => DOMAIN audit.input \subseteq Hosts(db) /\ result = NoResult
    /\ result.status \in {"none", "invalid", "failed", "audited"}
    /\ result.status = "audited" => validate(manifest) /\ DOMAIN result.hosts \subseteq Hosts(db)

Audited == result.status = "audited"
Passed == Audited /\ OK(result)

\* The spec that governs a host.
Governs(i, h) ==
    /\ <<manifest[i].prefix, h>> \in Like
    /\ \A j \in DOMAIN manifest : j > i => <<manifest[j].prefix, h>> \notin Like

\* What a host's spec asks for, if it is there: every listed process runs and
\* every listed port is one of some process.
AllThere(d, h, processes) ==
    LET running == ProcessesOn(d, h)
    IN  \A i \in DOMAIN processes :
          /\ \E p \in running : p.name = processes[i].command
          /\ \A n \in processes[i].ports : \E p \in running : \E q \in p.ports : q.number = n

\* What it asks of what is there: every process of a listed command that has a
\* port runs as the listed user, and whatever listens on a port that is not
\* listed belongs to a command whose ports are ignored.  About a process that no
\* entry names nothing is asked, whatever README.md says of unexpected processes.
NothingAmiss(d, h, processes) ==
    \A p \in ProcessesOn(d, h) :
       /\ \A i \in DOMAIN processes :
             p.name = processes[i].command /\ p.ports # {} => p.user = processes[i].user
       /\ \A q \in p.ports :
             q.state # "LISTEN" \/ q.address = "127.0.0.1"
             \/ (\E i \in DOMAIN processes : q.number \in processes[i].ports)
             \/ (LET mine == {i \in DOMAIN processes : processes[i].command = p.name}
                 IN  mine # {} /\ \E i \in mine : processes[i].ignore /\ \A j \in mine : i <= j)

\* The hosts of d belong to a prefix each, nothing is amiss on them, and what
\* their specs ask for is there in e.
HostsConform(d, e) ==
    /\ \A h \in Hosts(d) : \E i \in DOMAIN manifest : <<manifest[i].prefix, h>> \in HasPrefix
    /\ \A h \in Hosts(d), i \in DOMAIN manifest :
          Governs(i, h) => /\ NothingAmiss(d, h, manifest[i].processes)
                           /\ AllThere(e, h, manifest[i].processes)

PrefixesFound(d) ==
    \A i \in DOMAIN manifest : \E h \in Hosts(d) : <<manifest[i].prefix, h>> \in HasPrefix

\* An audit whose queries all were read to the end says ok only if, on every
\* host that was there when it began, nothing was amiss then, and what the host's
\* spec asks for is there by now, as a host of every prefix is; where nothing was
\* saved meanwhile, it says ok exactly then.
OKMeansConforming ==
    Audited /\ readErrors = 0 =>
       /\ OK(result) => HostsConform(began, db) /\ PrefixesFound(db)
       /\ began = db /\ HostsConform(db, db) /\ PrefixesFound(db) => OK(result)

\* Every host that was there when the audit began shows up in the output, as
\* audited or as extra, if no query broke off.
NoHostSkipped ==
    Audited /\ readErrors = 0 => Hosts(began) \subseteq DOMAIN result.hosts \cup result.extra

\* Nobody runs a listening command under two users, no host's name begins with
\* another's, and of all that listens the name and the user are known.
Plain(d) ==
    /\ d.hosts # <<>>
    /\ \A i, j \in DOMAIN d.hosts : <<d.hosts[i], d.hosts[j]>> \in Like => i = j
    /\ \A p, r \in d.procs :
          /\ p.row = r.row /\ p.name = r.name
          /\ getPortsFor(p) # {} /\ r.ports # {} => p.user = r.user
    /\ \A p \in d.procs : getPortsFor(p) # {} => p.user # "" /\ p.name # ""

\* The manifest generated from a scan, if that is plain, is valid, and the scan
\* passes its audit if no query of the two breaks off and nothing is saved
\* meanwhile.
GeneratedPasses ==
    from = db /\ began = db /\ Plain(db) /\ readErrors = 0 /\ result.status \in {"invalid", "audited"}
       => Passed

\* A later scan that passes the audit against a generated manifest, no query of
\* the two having broken off, shows no change for the worse: what listened on a
\* host when the audit began listened on the host it is compared with, and what
\* listened there runs by now, on its ports, and ran as no other user.
DriftDetected ==
    from # NoManifest /\ Passed /\ readErrors = 0 =>
       \A h \in Hosts(began) : \E i \in DOMAIN from.hosts :
          LET old == {p \in from.procs : p.row = i}
          IN  /\ <<from.hosts[i], h>> \in Like
              /\ UNION {getPortsFor(p) : p \in ProcessesOn(began, h)} \subseteq UNION {getPortsFor(p) : p \in old}
              /\ \A p \in old : getPortsFor(p) # {} =>
                    /\ \E r \in ProcessesOn(db, h) : r.name = p.name
                    /\ \A n \in getPortsFor(p) : \E r \in ProcessesOn(db, h) : \E q \in r.ports : q.number = n
                    /\ \A r \in ProcessesOn(began, h) : r.name = p.name /\ r.ports # {} => r.user = p.user

\* README.md on audit: "Check to see if any unexpected processes or ports are
\* present in your cluster".  An audit that says ok has met no port that other
\* machines can reach and that no spec of the manifest expects or ignores.
UnexpectedPortsFlagged ==
    Passed => \A p \in began.procs : \A q \in p.ports :
       q.state = "LISTEN" /\ q.address # "127.0.0.1" =>
          \E s \in ToSet(manifest) :
             q.number \in ExpectedPorts(s) \/ ShouldIgnorePortsForCommand(s, p.name)
=============================================================================
