------------------------------ MODULE Database ------------------------------
(***************************************************************************)
(* The SQLite file of db/sqlite.go and db/schema.go, written by the scan   *)
(* commands and opened by report, audit and generate-manifest.             *)
(*                                                                         *)
(* A scan command creates the file, one DDL statement after the other and  *)
(* each committed on its own, scans, and saves its reports.  SaveReport is *)
(* one transaction of many inserts; strings that recur (deployments,       *)
(* hosts, suites, ciphers, regexes) are looked up first and inserted when  *)
(* they are missing.  The process may end between any two statements: a    *)
(* statement fails and log.Fatalf follows, or it is killed.                *)
(*                                                                         *)
(* Two commands may be given the same file.  A row is a record of its      *)
(* table, its id, its own columns (value) and its foreign keys (of).       *)
(***************************************************************************)
EXTENDS Naturals, Sequences, FiniteSets, SequencesExt

CONSTANTS
    Command,     \* the scan commands started on the file
    Batch,       \* Batch[c]: the reports command c has to save
    NoPath,      \* the empty path regex
    NoTLS,       \* a port's TLSInformation is nil
    AsNumber     \* for text that looks like a number, the text of that number

VARIABLES
    file,        \* whether the file exists
    schema,      \* the tables created so far
    version,     \* the rows of the table version
    rows,        \* the committed rows of the other tables
    cmd,         \* each command's pc, DDL statements done and reports left
    tx,          \* its transaction: report, statements left, rows, Go variables
    reader,      \* a command that reads: "closed", "open" or "refused"
    saved        \* history: the reports whose SaveReport returned nil

vars == <<file, schema, version, rows, cmd, tx, reader, saved>>

SchemaVersion == 8

Tables == <<"deployments", "hosts", "processes", "ports", "tls_certificates",
            "tls_scan_errors", "tls_suites", "tls_ciphers",
            "certificate_to_ciphersuite", "env_vars", "files", "ssh_keys",
            "version", "releases", "regexes", "file_to_regex">>

\* Fault: the version is inserted as soon as its table exists.
VersionBeforeTheRest == SubSeq(Tables, 1, 13) \o <<"INSERT version">> \o SubSeq(Tables, 14, 16)

createDDL == Tables \o <<"INSERT version">>

-----------------------------------------------------------------------------
(* The statements of SaveReport, in the order of the code.  A statement    *)
(* puts the id of its row into the Go variable `sets` and takes its        *)
(* foreign keys from the Go variables `uses`.                              *)

\* The tables with a column declared as string.  SQLite knows no such type
\* and gives the column NUMERIC affinity: text that looks like a number is
\* stored, and compared, as the number.
StringTables == {"ports", "tls_certificates", "tls_scan_errors", "tls_suites",
                 "tls_ciphers", "ssh_keys", "releases", "regexes"}
Stored(t, v) == IF t \in StringTables /\ v \in DOMAIN AsNumber THEN AsNumber[v] ELSE v

statement(t, v, u, s, lookup) ==
    <<[table |-> t, value |-> Stored(t, v), uses |-> u, sets |-> s, lookup |-> lookup]>>
insert(t, v, u, s) == statement(t, v, u, s, FALSE)
getIndexOrInsert(t, v, u, s) == statement(t, v, u, s, TRUE)

ForEach(seq, Op(_)) == FlattenSeq([i \in DOMAIN seq |-> Op(seq[i])])

Ciphers(c) ==
    IF c.ciphers = <<>> THEN <<>>
    ELSE getIndexOrInsert("tls_suites", c.suite, {}, "suiteID") \o
         ForEach(c.ciphers, LAMBDA x :
            getIndexOrInsert("tls_ciphers", x, {}, "cipherID") \o
            insert("certificate_to_ciphersuite", "", {"certID", "suiteID", "cipherID"}, ""))

TLS(t) ==
    (IF t.error = "" THEN <<>> ELSE insert("tls_scan_errors", t.error, {"portID"}, "")) \o
    (IF t.cert = "" THEN <<>>
     ELSE insert("tls_certificates", t.cert, {"portID"}, "certID") \o
          ForEach(t.suites, Ciphers))

Port(p) ==
    insert("ports", p.number, {"processID"}, "portID") \o
    (IF p.tls = NoTLS THEN <<>> ELSE TLS(p.tls))

Service(s) ==
    insert("processes", s.name, {"hostID"}, "processID") \o
    ForEach(s.ports, Port) \o
    insert("env_vars", s.env, {"processID"}, "")

Match(m) ==
    getIndexOrInsert("regexes", m.content, {}, "contentID") \o
    (IF m.path = NoPath
     THEN insert("file_to_regex", "", {"fileID", "contentID"}, "")
     ELSE getIndexOrInsert("regexes", m.path, {}, "pathID") \o
          insert("file_to_regex", "", {"fileID", "pathID", "contentID"}, ""))

File(f) == insert("files", f.path, {"hostID"}, "fileID") \o ForEach(f.matches, Match)

\* A host is told by its name and address together; h.host stands for both.
Host(h) ==
    getIndexOrInsert("hosts", h.host, {"depID"}, "hostID") \o
    ForEach(h.services, Service) \o
    ForEach(h.files, File) \o
    ForEach(h.keys, LAMBDA k : insert("ssh_keys", k, {"hostID"}, ""))

Statements(r) ==
    getIndexOrInsert("deployments", r.deployment, {}, "depID") \o
    ForEach(r.hosts, Host) \o
    ForEach(r.releases, LAMBDA x : insert("releases", x, {"depID"}, ""))

-----------------------------------------------------------------------------

TableOf == [depID |-> "deployments", hostID |-> "hosts", processID |-> "processes",
            portID |-> "ports", certID |-> "tls_certificates", suiteID |-> "tls_suites",
            cipherID |-> "tls_ciphers", fileID |-> "files", contentID |-> "regexes",
            pathID |-> "regexes"]
Report == UNION {Batch[c] : c \in Command}
NoTx == [report |-> "none"]

\* What is listed in a report is listed in slices.
Slice(s) == s \in Seq(ToSet(s))
IsReport(r) ==
    /\ Slice(r.hosts) /\ Slice(r.releases)
    /\ \A h \in ToSet(r.hosts) :
          /\ Slice(h.services) /\ Slice(h.files) /\ Slice(h.keys)
          /\ \A f \in ToSet(h.files) : Slice(f.matches)
          /\ \A s \in ToSet(h.services) :
                /\ Slice(s.ports)
                /\ \A p \in {p \in ToSet(s.ports) : p.tls # NoTLS} :
                      Slice(p.tls.suites) /\ \A u \in ToSet(p.tls.suites) : Slice(u.ciphers)

ASSUME BatchAssumption == \A r \in Report : IsReport(r)

\* There is no file, or one that an older scantron left behind.
Init ==
    /\ \/ file = FALSE /\ schema = {} /\ version = <<>>
       \/ /\ file = TRUE /\ version = <<SchemaVersion - 1>>
          /\ schema = ToSet(Tables) \ {"regexes", "file_to_regex"}
    /\ rows = {} /\ saved = {} /\ reader = "closed"
    /\ cmd = [c \in Command |-> [pc |-> "start", ddl |-> 0, left |-> Batch[c]]]
    /\ tx = [c \in Command |-> NoTx]

Running(c) == cmd[c].pc \in {"create", "scan", "save"}
Goto(c, pc) == cmd' = [cmd EXCEPT ![c].pc = pc]

\* Fault: a file that exists is used as it is.
StatIgnored(c) ==
    /\ cmd[c].pc = "start"
    /\ Goto(c, IF file THEN "scan" ELSE "create")
    /\ UNCHANGED <<file, schema, version, rows, tx, reader, saved>>

\* Fault: a file that exists is removed first.
StatOverwrites(c) ==
    /\ cmd[c].pc = "start"
    /\ Goto(c, "create")
    /\ file' = FALSE /\ schema' = {} /\ version' = <<>> /\ rows' = {}
    /\ UNCHANGED <<tx, reader, saved>>

Stat(c) ==
    /\ cmd[c].pc = "start"
    /\ Goto(c, IF file THEN "failed" ELSE "create")
    /\ UNCHANGED <<file, schema, version, rows, tx, reader, saved>>

\* Fault: CREATE TABLE IF NOT EXISTS.
ExecDDLLeniently(c) ==
    LET i == cmd[c].ddl + 1
        s == createDDL[i]
    IN  /\ cmd[c].pc = "create"
        /\ file' = TRUE
        /\ cmd' = [cmd EXCEPT ![c].ddl = i, ![c].pc = IF i = Len(createDDL) THEN "scan" ELSE @]
        /\ IF s = "INSERT version"
           THEN version' = Append(version, SchemaVersion) /\ UNCHANGED schema
           ELSE schema' = schema \cup {s} /\ UNCHANGED version
        /\ UNCHANGED <<rows, tx, reader, saved>>

\* The next statement of createDDL.  A table that exists by now, made by the
\* other command, is an error.
ExecDDL(c) ==
    LET i == cmd[c].ddl + 1
        s == createDDL[i]
    IN  /\ cmd[c].pc = "create"
        /\ s \notin schema
        /\ file' = TRUE
        /\ cmd' = [cmd EXCEPT ![c].ddl = i, ![c].pc = IF i = Len(createDDL) THEN "scan" ELSE @]
        /\ IF s = "INSERT version"
           THEN version' = Append(version, SchemaVersion) /\ UNCHANGED schema
           ELSE schema' = schema \cup {s} /\ UNCHANGED version
        /\ UNCHANGED <<rows, tx, reader, saved>>

Begin(c, r) ==
    /\ cmd[c].pc = "scan" /\ r \in cmd[c].left
    /\ Goto(c, "save")
    /\ tx' = [tx EXCEPT ![c] = [report |-> r, left |-> Statements(r), rows |-> rows,
                                go |-> [v \in DOMAIN TableOf \cup {""} |-> 0]]]
    /\ UNCHANGED <<file, schema, version, rows, reader, saved>>

InTable(R, t) == {x \in R : x.table = t}
Ids(R) == {x.id : x \in R}

\* The transaction t after its next statement s.
AfterInsert(t, s) ==
    LET id == Cardinality(InTable(t.rows, s.table)) + 1
    IN  [t EXCEPT !.left = Tail(@), !.go[s.sets] = id,
                  !.rows = @ \cup {[table |-> s.table, id |-> id, value |-> s.value,
                                    of |-> [v \in s.uses |-> t.go[v]]]}]

AfterLookup(t, s) ==
    LET found == {x \in InTable(t.rows, s.table) : x.value = s.value}
    IN  IF found = {} THEN AfterInsert(t, s)
        ELSE [t EXCEPT !.left = Tail(@), !.go[s.sets] = CHOOSE i \in Ids(found) : TRUE]

\* Fault: the statement is executed outside the transaction.
ExecOutside(c) ==
    LET s == Head(tx[c].left)
    IN  /\ cmd[c].pc = "save" /\ tx[c].left # <<>>
        /\ tx' = [tx EXCEPT ![c] = IF s.lookup THEN AfterLookup(@, s) ELSE AfterInsert(@, s)]
        /\ rows' = tx'[c].rows
        /\ UNCHANGED <<file, schema, version, cmd, reader, saved>>

Exec(c) ==
    LET s == Head(tx[c].left)
    IN  /\ cmd[c].pc = "save" /\ tx[c].left # <<>>
        /\ tx' = [tx EXCEPT ![c] = IF s.lookup THEN AfterLookup(@, s) ELSE AfterInsert(@, s)]
        /\ UNCHANGED <<file, schema, version, rows, cmd, reader, saved>>

Commit(c) ==
    /\ cmd[c].pc = "save" /\ tx[c].left = <<>>
    /\ rows' = tx[c].rows
    /\ saved' = saved \cup {tx[c].report}
    /\ cmd' = [cmd EXCEPT ![c].pc = "scan", ![c].left = @ \ {tx[c].report}]
    /\ tx' = [tx EXCEPT ![c] = NoTx]
    /\ UNCHANGED <<file, schema, version, reader>>

Succeed(c) ==
    /\ cmd[c].pc = "scan" /\ cmd[c].left = {}
    /\ Goto(c, "succeeded")
    /\ UNCHANGED <<file, schema, version, rows, tx, reader, saved>>

\* A statement, the scan or the commit fails, or the process is killed: what
\* the open transaction did is rolled back.
Die(c) ==
    /\ Running(c)
    /\ Goto(c, "failed")
    /\ tx' = [tx EXCEPT ![c] = NoTx]
    /\ UNCHANGED <<file, schema, version, rows, reader, saved>>

CommandStep(c) ==
    \/ Stat(c) \/ ExecDDL(c) \/ (\E r \in Report : Begin(c, r))
    \/ Exec(c) \/ Commit(c) \/ Succeed(c) \/ Die(c)

-----------------------------------------------------------------------------

\* OpenDatabase, at any time while scans are running.
OpenDatabase ==
    /\ reader = "closed"
    /\ reader' = IF file /\ "version" \in schema /\ version # <<>> /\ Head(version) = SchemaVersion
                 THEN "open" ELSE "refused"
    /\ UNCHANGED <<file, schema, version, rows, cmd, tx, saved>>

CloseDatabase ==
    /\ reader # "closed" /\ reader' = "closed"
    /\ UNCHANGED <<file, schema, version, rows, cmd, tx, saved>>

\* The operator removes the file while nothing runs, and starts anew.
RemoveFile ==
    /\ file /\ reader = "closed"
    /\ \A c \in Command : ~Running(c)
    /\ file' = FALSE /\ schema' = {} /\ version' = <<>> /\ rows' = {} /\ saved' = {}
    /\ cmd' = [c \in Command |-> [pc |-> "start", ddl |-> 0, left |-> Batch[c]]]
    /\ UNCHANGED <<tx, reader>>

Next ==
    \/ \E c \in Command : CommandStep(c)
    \/ OpenDatabase \/ CloseDatabase \/ RemoveFile

Spec == Init /\ [][Next]_vars

-----------------------------------------------------------------------------
(* What a report says, as a set of nested facts, and what the tables say   *)
(* when every foreign key is replaced by the row it refers to.             *)

Fact(t, v, of) == [table |-> t, value |-> v, of |-> of]
Plain(t, v) == Fact(t, v, [x \in {} |-> 0])

HostFact(r, h) == Fact("hosts", h.host, [depID |-> Plain("deployments", r.deployment)])
ServiceFact(r, h, s) == Fact("processes", s.name, [hostID |-> HostFact(r, h)])
PortFact(r, h, s, p) == Fact("ports", p.number, [processID |-> ServiceFact(r, h, s)])

RegexFacts(host, f) ==
    LET ff == Fact("files", f.path, [hostID |-> host])
    IN  {ff} \cup UNION {
          LET content == [fileID |-> ff, contentID |-> Plain("regexes", m.content)]
              both == [fileID |-> ff, contentID |-> Plain("regexes", m.content),
                       pathID |-> Plain("regexes", m.path)]
          IN  {Plain("regexes", x) : x \in {m.content} \cup ({m.path} \ {NoPath})} \cup
              {Fact("file_to_regex", "", IF m.path = NoPath THEN content ELSE both)}
          : m \in ToSet(f.matches)}

TLSFacts(port, t) ==
    LET cert == Fact("tls_certificates", t.cert, [portID |-> port])
        pairs == UNION {{c} \X ToSet(c.ciphers) : c \in ToSet(t.suites)}
    IN  {Fact("tls_scan_errors", e, [portID |-> port]) : e \in {t.error} \ {""}} \cup
        (IF t.cert = "" THEN {}
         ELSE {cert} \cup UNION {
                 {Plain("tls_suites", p[1].suite), Plain("tls_ciphers", p[2]),
                  Fact("certificate_to_ciphersuite", "",
                       [certID |-> cert, suiteID |-> Plain("tls_suites", p[1].suite),
                        cipherID |-> Plain("tls_ciphers", p[2])])} : p \in pairs})

ServiceFacts(r, h, s) ==
    {ServiceFact(r, h, s), Fact("env_vars", s.env, [processID |-> ServiceFact(r, h, s)])} \cup
    UNION {{PortFact(r, h, s, p)} \cup
           (IF p.tls = NoTLS THEN {} ELSE TLSFacts(PortFact(r, h, s, p), p.tls))
           : p \in ToSet(s.ports)}

HostFacts(r, h) ==
    {HostFact(r, h)} \cup
    {Fact("ssh_keys", k, [hostID |-> HostFact(r, h)]) : k \in ToSet(h.keys)} \cup
    (UNION {ServiceFacts(r, h, s) : s \in ToSet(h.services)}) \cup
    (UNION {RegexFacts(HostFact(r, h), f) : f \in ToSet(h.files)})

Facts(r) ==
    LET dep == Plain("deployments", r.deployment)
    IN  {dep} \cup {Fact("releases", x, [depID |-> dep]) : x \in ToSet(r.releases)} \cup
        UNION {HostFacts(r, h) : h \in ToSet(r.hosts)}

Referred(R, x, v) == CHOOSE y \in R : y.table = TableOf[v] /\ y.id = x.of[v]
Joined(R) ==
    LET row[x \in R] == Fact(x.table, x.value, [v \in DOMAIN x.of |-> row[Referred(R, x, v)]])
    IN  {row[x] : x \in R}

-----------------------------------------------------------------------------
(* Properties.                                                             *)

\* The types of the variables.
TypeOK ==
    /\ file \in BOOLEAN /\ schema \subseteq ToSet(Tables)
    /\ version \in Seq(Nat)
    /\ \A x \in rows : x.table \in schema /\ x.id \in Nat \ {0}
    /\ \A c \in Command : /\ cmd[c].pc \in {"start", "create", "scan", "save", "succeeded", "failed"}
                          /\ cmd[c].ddl \in 0..Len(createDDL) /\ cmd[c].left \subseteq Batch[c]
                          /\ tx[c] # NoTx <=> cmd[c].pc = "save"
    /\ saved \subseteq Report
    /\ reader \in {"closed", "open", "refused"}

\* A string that is looked up has one row, however many reports name it.
NamesUnique ==
    \A x, y \in rows :
       /\ x.table = y.table /\ x.value = y.value
       /\ x.table \in {"deployments", "hosts", "tls_suites", "tls_ciphers", "regexes"}
       => x = y

\* What the tables say, joined along their keys, is what the saved reports
\* say, all of it and nothing else: no report is there in part, whenever the
\* process ends, no row hangs on another row than it was reported with, and what
\* several reports name has one row.
ReportsWhole ==
    /\ NamesUnique
    /\ Joined(rows) = UNION {Facts(r) : r \in saved}

\* OpenDatabase accepts only a file whose schema is complete: one whose
\* creation was interrupted, or is still going on, is refused.
OpenedComplete == reader = "open" => schema = ToSet(Tables) /\ Len(version) = 1

\* Of two commands given the same file at most one gets past CreateDatabase,
\* also when both found that the file did not exist.
OneWriter ==
    \A c, d \in Command :
       {cmd[c].pc, cmd[d].pc} \subseteq {"scan", "save"} => c = d

\* Each release is recorded with the version the director reports, as the test
\* "records the release version and name" says of db.SaveReport.
ReleasesRecorded ==
    {x.value : x \in InTable(rows, "releases")} = UNION {ToSet(r.releases) : r \in saved}

\* No command takes away what is saved: only the operator does, with the file.
SavedStays == [][rows \subseteq rows' \/ RemoveFile]_vars
=============================================================================
