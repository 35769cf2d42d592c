---------------------------- MODULE AuditProofs -----------------------------
(***************************************************************************)
(* Proofs about audits: for any scans and manifests, any reports that are  *)
(* saved while an audit makes its queries, and any number of queries that  *)
(* break off.                                                              *)
(*                                                                         *)
(* A saved report adds rows and takes none away.  So the queries, although *)
(* they see more and more, agree about the beginning: what was amiss then  *)
(* is among the rows of a later query, and what a count has found is still *)
(* there (Told).  The mapping has each host of the beginning under the     *)
(* last spec whose prefix it matches (Mapped).  Both are claimed as long   *)
(* as no query has broken off.                                             *)
(***************************************************************************)
EXTENDS Audit, FiniteSetTheorems, SequenceTheorems, TLAPS

Complete == readErrors = 0

\* What was there when the audit began is still there.
Grown ==
    /\ Hosts(began) \subseteq Hosts(db) /\ Len(began.hosts) <= Len(db.hosts)
    /\ began.procs \subseteq db.procs
    /\ \A h : ProcessesOn(began, h) \subseteq ProcessesOn(db, h)

Matches(i, h) == <<manifest[i].prefix, h>> \in Like

\* Of the first k specs the i-th is the last that matches the host.
SpecOf(i, k, h) == i \in 1..k /\ Matches(i, h) /\ \A j \in 1..k : j > i => ~Matches(j, h)

\* The hosts D are those the first k specs match.
Covers(D, k) ==
    /\ D \subseteq Hosts(db)
    /\ Complete => \A h \in Hosts(began) :
                      /\ h \in D <=> \E i \in 1..k : Matches(i, h)
                      /\ h \in D => \E i \in 1..k : SpecOf(i, k, h)

Mapped(input, k) ==
    /\ Covers(DOMAIN input, k)
    /\ Complete => \A h \in Hosts(began) \cap DOMAIN input, i \in 1..k :
                      SpecOf(i, k, h) => input[h] = manifest[i]

\* The rows of a query include what was amiss at the beginning and what is not
\* there by now, and nothing else if nothing was saved.
Sound(h, spec, q, rows) ==
    /\ q \in auditHost(spec)
    /\ ReadInLoop(q) => Rows(began, h, spec, q) \subseteq rows
    /\ ~ReadInLoop(q) => Rows(db, h, spec, q) \subseteq rows
    /\ began = db => rows \subseteq Rows(db, h, spec, q)

Told(hosts) ==
    Complete => \A h \in Hosts(began) \cap DOMAIN hosts, i \in 1..Len(manifest) :
                  SpecOf(i, Len(manifest), h) =>
                     \A q \in DOMAIN hosts[h] : Sound(h, manifest[i], q, hosts[h][q])

\* No query is left out.
Asked(hosts) ==
    Complete => \A h \in Hosts(began) \cap DOMAIN hosts, i \in 1..Len(manifest) :
                  SpecOf(i, Len(manifest), h) => auditHost(manifest[i]) \subseteq DOMAIN hosts[h]

HostsKnown(extra, missing) ==
    Complete =>
       /\ \A h \in Hosts(began) : h \in extra <=> \A s \in ToSet(manifest) : <<s.prefix, h>> \notin HasPrefix
       /\ missing = {} => PrefixesFound(db)
       /\ began = db => extra \subseteq Hosts(db) /\ (PrefixesFound(db) => missing = {})

ScansSound ==
    /\ db \in Scans /\ began \in Scans /\ Grown /\ readErrors \in 0..MaxReadErrors
    /\ from \in Scans \cup {NoManifest}
    /\ from # NoManifest => manifest = Generated(from)
    /\ IsManifest(manifest)

AuditSound ==
    \/ audit = NoAudit
    \/ /\ audit.pc = "map" /\ audit = [pc |-> "map", specs |-> audit.specs, input |-> audit.input]
       /\ audit.specs \in 0..Len(manifest) /\ Mapped(audit.input, audit.specs)
    \/ /\ audit.pc = "hosts"
       /\ audit = [pc |-> "hosts", input |-> audit.input, hosts |-> audit.hosts,
                   extra |-> audit.extra, missing |-> audit.missing]
       /\ audit.hosts = [h \in DOMAIN audit.input |-> audit.hosts[h]]
       /\ Mapped(audit.input, Len(manifest)) /\ Told(audit.hosts)
       /\ HostsKnown(audit.extra, audit.missing)

ResultSound ==
    /\ audit # NoAudit => validate(manifest) /\ result = NoResult
    /\ \/ result \in {NoResult, [status |-> "failed"]}
       \/ result = [status |-> "invalid"] /\ ~validate(manifest)
       \/ /\ result.status = "audited"
          /\ result = [status |-> "audited", extra |-> result.extra, missing |-> result.missing,
                       hosts |-> result.hosts]
          /\ validate(manifest)
          /\ Covers(DOMAIN result.hosts, Len(manifest)) /\ Told(result.hosts) /\ Asked(result.hosts)
          /\ HostsKnown(result.extra, result.missing)

Inv == ScansSound /\ AuditSound /\ ResultSound

-----------------------------------------------------------------------------
(* The operators.                                                          *)

\* A list of a set has its elements and no others.
LEMMA Listed ==
    ASSUME NEW S, IsFiniteSet(S)
    PROVE  SetToSeq(S) \in Seq(S) /\ ToSet(SetToSeq(S)) = S
<1>1. PICK n \in Nat : n = Cardinality(S)
  BY FS_CardinalityType
<1>2. PICK g : g \in Bijection(1..n, S)
  BY <1>1, FS_CardinalityType DEF ExistsBijection
<1>3. g \in [1..n -> S] /\ IsInjective(g)
  BY <1>2 DEF Bijection, Injection
<1>4. PICK f : f = SetToSeq(S)
  OBVIOUS
<1>5. f \in [1..n -> S] /\ IsInjective(f)
  BY <1>1, <1>3, <1>4 DEF SetToSeq
<1>6. f \in Injection(1..n, S)
  BY <1>5 DEF Injection
<1>7. IsFiniteSet(1..n) /\ Cardinality(1..n) = n
  <2>1. Cardinality(1..n) = IF 1 > n THEN 0 ELSE n - 1 + 1
    BY FS_Interval
  <2> QED
    BY <2>1, FS_Interval
<1>8. f \in Surjection(1..n, S)
  BY <1>1, <1>6, <1>7, FS_Injection
<1>9. DOMAIN f = 1..n /\ \A x \in S : \E i \in 1..n : f[i] = x
  BY <1>5, <1>8 DEF Surjection
<1>10. f \in Seq(S)
  BY <1>5, SeqDef
<1>11. ToSet(f) = S
  BY <1>5, <1>9 DEF ToSet
<1> QED
  BY <1>4, <1>10, <1>11

LEMMA SeqToSet ==
    ASSUME NEW s, s \in Seq(ToSet(s))
    PROVE  /\ Len(s) \in Nat /\ DOMAIN s = 1..Len(s)
           /\ \A x : x \in ToSet(s) <=> \E i \in 1..Len(s) : s[i] = x
<1>1. Len(s) \in Nat /\ DOMAIN s = 1..Len(s)
  BY LenProperties
<1> QED
  BY <1>1 DEF ToSet

\* The first entry of a command, as the code looks for it and as HostsConform does.
LEMMA FirstEntry ==
    ASSUME NEW spec, spec.processes \in Seq(ToSet(spec.processes)), NEW c,
           NEW mine, mine = {i \in DOMAIN spec.processes : spec.processes[i].command = c}
    PROVE  ShouldIgnorePortsForCommand(spec, c)
           <=> (mine # {} /\ \E i \in mine : spec.processes[i].ignore /\ \A j \in mine : i <= j)
<1>1. PICK P : P = spec.processes
  OBVIOUS
<1>2. PICK n \in Nat : n = Len(P) /\ DOMAIN P = 1..n
  BY <1>1, SeqToSet
<1>3. ASSUME NEW i \in 1..n
      PROVE  (\A j \in 1..(i - 1) : P[j].command # c) <=> (\A j \in mine : i <= j)
  <2>1. ASSUME \A j \in 1..(i - 1) : P[j].command # c, NEW j \in mine PROVE i <= j
    <3>1. j \in 1..n /\ P[j].command = c
      BY <1>1, <1>2
    <3>2. ~(j \in 1..(i - 1))
      BY <2>1, <3>1
    <3> QED
      BY <3>1, <3>2
  <2>2. ASSUME \A j \in mine : i <= j, NEW j \in 1..(i - 1) PROVE P[j].command # c
    <3>1. j \in 1..n /\ ~(i <= j)
      OBVIOUS
    <3>2. j \notin mine
      BY <2>2, <3>1
    <3> QED
      BY <1>1, <1>2, <3>1, <3>2
  <2> QED
    BY <2>1, <2>2
<1>4. ShouldIgnorePortsForCommand(spec, c) <=>
      \E i \in 1..n : P[i].command = c /\ P[i].ignore /\ \A j \in 1..(i - 1) : P[j].command # c
  BY <1>1, <1>2 DEF ShouldIgnorePortsForCommand
<1>5. \A i : i \in mine <=> i \in 1..n /\ P[i].command = c
  BY <1>1, <1>2
<1> QED
  BY <1>1, <1>3, <1>4, <1>5

LEMMA Turns ==
    /\ Turn[1] = "missing process" /\ Turn[2] = "missing port"
    /\ Turn[3] = "unexpected ports" /\ Turn[4] = "mismatched process"
BY DEF Turn

\* What a query reads, by its kind.
LEMMA RowsOf ==
    ASSUME NEW d, NEW h, NEW spec, NEW q
    PROVE  /\ q[1] = Turn[1] => Rows(d, h, spec, q) = lookForMissingProcesses(d, h, q[2]) /\ ~ReadInLoop(q)
           /\ q[1] = Turn[2] => Rows(d, h, spec, q) = lookForMissingPorts(d, h, q[2]) /\ ~ReadInLoop(q)
           /\ q[1] = Turn[3] => Rows(d, h, spec, q) = findUnexpectedPorts(d, h, spec) /\ ReadInLoop(q)
           /\ q[1] = Turn[4] => Rows(d, h, spec, q) = verifyProcessUsers(d, h, q[2]) /\ ReadInLoop(q)
<1>1. PICK a, b, c, e : a = Turn[1] /\ b = Turn[2] /\ c = Turn[3] /\ e = Turn[4]
  OBVIOUS
<1>2. a # b /\ a # c /\ a # e /\ b # c /\ b # e /\ c # e
  BY <1>1, Turns
<1>3. ReadInLoop(q) <=> q[1] = c \/ q[1] = e
  BY <1>1 DEF ReadInLoop
<1>4. Rows(d, h, spec, q) = CASE q[1] = a -> lookForMissingProcesses(d, h, q[2])
                             [] q[1] = b -> lookForMissingPorts(d, h, q[2])
                             [] q[1] = c -> findUnexpectedPorts(d, h, spec)
                             [] OTHER    -> verifyProcessUsers(d, h, q[2])
  BY <1>1 DEF Rows
<1> QED
  BY <1>1, <1>2, <1>3, <1>4

\* A query of a host is of one of the four kinds.
LEMMA Kinds ==
    ASSUME NEW spec, NEW q
    PROVE  q \in auditHost(spec) <=>
              \/ \E c \in ExpectedCommands(spec) : q = <<Turn[1], c>>
              \/ \E n \in ExpectedPorts(spec) : q = <<Turn[2], n>>
              \/ q = <<Turn[3]>>
              \/ \E e \in ToSet(spec.processes) : q = <<Turn[4], e>>
BY DEF auditHost

LEMMA KindOf ==
    ASSUME NEW spec, NEW q \in auditHost(spec)
    PROVE  q[1] \in {Turn[1], Turn[2], Turn[3], Turn[4]}
<1>1. PICK a, b, c, e : a = Turn[1] /\ b = Turn[2] /\ c = Turn[3] /\ e = Turn[4]
  OBVIOUS
<1>2. \A x : <<a, x>>[1] = a /\ <<b, x>>[1] = b /\ <<c>>[1] = c /\ <<e, x>>[1] = e
  OBVIOUS
<1> QED
  BY <1>1, <1>2, Kinds

\* More processes: a count finds more and so less is missing, the other queries
\* have more rows.
LEMMA MoreRows ==
    ASSUME NEW d, NEW e, NEW h, ProcessesOn(d, h) \subseteq ProcessesOn(e, h),
           NEW spec, NEW q \in auditHost(spec)
    PROVE  /\ ReadInLoop(q) => Rows(d, h, spec, q) \subseteq Rows(e, h, spec, q)
           /\ ~ReadInLoop(q) => Rows(e, h, spec, q) \subseteq Rows(d, h, spec, q)
<1>1. CASE q[1] = Turn[1]
  <2>1. lookForMissingProcesses(e, h, q[2]) \subseteq lookForMissingProcesses(d, h, q[2])
    BY DEF lookForMissingProcesses
  <2> QED
    BY <1>1, <2>1, RowsOf
<1>2. CASE q[1] = Turn[2]
  <2>1. lookForMissingPorts(e, h, q[2]) \subseteq lookForMissingPorts(d, h, q[2])
    BY DEF lookForMissingPorts
  <2> QED
    BY <1>2, <2>1, RowsOf
<1>3. CASE q[1] = Turn[3]
  <2>1. findUnexpectedPorts(d, h, spec) \subseteq findUnexpectedPorts(e, h, spec)
    BY DEF findUnexpectedPorts
  <2> QED
    BY <1>3, <2>1, RowsOf
<1>4. CASE q[1] = Turn[4]
  <2>1. verifyProcessUsers(d, h, q[2]) \subseteq verifyProcessUsers(e, h, q[2])
    BY DEF verifyProcessUsers
  <2> QED
    BY <1>4, <2>1, RowsOf
<1> QED
  BY <1>1, <1>2, <1>3, <1>4, KindOf

\* The counts are none if and only if all is there.
LEMMA NoneMissing ==
    ASSUME NEW d, NEW h, NEW spec
    PROVE  (\A q \in auditHost(spec) : ~ReadInLoop(q) => Rows(d, h, spec, q) = {})
           <=> AllThere(d, h, spec.processes)
<1>1. PICK P, R : P = spec.processes /\ R = ProcessesOn(d, h)
  OBVIOUS
<1>2. \A e : e \in ToSet(P) <=> \E i \in DOMAIN P : P[i] = e
  BY DEF ToSet
<1> DEFINE runs(c) == \E p \in R : p.name = c
           open(n) == \E p \in R : \E q \in p.ports : q.number = n
<1>3. ASSUME NEW c PROVE ~ReadInLoop(<<Turn[1], c>>) /\ (Rows(d, h, spec, <<Turn[1], c>>) = {} <=> runs(c))
  <2>1. <<Turn[1], c>>[1] = Turn[1] /\ <<Turn[1], c>>[2] = c
    OBVIOUS
  <2>2. lookForMissingProcesses(d, h, c) = {} <=> runs(c)
    BY <1>1 DEF lookForMissingProcesses
  <2> QED
    BY <2>1, <2>2, RowsOf
<1>4. ASSUME NEW n PROVE ~ReadInLoop(<<Turn[2], n>>) /\ (Rows(d, h, spec, <<Turn[2], n>>) = {} <=> open(n))
  <2>1. <<Turn[2], n>>[1] = Turn[2] /\ <<Turn[2], n>>[2] = n
    OBVIOUS
  <2>2. lookForMissingPorts(d, h, n) = {} <=> open(n)
    BY <1>1 DEF lookForMissingPorts
  <2> QED
    BY <2>1, <2>2, RowsOf
<1>5. ASSUME NEW e PROVE ReadInLoop(<<Turn[3]>>) /\ ReadInLoop(<<Turn[4], e>>)
  <2>1. <<Turn[3]>>[1] = Turn[3] /\ <<Turn[4], e>>[1] = Turn[4]
    OBVIOUS
  <2> QED
    BY <2>1, RowsOf
<1>6. AllThere(d, h, P) <=> \A i \in DOMAIN P : runs(P[i].command) /\ \A n \in P[i].ports : open(n)
  BY <1>1 DEF AllThere
<1>7. \A c : c \in ExpectedCommands(spec) <=> \E i \in DOMAIN P : P[i].command = c
  BY <1>1, <1>2 DEF ExpectedCommands
<1>8. \A n : n \in ExpectedPorts(spec) <=> \E i \in DOMAIN P : n \in P[i].ports
  BY <1>1, <1>2 DEF ExpectedPorts
<1> HIDE DEF runs, open
<1>9. ASSUME \A q \in auditHost(spec) : ~ReadInLoop(q) => Rows(d, h, spec, q) = {}, NEW i \in DOMAIN P
      PROVE  runs(P[i].command) /\ \A n \in P[i].ports : open(n)
  <2>1. runs(P[i].command)
    <3>1. <<Turn[1], P[i].command>> \in auditHost(spec)
      BY <1>7, Kinds
    <3> QED
      BY <1>3, <1>9, <3>1
  <2>2. ASSUME NEW n \in P[i].ports PROVE open(n)
    <3>1. <<Turn[2], n>> \in auditHost(spec)
      BY <1>8, Kinds
    <3> QED
      BY <1>4, <1>9, <3>1
  <2> QED
    BY <2>1, <2>2
<1>10. ASSUME \A i \in DOMAIN P : runs(P[i].command) /\ \A n \in P[i].ports : open(n),
              NEW q \in auditHost(spec), ~ReadInLoop(q)
       PROVE  Rows(d, h, spec, q) = {}
  <2>1. CASE \E c \in ExpectedCommands(spec) : q = <<Turn[1], c>>
    BY <1>3, <1>7, <1>10, <2>1
  <2>2. CASE \E n \in ExpectedPorts(spec) : q = <<Turn[2], n>>
    BY <1>4, <1>8, <1>10, <2>2
  <2>3. q # <<Turn[3]>> /\ \A e : q # <<Turn[4], e>>
    BY <1>5, <1>10
  <2> QED
    BY <2>1, <2>2, <2>3, Kinds
<1> QED
  BY <1>1, <1>6, <1>9, <1>10

\* The other queries have no rows if and only if nothing is amiss.
LEMMA NoneAmiss ==
    ASSUME NEW d, NEW h, NEW spec, spec.processes \in Seq(ToSet(spec.processes))
    PROVE  (\A q \in auditHost(spec) : ReadInLoop(q) => Rows(d, h, spec, q) = {})
           <=> NothingAmiss(d, h, spec.processes)
<1>1. PICK P, R : P = spec.processes /\ R = ProcessesOn(d, h)
  OBVIOUS
<1>2. \A e : e \in ToSet(P) <=> \E i \in DOMAIN P : P[i] = e
  BY DEF ToSet
<1> DEFINE mine(c) == {i \in DOMAIN P : P[i].command = c}
           first(c) == mine(c) # {} /\ \E i \in mine(c) : P[i].ignore /\ \A j \in mine(c) : i <= j
           owned(p) == \A i \in DOMAIN P : p.name = P[i].command /\ p.ports # {} => p.user = P[i].user
           known(p) == \A q \in p.ports :
              q.state # "LISTEN" \/ q.address = "127.0.0.1"
              \/ (\E i \in DOMAIN P : q.number \in P[i].ports) \/ first(p.name)
<1>3. (\A e \in ToSet(P) : verifyProcessUsers(d, h, e) = {}) <=> \A p \in R : owned(p)
  <2>1. ASSUME NEW e
        PROVE  verifyProcessUsers(d, h, e) = {} <=>
               \A p \in R : p.name = e.command /\ p.ports # {} => p.user = e.user
    BY <1>1 DEF verifyProcessUsers
  <2>2. ASSUME \A e \in ToSet(P) : verifyProcessUsers(d, h, e) = {}, NEW p \in R, NEW i \in DOMAIN P,
               p.name = P[i].command, p.ports # {}
        PROVE  p.user = P[i].user
    BY <1>2, <2>1, <2>2
  <2>3. ASSUME \A p \in R : owned(p), NEW e \in ToSet(P) PROVE verifyProcessUsers(d, h, e) = {}
    <3>1. PICK i \in DOMAIN P : P[i] = e
      BY <1>2
    <3> QED
      BY <2>1, <2>3, <3>1
  <2> QED
    BY <2>2, <2>3
<1>4. findUnexpectedPorts(d, h, spec) = {} <=> \A p \in R : known(p)
  <2> DEFINE E == ExpectedPorts(spec)
             I(c) == ShouldIgnorePortsForCommand(spec, c)
  <2>1. \A n : n \in E <=> \E i \in DOMAIN P : n \in P[i].ports
    <3>1. E = UNION {e.ports : e \in ToSet(P)}
      BY <1>1 DEF ExpectedPorts
    <3>2. \A n : n \in E <=> \E e \in ToSet(P) : n \in e.ports
      BY <3>1
    <3> QED
      BY <1>2, <3>2, Zenon
  <2>2. ASSUME NEW c PROVE I(c) <=> first(c)
    <3>1. PICK M : M = mine(c)
      OBVIOUS
    <3>2. ShouldIgnorePortsForCommand(spec, c)
          <=> (M # {} /\ \E i \in M : P[i].ignore /\ \A j \in M : i <= j)
      <4>1. M = {i \in DOMAIN spec.processes : spec.processes[i].command = c}
        BY <1>1, <3>1
      <4>2. ShouldIgnorePortsForCommand(spec, c)
            <=> (M # {} /\ \E i \in M : spec.processes[i].ignore /\ \A j \in M : i <= j)
        BY <4>1, FirstEntry
      <4> QED
        BY <1>1, <4>2, Zenon
    <3> QED
      BY <3>1, <3>2, Zenon
  <2> HIDE DEF first, E, I
  <2>3. ASSUME NEW p \in R, ~I(p.name), NEW q \in p.ports, Listening(q), q.number \notin E
        PROVE  <<p, q>> \in findUnexpectedPorts(d, h, spec)
    BY <1>1, <2>3 DEF findUnexpectedPorts, E, I
  <2>4. ASSUME NEW x \in findUnexpectedPorts(d, h, spec)
        PROVE  \E p \in R : ~I(p.name) /\ \E q \in p.ports : Listening(q) /\ q.number \notin E
    BY <1>1, <2>4 DEF findUnexpectedPorts, E, I
  <2>5. findUnexpectedPorts(d, h, spec) = {} <=>
        \A p \in R : \A q \in p.ports : ~Listening(q) \/ q.number \in E \/ I(p.name)
    BY <2>3, <2>4, Zenon
  <2> QED
    BY <2>1, <2>2, <2>5, Zenon DEF Listening
<1>5. NothingAmiss(d, h, P) <=> \A p \in R : owned(p) /\ known(p)
  BY <1>1 DEF NothingAmiss
<1> HIDE DEF owned, known
<1>6. ASSUME NEW x
      PROVE  /\ ~ReadInLoop(<<Turn[1], x>>) /\ ~ReadInLoop(<<Turn[2], x>>)
             /\ ReadInLoop(<<Turn[3]>>) /\ Rows(d, h, spec, <<Turn[3]>>) = findUnexpectedPorts(d, h, spec)
             /\ ReadInLoop(<<Turn[4], x>>) /\ Rows(d, h, spec, <<Turn[4], x>>) = verifyProcessUsers(d, h, x)
  <2>1. /\ <<Turn[1], x>>[1] = Turn[1] /\ <<Turn[2], x>>[1] = Turn[2] /\ <<Turn[3]>>[1] = Turn[3]
        /\ <<Turn[4], x>>[1] = Turn[4] /\ <<Turn[4], x>>[2] = x
    OBVIOUS
  <2> QED
    BY <2>1, RowsOf
<1>7. (\A q \in auditHost(spec) : ReadInLoop(q) => Rows(d, h, spec, q) = {}) <=>
      findUnexpectedPorts(d, h, spec) = {} /\ \A e \in ToSet(P) : verifyProcessUsers(d, h, e) = {}
  <2>1. ASSUME \A q \in auditHost(spec) : ReadInLoop(q) => Rows(d, h, spec, q) = {}
        PROVE  findUnexpectedPorts(d, h, spec) = {} /\ \A e \in ToSet(P) : verifyProcessUsers(d, h, e) = {}
    <3>1. <<Turn[3]>> \in auditHost(spec) /\ \A e \in ToSet(P) : <<Turn[4], e>> \in auditHost(spec)
      BY <1>1, Kinds
    <3> QED
      BY <1>6, <2>1, <3>1
  <2>2. ASSUME findUnexpectedPorts(d, h, spec) = {}, \A e \in ToSet(P) : verifyProcessUsers(d, h, e) = {},
               NEW q \in auditHost(spec), ReadInLoop(q)
        PROVE  Rows(d, h, spec, q) = {}
    <3>1. CASE q = <<Turn[3]>>
      BY <1>6, <2>2, <3>1
    <3>2. CASE \E e \in ToSet(spec.processes) : q = <<Turn[4], e>>
      BY <1>1, <1>6, <2>2, <3>2
    <3>3. \A x : q # <<Turn[1], x>> /\ q # <<Turn[2], x>>
      BY <1>6, <2>2
    <3> QED
      BY <3>1, <3>2, <3>3, Kinds
  <2> QED
    BY <2>1, <2>2
<1> QED
  BY <1>1, <1>3, <1>4, <1>5, <1>7

-----------------------------------------------------------------------------
(* Generated manifests.                                                    *)

\* The entries generate-manifest writes for a row of hosts, as a set.
Entry(p, ports) == [command |-> p.name, user |-> p.user, ports |-> ports[p], ignore |-> FALSE]
Entries(i, ports) == {Entry(p, ports) : p \in {x \in DOMAIN ports : x.row = i}}

LEMMA EntriesListed ==
    ASSUME NEW ports, IsFiniteSet(DOMAIN ports), NEW i
    PROVE  /\ getProcessesFor(i, ports) \in Seq(Entries(i, ports))
           /\ ToSet(getProcessesFor(i, ports)) = Entries(i, ports)
<1>1. PICK L : L = {x \in DOMAIN ports : x.row = i}
  OBVIOUS
<1>3. IsFiniteSet(L)
  BY <1>1, FS_Subset
<1>4. PICK f : f = [p \in L |-> Entry(p, ports)]
  OBVIOUS
<1>5. PICK T : T = Entries(i, ports)
  OBVIOUS
<1>6. f \in [L -> T] /\ \A t \in T : \E p \in L : f[p] = t
  BY <1>1, <1>4, <1>5 DEF Entries
<1>7. f \in Surjection(L, T)
  BY <1>6 DEF Surjection
<1>8. IsFiniteSet(T)
  BY <1>3, <1>7, FS_Surjection
<1>9. getProcessesFor(i, ports) = SetToSeq(T)
  BY <1>5 DEF getProcessesFor, Entries, Entry
<1> QED
  BY <1>5, <1>8, <1>9, Listed

\* What is written for the first n hosts is a manifest, whatever was read.
LEMMA SpecsListed ==
    ASSUME NEW d \in Scans, NEW n \in Nat, NEW ports, DOMAIN ports \subseteq d.procs,
           NEW m, m = getSpecsFor(d, n, ports)
    PROVE  /\ IsManifest(m) /\ Len(m) = n /\ DOMAIN m = 1..n
           /\ \A i \in 1..n : m[i].prefix = d.hosts[i] /\ ToSet(m[i].processes) = Entries(i, ports)
<1>1. IsFiniteSet(DOMAIN ports)
  BY ScanAssumption, FS_Subset
<1>2. m = [i \in 1..n |-> [prefix |-> d.hosts[i], processes |-> getProcessesFor(i, ports)]]
  BY DEF getSpecsFor
<1>3. \A i \in 1..n : m[i].prefix = d.hosts[i] /\ m[i].processes = getProcessesFor(i, ports)
  BY <1>2
<1>4. \A x : x \in ToSet(m) <=> \E i \in 1..n : m[i] = x
  BY <1>2 DEF ToSet
<1>5. m \in [1..n -> ToSet(m)]
  BY <1>2, <1>4
<1>6. m \in Seq(ToSet(m)) /\ Len(m) = n
  BY <1>5, SeqDef
<1>7. ASSUME NEW s \in ToSet(m) PROVE s.processes \in Seq(ToSet(s.processes))
  <2>1. PICK i \in 1..n : m[i] = s
    BY <1>4
  <2>2. s.processes = getProcessesFor(i, ports)
    BY <1>3, <2>1
  <2> QED
    BY <1>1, <2>2, EntriesListed
<1>8. \A i \in 1..n : ToSet(m[i].processes) = Entries(i, ports)
  BY <1>1, <1>3, EntriesListed
<1> QED
  BY <1>2, <1>3, <1>6, <1>7, <1>8 DEF IsManifest

PortsOf(d) == [p \in Listeners(d) |-> getPortsFor(p)]
EntriesOf(d, i) == Entries(i, PortsOf(d))

\* A generated manifest has one spec for each row of hosts of the scan.
LEMMA GeneratedListed ==
    ASSUME NEW d \in Scans, NEW m, m = Generated(d)
    PROVE  /\ IsManifest(m) /\ Len(m) = Len(d.hosts) /\ Len(m) \in Nat
           /\ DOMAIN m = 1..Len(m) /\ DOMAIN d.hosts = 1..Len(m)
           /\ \A i \in 1..Len(m) : /\ m[i].prefix = d.hosts[i] /\ d.hosts[i] \in Hosts(d)
                                   /\ ToSet(m[i].processes) = EntriesOf(d, i)
           /\ \A h \in Hosts(d) : \E i \in 1..Len(m) : d.hosts[i] = h
<1>1. d.hosts \in Seq(ToSet(d.hosts))
  BY ScanAssumption
<1>2. PICK n \in Nat : n = Len(d.hosts) /\ DOMAIN d.hosts = 1..n
  BY <1>1, SeqToSet
<1>3. DOMAIN PortsOf(d) \subseteq d.procs
  BY DEF PortsOf, Listeners
<1>4. m = getSpecsFor(d, n, PortsOf(d))
  BY <1>2 DEF Generated, PortsOf
<1>5. /\ IsManifest(m) /\ Len(m) = n /\ DOMAIN m = 1..n
      /\ \A i \in 1..n : m[i].prefix = d.hosts[i] /\ ToSet(m[i].processes) = EntriesOf(d, i)
  BY <1>3, <1>4, SpecsListed DEF EntriesOf
<1>6. /\ \A h \in Hosts(d) : \E i \in 1..n : d.hosts[i] = h
      /\ \A i \in 1..n : d.hosts[i] \in Hosts(d)
  BY <1>2 DEF Hosts, ToSet
<1> QED
  BY <1>2, <1>5, <1>6

LEMMA ManifestShape ==
    ASSUME ScansSound
    PROVE  /\ Len(manifest) \in Nat /\ DOMAIN manifest = 1..Len(manifest)
           /\ \A i \in 1..Len(manifest) : /\ manifest[i] \in ToSet(manifest)
                                          /\ manifest[i].processes \in Seq(ToSet(manifest[i].processes))
           /\ \A s \in ToSet(manifest) : \E i \in 1..Len(manifest) : manifest[i] = s
<1>1. IsManifest(manifest)
  BY DEF ScansSound
<1>2. Len(manifest) \in Nat /\ DOMAIN manifest = 1..Len(manifest)
      /\ \A s : s \in ToSet(manifest) <=> \E i \in 1..Len(manifest) : manifest[i] = s
  BY <1>1, SeqToSet DEF IsManifest
<1> QED
  BY <1>1, <1>2 DEF IsManifest

-----------------------------------------------------------------------------
(* The steps.                                                              *)

LEMMA ScanShape == \A d \in Scans : Len(d.hosts) \in Nat
BY ScanAssumption, LenProperties

\* A saved report adds rows and takes none away.
LEMMA SavedIsMore ==
    ASSUME NEW d \in Scans, NEW e \in Scans, Extends(e, d)
    PROVE  /\ Hosts(d) \subseteq Hosts(e) /\ Len(d.hosts) <= Len(e.hosts) /\ d.procs \subseteq e.procs
           /\ Len(d.hosts) < Len(e.hosts) \/ d.procs # e.procs
           /\ \A h : ProcessesOn(d, h) \subseteq ProcessesOn(e, h)
<1>1. PICK s, t : s = d.hosts /\ t = e.hosts
  OBVIOUS
<1>2. PICK m \in Nat, n \in Nat : /\ m = Len(s) /\ n = Len(t) /\ DOMAIN s = 1..m /\ DOMAIN t = 1..n
                                  /\ s \in Seq(ToSet(s)) /\ t \in Seq(ToSet(t))
  BY <1>1, ScanAssumption, SeqToSet
<1>3. m <= n /\ SubSeq(s, 1, m) = SubSeq(t, 1, m) /\ d.procs \subseteq e.procs
  BY <1>1, <1>2 DEF Extends, IsPrefix
<1>4. ASSUME NEW i \in 1..m PROVE s[i] = t[i]
  <2>1. i \in 1..n /\ 1..m \subseteq 1..n
    BY <1>3
  <2>2. SubSeq(s, 1, m)[i] = s[i] /\ SubSeq(t, 1, m)[i] = t[i]
    BY <1>2, <1>3, <2>1, SubSeqProperties
  <2> QED
    BY <1>3, <2>2
<1>5. m < n \/ d.procs # e.procs
  <2>1. ASSUME m = n PROVE s = t
    BY <1>2, <1>4, <2>1, SeqEqual
  <2> QED
    BY <1>1, <1>3, <2>1 DEF Extends
<1>6. Hosts(d) \subseteq Hosts(e)
  <2> SUFFICES ASSUME NEW h \in Hosts(d) PROVE h \in Hosts(e)
    OBVIOUS
  <2>1. PICK i \in 1..m : s[i] = h
    BY <1>1, <1>2 DEF Hosts, ToSet
  <2>2. i \in 1..n /\ t[i] = h
    BY <1>3, <1>4, <2>1
  <2> QED
    BY <1>1, <1>2, <2>2 DEF Hosts, ToSet
<1>7. ASSUME NEW h PROVE ProcessesOn(d, h) \subseteq ProcessesOn(e, h)
  <2>1. \A p \in d.procs : p.row \in 1..m
    BY <1>1, <1>2, ScanAssumption
  <2> QED
    BY <1>1, <1>3, <1>4, <2>1 DEF ProcessesOn
<1> QED
  BY <1>1, <1>2, <1>3, <1>5, <1>6, <1>7

\* What the predicates of an audit are about; a query that breaks off only makes
\* them say less.
Frame == UNCHANGED <<db, manifest, began>> /\ (Complete' => Complete)

LEMMA Breaks == ASSUME ScansSound, BreaksOff PROVE ~Complete' /\ readErrors' \in 0..MaxReadErrors
BY ErrorsAssumption DEF ScansSound, BreaksOff, Complete

LEMMA FrameKept ==
    ASSUME Frame
    PROVE  /\ \A input, k : Mapped(input, k) => Mapped(input, k)'
           /\ \A D, k : Covers(D, k) => Covers(D, k)'
           /\ \A hosts : Told(hosts) => Told(hosts)'
           /\ \A hosts : Asked(hosts) => Asked(hosts)'
           /\ \A extra, missing : HostsKnown(extra, missing) => HostsKnown(extra, missing)'
<1>1. \A i, h : Matches(i, h)' <=> Matches(i, h)
  BY DEF Matches, Frame
<1>2. \A i, k, h : SpecOf(i, k, h)' <=> SpecOf(i, k, h)
  BY <1>1 DEF SpecOf
<1>3. \A D, k : Covers(D, k) => Covers(D, k)'
  BY <1>1, <1>2 DEF Covers, Frame
<1>4. \A input, k : Mapped(input, k) => Mapped(input, k)'
  BY <1>2, <1>3 DEF Mapped, Frame
<1>5. \A hosts : Told(hosts) => Told(hosts)'
  <2>1. \A h, spec, q, rows : Sound(h, spec, q, rows) => Sound(h, spec, q, rows)'
    BY DEF Sound, Frame
  <2> QED
    BY <1>2, <2>1 DEF Told, Frame
<1>6. \A hosts : Asked(hosts) => Asked(hosts)'
  BY <1>2 DEF Asked, Frame
<1>7. \A extra, missing : HostsKnown(extra, missing) => HostsKnown(extra, missing)'
  BY DEF HostsKnown, PrefixesFound, Frame
<1> QED
  BY <1>3, <1>4, <1>5, <1>6, <1>7

LEMMA ScansKept ==
    ASSUME ScansSound, Frame, UNCHANGED from, readErrors' \in 0..MaxReadErrors PROVE ScansSound'
BY DEF ScansSound, Frame, Grown

\* A step that ends an audit, or makes none, leaves what is sound by itself.
LEMMA Restarted ==
    ASSUME ScansSound, db' \in Scans, began' = db', audit' = NoAudit, readErrors' = 0,
           IsManifest(manifest)', from' \in Scans \cup {NoManifest},
           from' # NoManifest => manifest' = Generated(from'),
           result' \in {NoResult, [status |-> "failed"]}
    PROVE  Inv'
<1>1. Grown'
  BY ScanShape DEF Grown
<1>2. ScansSound'
  BY <1>1, ErrorsAssumption DEF ScansSound
<1>3. AuditSound' /\ ResultSound'
  BY DEF AuditSound, ResultSound
<1> QED
  BY <1>2, <1>3 DEF Inv

LEMMA InitInv == Init => Inv
<1> SUFFICES ASSUME Init PROVE Inv
  OBVIOUS
<1>1. Grown
  BY ScanShape DEF Init, Grown
<1>2. ScansSound
  BY <1>1, ManifestAssumption, ErrorsAssumption DEF Init, ScansSound
<1> QED
  BY <1>2 DEF Init, Inv, AuditSound, ResultSound

LEMMA NoAuditIdle == NoAudit.pc = "idle" /\ NoResult.status = "none"
BY DEF NoAudit, NoResult

LEMMA RunAuditInv == ASSUME Inv, RunAudit PROVE Inv'
<1>1. audit = NoAudit /\ result = NoResult /\ began' = db /\ UNCHANGED <<db, manifest, from, readErrors>>
  BY DEF RunAudit
<1>2. ScansSound'
  BY <1>1, ScanShape DEF Inv, ScansSound, Grown
<1>3. CASE validate(manifest)
  <2>1. audit' = [pc |-> "map", specs |-> 0, input |-> <<>>] /\ result' = NoResult
    BY <1>1, <1>3 DEF RunAudit
  <2>2. /\ audit'.pc = "map" /\ audit'.specs = 0 /\ audit'.input = <<>>
        /\ audit' = [pc |-> "map", specs |-> audit'.specs, input |-> audit'.input]
    BY <2>1
  <2>3. Mapped(<<>>, 0)'
    BY DEF Mapped, Covers
  <2>4. 0 \in 0..Len(manifest')
    BY ManifestShape, <1>1 DEF Inv
  <2>5. AuditSound'
    BY <2>2, <2>3, <2>4 DEF AuditSound
  <2>6. ResultSound'
    BY <1>1, <1>3, <2>1 DEF ResultSound
  <2> QED
    BY <1>2, <2>5, <2>6 DEF Inv
<1>4. CASE ~validate(manifest)
  <2>1. audit' = NoAudit /\ result' = [status |-> "invalid"]
    BY <1>1, <1>4 DEF RunAudit
  <2>2. AuditSound' /\ ResultSound'
    BY <1>1, <1>4, <2>1 DEF AuditSound, ResultSound
  <2> QED
    BY <1>2, <2>2 DEF Inv
<1> QED
  BY <1>3, <1>4

\* The query for one more spec: the hosts it matches are now under it.
LEMMA MappedMore ==
    ASSUME ScansSound, NEW k \in Nat, NEW input, Mapped(input, k), NEW hosts \in SUBSET Hosts(db)
    PROVE  LET more == mapHostnameToSpec(hosts, manifest[k + 1], input)
           IN  /\ DOMAIN more \subseteq Hosts(db)
               /\ hosts = Hosts(db) => Mapped(more, k + 1)
<1>1. PICK found : found = {h \in hosts : Matches(k + 1, h)}
  OBVIOUS
<1>2. PICK more : more = mapHostnameToSpec(hosts, manifest[k + 1], input)
  OBVIOUS
<1>3. more = [h \in DOMAIN input \cup found |-> IF h \in found THEN manifest[k + 1] ELSE input[h]]
  BY <1>1, <1>2 DEF mapHostnameToSpec, Matches
<1>4. /\ DOMAIN more = DOMAIN input \cup found
      /\ \A h \in found : more[h] = manifest[k + 1]
      /\ \A h \in DOMAIN input \ found : more[h] = input[h]
  BY <1>3
<1>5. DOMAIN more \subseteq Hosts(db)
  BY <1>1, <1>4 DEF Mapped, Covers
<1>6. ASSUME hosts = Hosts(db) PROVE Mapped(more, k + 1)
  <2> DEFINE Placed(h) ==
               /\ h \in DOMAIN more <=> \E i \in 1..(k + 1) : Matches(i, h)
               /\ h \in DOMAIN more => \E i \in 1..(k + 1) : SpecOf(i, k + 1, h)
               /\ h \in DOMAIN more => \A i \in 1..(k + 1) : SpecOf(i, k + 1, h) => more[h] = manifest[i]
  <2> SUFFICES ASSUME Complete, NEW h \in Hosts(began) PROVE Placed(h)
    <3>1. Complete => \A h \in Hosts(began) : Placed(h)
      OBVIOUS
    <3>2. Covers(DOMAIN more, k + 1)
      BY <1>5, <3>1 DEF Covers
    <3> QED
      BY <3>1, <3>2 DEF Mapped
  <2>1. 1..(k + 1) = (1..k) \cup {k + 1} /\ k + 1 \notin 1..k /\ \A i \in 1..k : k + 1 > i /\ ~(i > k + 1)
    OBVIOUS
  <2>2. /\ h \in found <=> Matches(k + 1, h)
        /\ h \in DOMAIN input <=> \E i \in 1..k : Matches(i, h)
    BY <1>1, <1>6 DEF Mapped, Covers, ScansSound, Grown
  <2>3. h \in DOMAIN more <=> \E i \in 1..(k + 1) : Matches(i, h)
    BY <1>4, <2>1, <2>2
  <2>4. CASE Matches(k + 1, h)
    <3>1. more[h] = manifest[k + 1]
      BY <1>4, <2>2, <2>4
    <3>2. SpecOf(k + 1, k + 1, h)
      BY <2>1, <2>4 DEF SpecOf
    <3>3. ASSUME NEW i, SpecOf(i, k + 1, h) PROVE i = k + 1
      BY <2>1, <2>4, <3>3 DEF SpecOf
    <3> QED
      BY <2>1, <2>3, <3>1, <3>2, <3>3
  <2>5. CASE ~Matches(k + 1, h)
    <3>1. \A i : SpecOf(i, k + 1, h) <=> SpecOf(i, k, h)
      BY <2>1, <2>5 DEF SpecOf
    <3>2. ASSUME h \in DOMAIN more
          PROVE  /\ \E i \in 1..(k + 1) : SpecOf(i, k + 1, h)
                 /\ \A i \in 1..(k + 1) : SpecOf(i, k + 1, h) => more[h] = manifest[i]
      <4>1. h \in DOMAIN input /\ more[h] = input[h]
        BY <1>4, <2>2, <2>5, <3>2
      <4>2. \E i \in 1..k : SpecOf(i, k, h)
        BY <4>1 DEF Mapped, Covers
      <4>3. \A i \in 1..k : SpecOf(i, k, h) => input[h] = manifest[i]
        BY <4>1 DEF Mapped
      <4>4. \A i : SpecOf(i, k, h) => i \in 1..k
        BY DEF SpecOf
      <4> QED
        BY <2>1, <3>1, <4>1, <4>2, <4>3, <4>4
    <3> QED
      BY <2>3, <3>2
  <2> QED
    BY <2>4, <2>5
<1> QED
  BY <1>2, <1>5, <1>6

\* An audit that goes on has a valid manifest and no result.
LEMMA GoesOn ==
    ASSUME Inv, audit # NoAudit
    PROVE  /\ validate(manifest) /\ result = NoResult
           /\ UNCHANGED <<manifest, result>> => ResultSound'
<1>1. validate(manifest) /\ result = NoResult
  BY DEF Inv, ResultSound
<1> QED
  BY <1>1 DEF ResultSound

\* The query of a spec, read to the end or not.
LEMMA MapSpecInv ==
    ASSUME Inv, NEW hosts \in SUBSET Hosts(db), MapFrom(hosts),
           (hosts = Hosts(db) /\ UNCHANGED readErrors) \/ BreaksOff
    PROVE  Inv'
<1>1. PICK k, input : k = audit.specs /\ input = audit.input
  OBVIOUS
<1>2. audit.pc = "map" /\ UNCHANGED <<db, manifest, result, from, began>>
  BY DEF MapFrom
<1>3. /\ audit = [pc |-> "map", specs |-> k, input |-> input]
      /\ k \in 0..Len(manifest) /\ Mapped(input, k) /\ audit # NoAudit
  BY <1>1, <1>2, NoAuditIdle DEF Inv, AuditSound
<1>4. k < Len(manifest) /\ k \in Nat /\ k + 1 \in 0..Len(manifest)
  BY <1>1, <1>3, ManifestShape DEF MapFrom, Inv
<1>5. PICK more : more = mapHostnameToSpec(hosts, manifest[k + 1], input)
  OBVIOUS
<1>6. audit' = [audit EXCEPT !.specs = @ + 1, !.input = more]
  BY <1>1, <1>5 DEF MapFrom
<1>7. audit' = [pc |-> "map", specs |-> k + 1, input |-> more]
  BY <1>3, <1>6
<1>8. /\ audit'.pc = "map" /\ audit'.specs = k + 1 /\ audit'.input = more
      /\ audit' = [pc |-> "map", specs |-> audit'.specs, input |-> audit'.input]
  BY <1>7
<1>9. /\ Frame /\ readErrors' \in 0..MaxReadErrors
      /\ hosts # Hosts(db) => ~Complete'
  BY <1>2, Breaks DEF Inv, ScansSound, Frame, Complete
<1>10. Mapped(more, k + 1)'
  <2>1. DOMAIN more \subseteq Hosts(db) /\ (hosts = Hosts(db) => Mapped(more, k + 1))
    BY <1>3, <1>4, <1>5, MappedMore DEF Inv
  <2>2. CASE hosts = Hosts(db)
    BY <1>9, <2>1, <2>2, FrameKept
  <2>3. CASE hosts # Hosts(db)
    BY <1>2, <1>9, <2>1, <2>3 DEF Mapped, Covers
  <2> QED
    BY <2>2, <2>3
<1>11. AuditSound'
  BY <1>2, <1>4, <1>8, <1>10 DEF AuditSound
<1>12. ScansSound' /\ ResultSound'
  BY <1>2, <1>3, <1>9, ScansKept, GoesOn DEF Inv
<1> QED
  BY <1>11, <1>12 DEF Inv

LEMMA LookForHostsInv ==
    ASSUME Inv, NEW hosts \in SUBSET Hosts(db), LookIn(hosts),
           (hosts = Hosts(db) /\ UNCHANGED readErrors) \/ BreaksOff
    PROVE  Inv'
<1>1. PICK input : input = audit.input
  OBVIOUS
<1>2. audit.pc = "map" /\ audit.specs = Len(manifest) /\ UNCHANGED <<db, manifest, result, from, began>>
  BY DEF LookIn
<1>3. Mapped(input, Len(manifest)) /\ audit # NoAudit
  BY <1>1, <1>2, NoAuditIdle DEF Inv, AuditSound
<1>4. PICK extra, missing :
         /\ extra = ExtraHosts(hosts, manifest)
         /\ missing = {s.prefix : s \in {x \in ToSet(manifest) : \A h \in hosts : <<x.prefix, h>> \notin HasPrefix}}
  OBVIOUS
<1>5. PICK none : none = [h \in DOMAIN input |-> <<>>]
  OBVIOUS
<1>6. audit' = [pc |-> "hosts", input |-> input, hosts |-> none, extra |-> extra, missing |-> missing]
  BY <1>1, <1>4, <1>5 DEF LookIn, lookForMissingAndExtraHosts
<1>7. /\ audit'.pc = "hosts" /\ audit'.input = input /\ audit'.hosts = none
      /\ audit'.extra = extra /\ audit'.missing = missing
      /\ audit' = [pc |-> "hosts", input |-> audit'.input, hosts |-> audit'.hosts,
                   extra |-> audit'.extra, missing |-> audit'.missing]
      /\ audit'.hosts = [h \in DOMAIN audit'.input |-> audit'.hosts[h]]
  BY <1>5, <1>6
<1>8. /\ Frame /\ readErrors' \in 0..MaxReadErrors
      /\ hosts # Hosts(db) => ~Complete'
  BY <1>2, Breaks DEF Inv, ScansSound, Frame, Complete
<1>9. HostsKnown(extra, missing)'
  <2>1. CASE hosts = Hosts(db)
    <3>1. extra \subseteq Hosts(db)
      BY <1>4, <2>1 DEF ExtraHosts
    <3>2. \A h \in Hosts(began) : h \in extra <=> \A s \in ToSet(manifest) : <<s.prefix, h>> \notin HasPrefix
      BY <1>4, <2>1 DEF ExtraHosts, Inv, ScansSound, Grown
    <3>3. missing = {} <=> PrefixesFound(db)
      <4>1. missing = {} <=> \A x \in ToSet(manifest) : \E h \in Hosts(db) : <<x.prefix, h>> \in HasPrefix
        BY <1>4, <2>1
      <4>2. \A x : x \in ToSet(manifest) <=> \E i \in DOMAIN manifest : manifest[i] = x
        BY DEF ToSet
      <4> QED
        BY <4>1, <4>2 DEF PrefixesFound
    <3>4. HostsKnown(extra, missing)
      BY <3>1, <3>2, <3>3 DEF HostsKnown
    <3> QED
      BY <1>8, <3>4, FrameKept
  <2>2. CASE hosts # Hosts(db)
    BY <1>8, <2>2 DEF HostsKnown
  <2> QED
    BY <2>1, <2>2
<1>10. Told(none)'
  BY <1>5 DEF Told
<1>11. AuditSound'
  <2>1. Mapped(input, Len(manifest))'
    BY <1>3, <1>8, FrameKept DEF Frame
  <2> QED
    BY <1>2, <1>7, <1>9, <1>10, <2>1 DEF AuditSound
<1>12. ScansSound' /\ ResultSound'
  BY <1>2, <1>3, <1>8, ScansKept, GoesOn DEF Inv
<1> QED
  BY <1>11, <1>12 DEF Inv

\* The state of an audit that looks at the hosts.
LEMMA AtHosts ==
    ASSUME Inv, audit.pc = "hosts"
    PROVE  /\ audit # NoAudit
           /\ audit = [pc |-> "hosts", input |-> audit.input, hosts |-> audit.hosts,
                       extra |-> audit.extra, missing |-> audit.missing]
           /\ audit.hosts = [h \in DOMAIN audit.input |-> audit.hosts[h]]
           /\ Mapped(audit.input, Len(manifest)) /\ Told(audit.hosts)
           /\ HostsKnown(audit.extra, audit.missing)
BY NoAuditIdle DEF Inv, AuditSound

\* One query of a host, read to the end or not.
LEMMA RunQueryInv ==
    ASSUME Inv, NEW h, NEW q, NEW rows, Due(h, q), Had(h, q, rows),
           \/ rows = Rows(db, h, audit.input[h], q) /\ UNCHANGED readErrors
           \/ BreaksOff
    PROVE  Inv'
<1>1. PICK input, hosts, extra, missing :
         /\ input = audit.input /\ hosts = audit.hosts
         /\ extra = audit.extra /\ missing = audit.missing
  OBVIOUS
<1>2. /\ audit.pc = "hosts" /\ h \in DOMAIN input /\ q \in auditHost(input[h])
      /\ UNCHANGED <<db, manifest, result, from, began>>
  BY <1>1 DEF Due, Had, Todo
<1>3. /\ audit # NoAudit
      /\ audit = [pc |-> "hosts", input |-> input, hosts |-> hosts, extra |-> extra, missing |-> missing]
      /\ hosts = [g \in DOMAIN input |-> hosts[g]]
      /\ Mapped(input, Len(manifest)) /\ Told(hosts) /\ HostsKnown(extra, missing)
  BY <1>1, <1>2, AtHosts
<1>4. PICK had : had = [r \in DOMAIN hosts[h] \cup {q} |-> IF r = q THEN rows ELSE hosts[h][r]]
  OBVIOUS
<1>5. PICK more : more = [hosts EXCEPT ![h] = had]
  OBVIOUS
<1>6. audit' = [audit EXCEPT !.hosts = more]
  <2>1. audit' = [audit EXCEPT !.hosts = [@ EXCEPT ![h] = had]]
    BY <1>1, <1>3, <1>4 DEF Had
  <2> QED
    BY <1>3, <1>5, <2>1
<1>7. audit' = [pc |-> "hosts", input |-> input, hosts |-> more, extra |-> extra, missing |-> missing]
  BY <1>3, <1>6
<1>8. /\ more = [g \in DOMAIN input |-> more[g]]
      /\ more[h] = had /\ \A g \in DOMAIN input \ {h} : more[g] = hosts[g]
  BY <1>2, <1>3, <1>5
<1>9. /\ audit'.pc = "hosts" /\ audit'.input = input /\ audit'.hosts = more
      /\ audit'.extra = extra /\ audit'.missing = missing
      /\ audit' = [pc |-> "hosts", input |-> audit'.input, hosts |-> audit'.hosts,
                   extra |-> audit'.extra, missing |-> audit'.missing]
      /\ audit'.hosts = [g \in DOMAIN audit'.input |-> audit'.hosts[g]]
  BY <1>7, <1>8
<1>10. /\ Frame /\ readErrors' \in 0..MaxReadErrors
       /\ rows # Rows(db, h, input[h], q) => ~Complete'
  BY <1>1, <1>2, Breaks DEF Inv, ScansSound, Frame, Complete
<1>11. Told(more)'
  <2>1. CASE rows = Rows(db, h, input[h], q)
    <3>1. Told(more)
      <4> SUFFICES ASSUME Complete, NEW g \in Hosts(began) \cap DOMAIN more, NEW i \in 1..Len(manifest),
                          SpecOf(i, Len(manifest), g), NEW r \in DOMAIN more[g]
                   PROVE  Sound(g, manifest[i], r, more[g][r])
        BY DEF Told
      <4>1. g \in DOMAIN input /\ g \in DOMAIN hosts
        BY <1>3, <1>8
      <4>2. CASE g = h /\ r = q
        <5>1. input[h] = manifest[i]
          BY <1>2, <1>3, <4>2 DEF Mapped
        <5>2. more[g][r] = Rows(db, h, manifest[i], q)
          BY <1>4, <1>8, <2>1, <4>2, <5>1
        <5>3. ProcessesOn(began, h) \subseteq ProcessesOn(db, h)
          BY DEF Inv, ScansSound, Grown
        <5>4. q \in auditHost(manifest[i])
          BY <1>2, <5>1
        <5>5. ReadInLoop(q) => Rows(began, h, manifest[i], q) \subseteq Rows(db, h, manifest[i], q)
          BY <5>3, <5>4, MoreRows
        <5> QED
          BY <4>2, <5>2, <5>4, <5>5 DEF Sound
      <4>3. CASE ~(g = h /\ r = q)
        <5>1. r \in DOMAIN hosts[g] /\ more[g][r] = hosts[g][r]
          BY <1>4, <1>8, <4>1, <4>3
        <5> QED
          BY <1>3, <4>1, <5>1 DEF Told
      <4> QED
        BY <4>2, <4>3
    <3> QED
      BY <1>10, <3>1, FrameKept
  <2>2. CASE rows # Rows(db, h, input[h], q)
    BY <1>10, <2>2 DEF Told
  <2> QED
    BY <2>1, <2>2
<1>12. AuditSound'
  <2>1. Mapped(input, Len(manifest))' /\ HostsKnown(extra, missing)'
    BY <1>3, <1>10, FrameKept DEF Frame
  <2> QED
    BY <1>2, <1>9, <1>11, <2>1 DEF AuditSound
<1>13. ScansSound' /\ ResultSound'
  BY <1>2, <1>3, <1>10, ScansKept, GoesOn DEF Inv
<1> QED
  BY <1>12, <1>13 DEF Inv

LEMMA ShowReportInv == ASSUME Inv, ShowReport PROVE Inv'
<1>1. PICK input, hosts, extra, missing :
         /\ input = audit.input /\ hosts = audit.hosts
         /\ extra = audit.extra /\ missing = audit.missing
  OBVIOUS
<1>2. /\ audit.pc = "hosts" /\ audit' = NoAudit
      /\ \A h \in DOMAIN input : auditHost(input[h]) \subseteq DOMAIN hosts[h]
      /\ result' = [status |-> "audited", extra |-> extra, missing |-> missing, hosts |-> hosts]
      /\ UNCHANGED <<db, manifest, from, began, readErrors>>
  BY <1>1 DEF ShowReport, Todo
<1>3. /\ audit # NoAudit /\ Mapped(input, Len(manifest)) /\ Told(hosts) /\ HostsKnown(extra, missing)
      /\ DOMAIN hosts = DOMAIN input
  <2>1. hosts = [h \in DOMAIN input |-> hosts[h]]
    BY <1>1, <1>2, AtHosts
  <2> QED
    BY <1>1, <1>2, <2>1, AtHosts
<1>4. Covers(DOMAIN hosts, Len(manifest)) /\ Asked(hosts)
  BY <1>2, <1>3 DEF Mapped, Asked
<1>5. Frame
  BY <1>2 DEF Frame, Complete
<1>6. Covers(DOMAIN hosts, Len(manifest))' /\ Told(hosts)' /\ Asked(hosts)' /\ HostsKnown(extra, missing)'
  BY <1>3, <1>4, <1>5, FrameKept DEF Frame
<1>7. /\ result'.status = "audited" /\ result'.extra = extra /\ result'.missing = missing
      /\ result'.hosts = hosts
      /\ result' = [status |-> "audited", extra |-> result'.extra, missing |-> result'.missing,
                    hosts |-> result'.hosts]
  BY <1>2
<1>8. validate(manifest')
  BY <1>2, <1>3, GoesOn
<1>9. ResultSound'
  BY <1>2, <1>6, <1>7, <1>8 DEF ResultSound
<1>10. ScansSound' /\ AuditSound'
  BY <1>2, <1>5, ScansKept DEF Inv, ScansSound, AuditSound
<1> QED
  BY <1>9, <1>10 DEF Inv

\* A report that is saved during an audit only adds rows.
LEMMA SaveReportInv == ASSUME Inv, SaveReport PROVE Inv'
<1>1. /\ db' \in Scans /\ Extends(db', db) /\ audit # NoAudit
      /\ UNCHANGED <<manifest, audit, result, from, began, readErrors>>
  BY DEF SaveReport
<1>2. /\ Hosts(db) \subseteq Hosts(db') /\ Len(db.hosts) <= Len(db'.hosts) /\ db.procs \subseteq db'.procs
      /\ Len(db.hosts) < Len(db'.hosts) \/ db.procs # db'.procs
      /\ \A h : ProcessesOn(db, h) \subseteq ProcessesOn(db', h)
  BY <1>1, SavedIsMore DEF Inv, ScansSound
<1>3. Grown /\ db \in Scans /\ began \in Scans
  BY DEF Inv, ScansSound
<1>4. Grown' /\ began # db'
  <2>1. Len(db.hosts) \in Nat /\ Len(db'.hosts) \in Nat /\ Len(began.hosts) \in Nat
    BY <1>1, <1>3, ScanShape
  <2>2. ASSUME began = db' PROVE FALSE
    BY <1>2, <1>3, <2>1, <2>2 DEF Grown
  <2>3. \A h : ProcessesOn(began, h) \subseteq ProcessesOn(db', h)
    BY <1>2, <1>3 DEF Grown
  <2>4. /\ Hosts(began) \subseteq Hosts(db') /\ Len(began.hosts) <= Len(db'.hosts)
        /\ began.procs \subseteq db'.procs
    BY <1>2, <1>3, <2>1 DEF Grown
  <2> QED
    BY <1>1, <2>2, <2>3, <2>4 DEF Grown
<1>5. ScansSound'
  BY <1>1, <1>4 DEF Inv, ScansSound
<1>6. \A i, k, h : (SpecOf(i, k, h)' <=> SpecOf(i, k, h)) /\ (Matches(i, h)' <=> Matches(i, h))
  BY <1>1 DEF SpecOf, Matches
<1>7. ASSUME NEW input, NEW k, Mapped(input, k) PROVE Mapped(input, k)'
  <2>1. Covers(DOMAIN input, k)'
    BY <1>1, <1>2, <1>6, <1>7 DEF Mapped, Covers, Complete
  <2> QED
    BY <1>1, <1>6, <1>7, <2>1 DEF Mapped, Complete
<1>8. ASSUME NEW hosts, Told(hosts) PROVE Told(hosts)'
  <2>1. ASSUME NEW h, NEW spec, NEW q, NEW rows, Sound(h, spec, q, rows) PROVE Sound(h, spec, q, rows)'
    <3>1. ~ReadInLoop(q) => Rows(db', h, spec, q) \subseteq Rows(db, h, spec, q)
      BY <1>2, <2>1, MoreRows DEF Sound
    <3> QED
      BY <1>1, <1>4, <2>1, <3>1 DEF Sound
  <2> QED
    BY <1>1, <1>6, <1>8, <2>1 DEF Told, Complete
<1>9. ASSUME NEW extra, NEW missing, HostsKnown(extra, missing) PROVE HostsKnown(extra, missing)'
  <2>1. PrefixesFound(db) => PrefixesFound(db)'
    BY <1>1, <1>2 DEF PrefixesFound
  <2> QED
    BY <1>1, <1>2, <1>4, <1>9, <2>1 DEF HostsKnown, Complete
<1>10. AuditSound'
  <2>1. CASE audit.pc = "map"
    <3>1. /\ audit = [pc |-> "map", specs |-> audit.specs, input |-> audit.input]
          /\ audit.specs \in 0..Len(manifest) /\ Mapped(audit.input, audit.specs)
      BY <1>1, <2>1 DEF Inv, AuditSound
    <3>2. PICK k, input : k = audit.specs /\ input = audit.input
      OBVIOUS
    <3>3. Mapped(input, k)'
      BY <1>7, <3>1, <3>2
    <3>4. audit' = audit /\ manifest' = manifest
      BY <1>1
    <3> QED
      BY <2>1, <3>1, <3>2, <3>3, <3>4 DEF AuditSound
  <2>2. CASE audit.pc = "hosts"
    <3>1. PICK input, hosts, extra, missing, k :
             /\ input = audit.input /\ hosts = audit.hosts
             /\ extra = audit.extra /\ missing = audit.missing /\ k = Len(manifest)
      OBVIOUS
    <3>2. /\ audit = [pc |-> "hosts", input |-> audit.input, hosts |-> audit.hosts,
                       extra |-> audit.extra, missing |-> audit.missing]
          /\ audit.hosts = [h \in DOMAIN audit.input |-> audit.hosts[h]]
          /\ Mapped(input, k) /\ Told(hosts) /\ HostsKnown(extra, missing)
      BY <2>2, <3>1, AtHosts
    <3>3. Mapped(input, k)' /\ Told(hosts)' /\ HostsKnown(extra, missing)'
      BY <1>7, <1>8, <1>9, <3>2
    <3>4. audit' = audit /\ k = Len(manifest')
      BY <1>1, <3>1
    <3> QED
      BY <2>2, <3>1, <3>2, <3>3, <3>4 DEF AuditSound
  <2> QED
    BY <1>1, <2>1, <2>2 DEF Inv, AuditSound
<1>11. ResultSound'
  BY <1>1, GoesOn
<1> QED
  BY <1>5, <1>10, <1>11 DEF Inv

LEMMA GenerateInv == ASSUME Inv, GenerateManifest \/ GenerateTruncated PROVE Inv'
<1>1. /\ audit' = NoAudit /\ result' = NoResult /\ db' = db /\ began' = db' /\ readErrors' = 0
      /\ db \in Scans
  BY DEF GenerateManifest, GenerateTruncated, Inv, ScansSound
<1>2. CASE GenerateManifest
  <2>1. manifest' = Generated(db) /\ from' = db
    BY <1>2 DEF GenerateManifest
  <2>2. IsManifest(manifest')
    BY <1>1, <2>1, GeneratedListed
  <2> QED
    BY <1>1, <2>1, <2>2, Restarted DEF Inv
<1>3. CASE GenerateTruncated
  <2>a. PICK n \in 0..Len(db.hosts), read \in SUBSET Listeners(db) :
           \E ports \in [read -> SUBSET UNION {getPortsFor(p) : p \in read}] :
              manifest' = getSpecsFor(db, n, ports)
    BY <1>3 DEF GenerateTruncated
  <2>1. PICK ports : DOMAIN ports = read /\ manifest' = getSpecsFor(db, n, ports)
    BY <2>a
  <2>2. from' = NoManifest
    BY <1>3 DEF GenerateTruncated
  <2>3. n \in Nat
    BY <1>1, ScanShape
  <2>4. DOMAIN ports \subseteq db.procs
    BY <2>a, <2>1 DEF Listeners
  <2>5. IsManifest(manifest')
    BY <1>1, <2>a, <2>1, <2>3, <2>4, SpecsListed
  <2> QED
    BY <1>1, <2>2, <2>5, Restarted DEF Inv
<1> QED
  BY <1>2, <1>3

LEMMA NextInv == Inv /\ [Next]_vars => Inv'
<1> SUFFICES ASSUME Inv, [Next]_vars PROVE Inv'
  OBVIOUS
<1>1. CASE Audit
  <2>1. ASSUME AuditFails PROVE Inv'
    BY <2>1, Restarted DEF AuditFails, Inv, ScansSound
  <2>2. ASSUME MapSpec \/ MapSpecTruncated PROVE Inv'
    <3>1. PICK hosts \in SUBSET Hosts(db) :
             MapFrom(hosts) /\ ((hosts = Hosts(db) /\ UNCHANGED readErrors) \/ BreaksOff)
      BY <2>2 DEF MapSpec, MapSpecTruncated
    <3> QED
      BY <3>1, MapSpecInv
  <2>3. ASSUME LookForHosts \/ LookForHostsTruncated PROVE Inv'
    <3>1. PICK hosts \in SUBSET Hosts(db) :
             LookIn(hosts) /\ ((hosts = Hosts(db) /\ UNCHANGED readErrors) \/ BreaksOff)
      BY <2>3 DEF LookForHosts, LookForHostsTruncated
    <3> QED
      BY <3>1, LookForHostsInv
  <2>4. ASSUME NEW h, NEW q, RunQuery(h, q) \/ RunQueryTruncated(h, q) PROVE Inv'
    <3>1. PICK rows : /\ Due(h, q) /\ Had(h, q, rows)
                      /\ (rows = Rows(db, h, audit.input[h], q) /\ UNCHANGED readErrors) \/ BreaksOff
      BY <2>4 DEF RunQuery, RunQueryTruncated
    <3> QED
      BY <3>1, RunQueryInv
  <2> QED
    BY <1>1, <2>1, <2>2, <2>3, <2>4, RunAuditInv, ShowReportInv DEF Audit
<1>2. CASE GenerateManifest \/ GenerateTruncated
  BY <1>2, GenerateInv
<1>3. CASE Rescan
  BY <1>3, Restarted DEF Rescan, Inv, ScansSound
<1>4. CASE SaveReport
  BY <1>4, SaveReportInv
<1>5. CASE UNCHANGED vars
  <2>1. UNCHANGED <<db, manifest, audit, result, from, began, readErrors>>
    BY <1>5 DEF vars
  <2>2. Frame
    BY <2>1 DEF Frame, Complete
  <2>3. ScansSound'
    BY <2>1, <2>2, ScansKept DEF Inv, ScansSound
  <2>4. AuditSound'
    BY <2>1, <2>2, FrameKept DEF Inv, AuditSound
  <2>5. ResultSound'
    BY <2>1, <2>2, FrameKept DEF Inv, ResultSound
  <2> QED
    BY <2>3, <2>4, <2>5 DEF Inv
<1> QED
  BY <1>1, <1>2, <1>3, <1>4, <1>5 DEF Next

LEMMA Invariant == Spec => []Inv
BY InitInv, NextInv, PTL DEF Spec

-----------------------------------------------------------------------------
(* The properties.                                                         *)

\* For any scans and manifests: the variables keep their types, only a valid
\* manifest is audited, and a result is about hosts of the database.
THEOREM TypeCorrect == Spec => []TypeOK
<1>1. Inv => TypeOK
  <2> SUFFICES ASSUME Inv PROVE TypeOK
    OBVIOUS
  <2>1. audit.pc \in {"idle", "map", "hosts"}
    BY NoAuditIdle DEF Inv, AuditSound
  <2>2. audit # NoAudit => DOMAIN audit.input \subseteq Hosts(db) /\ result = NoResult
    BY GoesOn DEF Inv, AuditSound, Mapped, Covers
  <2>3. /\ result.status \in {"none", "invalid", "failed", "audited"}
        /\ result.status = "audited" => validate(manifest) /\ DOMAIN result.hosts \subseteq Hosts(db)
    BY NoAuditIdle DEF Inv, ResultSound, Covers
  <2> QED
    BY <2>1, <2>2, <2>3 DEF Inv, ScansSound, TypeOK
<1> QED
  BY <1>1, Invariant, PTL

LEMMA Result ==
    ASSUME Inv, Audited
    PROVE  /\ Covers(DOMAIN result.hosts, Len(manifest)) /\ Told(result.hosts) /\ Asked(result.hosts)
           /\ HostsKnown(result.extra, result.missing) /\ validate(manifest)
BY NoAuditIdle DEF Inv, ResultSound, Audited

\* Every host that was there when an audit began shows up in its output, if no
\* query broke off: a host no spec's prefix fits is extra, and every other is
\* audited, because the database finds all hosts of a prefix, if not only those.
THEOREM NobodySkipped == Spec => []NoHostSkipped
<1>1. Inv => NoHostSkipped
  <2> SUFFICES ASSUME Inv, Audited, Complete, NEW h \in Hosts(began)
               PROVE  h \in DOMAIN result.hosts \cup result.extra
    BY DEF NoHostSkipped, Complete
  <2>1. CASE \A s \in ToSet(manifest) : <<s.prefix, h>> \notin HasPrefix
    BY <2>1, Result DEF HostsKnown
  <2>2. CASE \E s \in ToSet(manifest) : <<s.prefix, h>> \in HasPrefix
    <3>1. PICK i \in 1..Len(manifest) : <<manifest[i].prefix, h>> \in HasPrefix
      BY <2>2, ManifestShape DEF Inv
    <3>2. Matches(i, h)
      BY <3>1, LikeAssumption DEF Matches
    <3> QED
      BY <3>2, Result DEF Covers
  <2> QED
    BY <2>1, <2>2
<1> QED
  BY <1>1, Invariant, PTL

LEMMA GoverningSpec ==
    ASSUME ScansSound, NEW h
    PROVE  \A i \in 1..Len(manifest) : Governs(i, h) <=> SpecOf(i, Len(manifest), h)
<1>1. DOMAIN manifest = 1..Len(manifest)
  BY ManifestShape
<1> QED
  BY <1>1 DEF Governs, SpecOf, Matches

LEMMA OKConforms ==
    ASSUME Inv, Audited, Complete, OK(result) PROVE HostsConform(began, db) /\ PrefixesFound(db)
<1>1. DOMAIN manifest = 1..Len(manifest)
  BY ManifestShape DEF Inv
<1>2. /\ result.extra = {} /\ result.missing = {}
      /\ \A h \in DOMAIN result.hosts : \A q \in DOMAIN result.hosts[h] : result.hosts[h][q] = {}
  BY DEF OK
<1>3. PrefixesFound(db)
  BY <1>2, Result DEF HostsKnown
<1>4. ASSUME NEW h \in Hosts(began) PROVE \E i \in DOMAIN manifest : <<manifest[i].prefix, h>> \in HasPrefix
  <2>1. \E s \in ToSet(manifest) : <<s.prefix, h>> \in HasPrefix
    BY <1>2, Result DEF HostsKnown
  <2> QED
    BY <1>1, <2>1, ManifestShape DEF Inv
<1>5. ASSUME NEW h \in Hosts(began), NEW i \in DOMAIN manifest, Governs(i, h)
      PROVE  NothingAmiss(began, h, manifest[i].processes) /\ AllThere(db, h, manifest[i].processes)
  <2>1. i \in 1..Len(manifest) /\ SpecOf(i, Len(manifest), h)
    BY <1>1, <1>5, GoverningSpec DEF Inv
  <2>2. Matches(i, h)
    BY <2>1 DEF SpecOf
  <2>3. h \in DOMAIN result.hosts
    BY <2>1, <2>2, Result DEF Covers
  <2>4. ASSUME NEW q \in auditHost(manifest[i]) PROVE Sound(h, manifest[i], q, {})
    <3>1. q \in DOMAIN result.hosts[h]
      BY <2>1, <2>3, Result DEF Asked
    <3>2. Sound(h, manifest[i], q, result.hosts[h][q])
      BY <2>1, <2>3, <3>1, Result DEF Told
    <3> QED
      BY <1>2, <2>3, <3>1, <3>2
  <2>5. manifest[i].processes \in Seq(ToSet(manifest[i].processes))
    BY <2>1, ManifestShape DEF Inv
  <2>6. /\ \A q \in auditHost(manifest[i]) : ReadInLoop(q) => Rows(began, h, manifest[i], q) = {}
        /\ \A q \in auditHost(manifest[i]) : ~ReadInLoop(q) => Rows(db, h, manifest[i], q) = {}
    BY <2>4 DEF Sound
  <2> QED
    BY <2>5, <2>6, NoneAmiss, NoneMissing
<1> QED
  BY <1>3, <1>4, <1>5 DEF HostsConform

LEMMA ConformsOK ==
    ASSUME Inv, Audited, Complete, began = db, HostsConform(db, db), PrefixesFound(db) PROVE OK(result)
<1>1. DOMAIN manifest = 1..Len(manifest)
  BY ManifestShape DEF Inv
<1>2. result.missing = {} /\ result.extra \subseteq Hosts(db)
  BY Result DEF HostsKnown
<1>3. result.extra = {}
  <2> SUFFICES ASSUME NEW h \in result.extra PROVE FALSE
    OBVIOUS
  <2>1. h \in Hosts(began) /\ \A s \in ToSet(manifest) : <<s.prefix, h>> \notin HasPrefix
    BY <1>2, Result DEF HostsKnown
  <2>2. \E i \in 1..Len(manifest) : <<manifest[i].prefix, h>> \in HasPrefix
    BY <1>1, <2>1 DEF HostsConform
  <2> QED
    BY <2>1, <2>2, ManifestShape DEF Inv
<1>4. ASSUME NEW h \in DOMAIN result.hosts, NEW q \in DOMAIN result.hosts[h] PROVE result.hosts[h][q] = {}
  <2>1. h \in Hosts(began)
    BY Result DEF Covers
  <2>2. PICK i \in 1..Len(manifest) : SpecOf(i, Len(manifest), h)
    BY <2>1, Result DEF Covers
  <2>3. NothingAmiss(db, h, manifest[i].processes) /\ AllThere(db, h, manifest[i].processes)
    BY <1>1, <2>1, <2>2, GoverningSpec DEF HostsConform, Inv
  <2>4. manifest[i].processes \in Seq(ToSet(manifest[i].processes))
    BY ManifestShape DEF Inv
  <2>5. \A r \in auditHost(manifest[i]) : Rows(db, h, manifest[i], r) = {}
    BY <2>3, <2>4, NoneAmiss, NoneMissing
  <2>6. Sound(h, manifest[i], q, result.hosts[h][q])
    BY <2>1, <2>2, Result DEF Told
  <2> QED
    BY <2>5, <2>6 DEF Sound
<1> QED
  BY <1>2, <1>3, <1>4 DEF OK

\* For any scans, manifests and reports saved meanwhile: an audit no query of
\* which broke off says ok only if nothing was amiss on the hosts of its
\* beginning and all that their specs ask for is there by now, and says so
\* whenever that is so and nothing was saved.
THEOREM OKIsConforming == Spec => []OKMeansConforming
<1>1. Inv => OKMeansConforming
  BY OKConforms, ConformsOK DEF OKMeansConforming, Complete
<1> QED
  BY <1>1, Invariant, PTL

-----------------------------------------------------------------------------
(* Generated manifests.                                                    *)

\* The rows of hosts and the specs of a scan whose own manifest is at hand.
LEMMA GeneratedAtHand ==
    ASSUME Inv, from # NoManifest
    PROVE  /\ from \in Scans /\ Len(manifest) \in Nat /\ DOMAIN manifest = 1..Len(manifest)
           /\ DOMAIN from.hosts = 1..Len(manifest) /\ Len(manifest) = Len(from.hosts)
           /\ \A i \in 1..Len(manifest) : /\ manifest[i].prefix = from.hosts[i]
                                          /\ manifest[i].prefix \in Hosts(from)
                                          /\ ToSet(manifest[i].processes) = EntriesOf(from, i)
           /\ \A h \in Hosts(from) : \E i \in 1..Len(manifest) : manifest[i].prefix = h
<1>1. from \in Scans /\ manifest = Generated(from)
  BY DEF Inv, ScansSound
<1> QED
  BY <1>1, GeneratedListed

\* What an entry of a generated manifest stands for.
OnRow(d, i) == {p \in Listeners(d) : p.row = i}

LEMMA EntryOf ==
    ASSUME NEW d, NEW i, NEW e \in EntriesOf(d, i)
    PROVE  \E p \in OnRow(d, i) : /\ e.command = p.name /\ e.user = p.user
                                  /\ e.ports = getPortsFor(p) /\ e.ignore = FALSE
<1>1. DOMAIN PortsOf(d) = Listeners(d) /\ \A p \in Listeners(d) : PortsOf(d)[p] = getPortsFor(p)
  BY DEF PortsOf
<1>2. PICK p \in OnRow(d, i) : e = Entry(p, PortsOf(d))
  BY <1>1 DEF EntriesOf, Entries, OnRow
<1> QED
  BY <1>1, <1>2 DEF Entry, OnRow

LEMMA EntryFor ==
    ASSUME NEW d, NEW p \in Listeners(d)
    PROVE  \E e \in EntriesOf(d, p.row) : /\ e.command = p.name /\ e.user = p.user
                                                 /\ e.ports = getPortsFor(p) /\ e.ignore = FALSE
<1>1. DOMAIN PortsOf(d) = Listeners(d) /\ PortsOf(d)[p] = getPortsFor(p)
  BY DEF PortsOf
<1>2. Entry(p, PortsOf(d)) \in EntriesOf(d, p.row)
  BY <1>1 DEF EntriesOf, Entries
<1>3. PICK e : e = Entry(p, PortsOf(d))
  OBVIOUS
<1>4. e.command = p.name /\ e.user = p.user /\ e.ports = getPortsFor(p) /\ e.ignore = FALSE
  BY <1>1, <1>3 DEF Entry
<1> QED
  BY <1>2, <1>3, <1>4

LEMMA Positions ==
    ASSUME NEW s PROVE \A e : e \in ToSet(s) <=> \E i \in DOMAIN s : s[i] = e
BY DEF ToSet

LEMMA Listens ==
    /\ \A d : \A p : p \in Listeners(d) <=> p \in d.procs /\ getPortsFor(p) # {}
    /\ \A d, i : \A p : p \in OnRow(d, i) <=> p \in Listeners(d) /\ p.row = i
BY DEF Listeners, OnRow

LEMMA GeneratedValid ==
    ASSUME Inv, from = db, Plain(db) PROVE validate(manifest)
<1>1. from # NoManifest
  BY ScanAssumption DEF Inv, ScansSound
<1>2. manifest # <<>>
  <2>1. db.hosts # <<>> /\ db.hosts \in Seq(ToSet(db.hosts))
    BY ScanAssumption DEF Plain, Inv, ScansSound
  <2>2. Len(db.hosts) # 0
    BY <2>1, EmptySeq
  <2>3. Len(manifest) # 0
    BY <1>1, <2>2, GeneratedAtHand
  <2>4. Len(<<>>) = 0
    OBVIOUS
  <2> QED
    BY <2>3, <2>4
<1>3. ASSUME NEW s \in ToSet(manifest)
      PROVE  /\ s.prefix # ""
             /\ \A e \in ToSet(s.processes) : e.command # "" /\ e.user # "" /\ (e.ports # {} \/ e.ignore)
  <2>1. PICK i \in 1..Len(manifest) : manifest[i] = s
    BY <1>1, ManifestShape DEF Inv
  <2>2. s.prefix \in Hosts(db) /\ ToSet(s.processes) = EntriesOf(db, i)
    BY <1>1, <2>1, GeneratedAtHand
  <2>3. s.prefix # ""
    BY <2>2, ScanAssumption DEF Inv, ScansSound, Hosts
  <2>4. ASSUME NEW e \in ToSet(s.processes) PROVE e.command # "" /\ e.user # "" /\ e.ports # {}
    <3>0. e \in EntriesOf(db, i)
      BY <2>2
    <3>1. PICK p \in OnRow(db, i) : e.command = p.name /\ e.user = p.user /\ e.ports = getPortsFor(p)
      BY <3>0, EntryOf
    <3>2. p \in db.procs /\ getPortsFor(p) # {}
      BY Listens
    <3> QED
      BY <3>1, <3>2 DEF Plain
  <2> QED
    BY <2>3, <2>4
<1> QED
  BY <1>2, <1>3 DEF validate

\* Of a plain scan the i-th spec fits the i-th row of hosts.
LEMMA GeneratedConforms ==
    ASSUME NEW d \in Scans, Plain(d), NEW i \in DOMAIN d.hosts, NEW h, h = d.hosts[i],
           NEW P, ToSet(P) = EntriesOf(d, i)
    PROVE  NothingAmiss(d, h, P) /\ AllThere(d, h, P)
<1>1. PICK R : R = ProcessesOn(d, h)
  OBVIOUS
<1>2. \A p : p \in R <=> p \in d.procs /\ p.row = i
  <2>1. <<h, h>> \in Like
    BY ScanAssumption, LikeAssumption DEF ToSet
  <2>2. ASSUME NEW p \in d.procs, d.hosts[p.row] = h PROVE p.row = i
    BY <2>1, <2>2, ScanAssumption DEF Plain
  <2> QED
    BY <1>1, <2>2 DEF ProcessesOn
<1>3. \A k \in DOMAIN P : P[k] \in EntriesOf(d, i)
  BY Positions
<1>4. ASSUME NEW k \in DOMAIN P
      PROVE  /\ \E p \in R : p.name = P[k].command
             /\ \A p \in R : p.name = P[k].command /\ p.ports # {} => p.user = P[k].user
             /\ \A n \in P[k].ports : \E p \in R : \E q \in p.ports : q.number = n
  <2>1. PICK r \in OnRow(d, i) : /\ P[k].command = r.name /\ P[k].user = r.user
                                 /\ P[k].ports = getPortsFor(r)
    BY <1>3, EntryOf
  <2>2. r \in R /\ r.row = i /\ r \in d.procs /\ getPortsFor(r) # {}
    BY <1>2, <2>1, Listens
  <2>3. ASSUME NEW p \in R, p.name = P[k].command, p.ports # {} PROVE p.user = P[k].user
    <3>1. r.row = p.row /\ r.name = p.name /\ p \in d.procs
      BY <1>2, <2>1, <2>2, <2>3
    <3>2. r.user = p.user
      BY <2>2, <2>3, <3>1 DEF Plain
    <3> QED
      BY <2>1, <3>2
  <2>4. ASSUME NEW n \in P[k].ports PROVE \E q \in r.ports : q.number = n
    BY <2>1, <2>4 DEF getPortsFor
  <2> QED
    BY <2>1, <2>2, <2>3, <2>4
<1>5. ASSUME NEW p \in R, NEW q \in p.ports, q.state = "LISTEN", q.address # "127.0.0.1"
      PROVE  \E k \in DOMAIN P : q.number \in P[k].ports
  <2>1. q.number \in getPortsFor(p)
    BY <1>5 DEF getPortsFor, Listening
  <2>2. p \in Listeners(d) /\ p.row = i
    BY <1>2, <2>1, Listens
  <2>3. PICK e \in EntriesOf(d, i) : e.ports = getPortsFor(p)
    BY <2>2, EntryFor
  <2>4. PICK k \in DOMAIN P : P[k] = e
    BY Positions
  <2> QED
    BY <2>1, <2>3, <2>4
<1>6. NothingAmiss(d, h, P)
  BY <1>1, <1>4, <1>5, Zenon DEF NothingAmiss
<1>7. AllThere(d, h, P)
  BY <1>1, <1>4 DEF AllThere
<1> QED
  BY <1>6, <1>7

\* The manifest generated from any plain scan is valid, and the scan passes
\* its audit, if no query breaks off and nothing is added to it meanwhile.
THEOREM GeneratedManifestPasses == Spec => []GeneratedPasses
<1>1. Inv => GeneratedPasses
  <2> SUFFICES ASSUME Inv, from = db, began = db, Plain(db), Complete,
                      result.status \in {"invalid", "audited"}
               PROVE  Passed
    BY DEF GeneratedPasses, Complete
  <2>1. from # NoManifest
    BY ScanAssumption DEF Inv, ScansSound
  <2>2. Audited
    BY GeneratedValid, NoAuditIdle DEF Inv, ResultSound, Audited
  <2>3. DOMAIN manifest = 1..Len(manifest) /\ DOMAIN db.hosts = 1..Len(manifest)
    BY <2>1, GeneratedAtHand
  <2>4. db \in Scans /\ \A g \in Hosts(db) : <<g, g>> \in HasPrefix
    BY ScanAssumption DEF Inv, ScansSound, Hosts
  <2>5. PrefixesFound(db)
    BY <2>1, <2>3, <2>4, GeneratedAtHand DEF PrefixesFound
  <2>6. HostsConform(db, db)
    <3>1. ASSUME NEW h \in Hosts(db) PROVE \E i \in DOMAIN manifest : <<manifest[i].prefix, h>> \in HasPrefix
      BY <2>1, <2>3, <2>4, GeneratedAtHand
    <3>2. ASSUME NEW h \in Hosts(db), NEW i \in DOMAIN manifest, Governs(i, h)
          PROVE  NothingAmiss(db, h, manifest[i].processes) /\ AllThere(db, h, manifest[i].processes)
      <4>1. /\ i \in DOMAIN db.hosts /\ manifest[i].prefix = db.hosts[i]
            /\ ToSet(manifest[i].processes) = EntriesOf(db, i)
        BY <2>1, <2>3, GeneratedAtHand
      <4>2. PICK j \in DOMAIN db.hosts : db.hosts[j] = h
        BY Positions DEF Hosts
      <4>3. i = j
        BY <3>2, <4>1, <4>2 DEF Governs, Plain
      <4> QED
        BY <2>4, <4>1, <4>2, <4>3, GeneratedConforms
    <3> QED
      BY <3>1, <3>2 DEF HostsConform
  <2>7. OK(result)
    BY <2>2, <2>5, <2>6, ConformsOK
  <2> QED
    BY <2>2, <2>7 DEF Passed
<1> QED
  BY <1>1, Invariant, PTL

\* Whatever two scans of a cluster are compared by generate-manifest and audit:
\* if the later one passes and no query broke off, nothing listened that did not
\* listen before, and what listened before runs by now and ran as no other user.
THEOREM DriftIsDetected == Spec => []DriftDetected
<1> DEFINE Old(i) == {p \in from.procs : p.row = i}
<1>1. Inv => DriftDetected
  <2> SUFFICES ASSUME Inv, from # NoManifest, Passed, Complete, NEW h \in Hosts(began)
               PROVE  \E i \in DOMAIN from.hosts :
                         /\ <<from.hosts[i], h>> \in Like
                         /\ UNION {getPortsFor(p) : p \in ProcessesOn(began, h)}
                               \subseteq UNION {getPortsFor(p) : p \in Old(i)}
                         /\ \A p \in Old(i) : getPortsFor(p) # {} =>
                               /\ \E r \in ProcessesOn(db, h) : r.name = p.name
                               /\ \A n \in getPortsFor(p) : \E r \in ProcessesOn(db, h) : \E q \in r.ports : q.number = n
                               /\ \A r \in ProcessesOn(began, h) :
                                     r.name = p.name /\ r.ports # {} => r.user = p.user
    BY DEF DriftDetected, Complete
  <2>1. Audited /\ OK(result) /\ DOMAIN manifest = 1..Len(manifest) /\ DOMAIN from.hosts = 1..Len(manifest)
    BY GeneratedAtHand DEF Passed
  <2>2. HostsConform(began, db)
    BY <2>1, OKConforms
  <2>3. PICK j \in 1..Len(manifest) : <<manifest[j].prefix, h>> \in HasPrefix
    BY <2>1, <2>2 DEF HostsConform
  <2>4. Matches(j, h)
    BY <2>3, LikeAssumption DEF Matches
  <2>5. h \in DOMAIN result.hosts
    BY <2>1, <2>4, Result DEF Covers
  <2>6. PICK i \in 1..Len(manifest) : SpecOf(i, Len(manifest), h)
    BY <2>1, <2>5, Result DEF Covers
  <2>7. NothingAmiss(began, h, manifest[i].processes) /\ AllThere(db, h, manifest[i].processes)
    BY <2>1, <2>2, <2>6, GoverningSpec DEF HostsConform, Inv
  <2>8. PICK P, R, N : P = manifest[i].processes /\ R = ProcessesOn(began, h) /\ N = ProcessesOn(db, h)
    OBVIOUS
  <2>9. i \in DOMAIN from.hosts /\ ToSet(P) = EntriesOf(from, i) /\ <<from.hosts[i], h>> \in Like
    BY <2>1, <2>6, <2>8, GeneratedAtHand DEF SpecOf, Matches
  <2>10. \A k \in DOMAIN P : P[k] \in EntriesOf(from, i)
    BY <2>9, Positions
  <2>11. /\ \A k \in DOMAIN P : /\ \E p \in N : p.name = P[k].command
                                /\ \A n \in P[k].ports : \E p \in N : \E q \in p.ports : q.number = n
         /\ \A p \in R : /\ \A k \in DOMAIN P : p.name = P[k].command /\ p.ports # {} => p.user = P[k].user
                         /\ \A q \in p.ports :
                               \/ q.state # "LISTEN" \/ q.address = "127.0.0.1"
                               \/ \E k \in DOMAIN P : q.number \in P[k].ports
                               \/ \E k \in DOMAIN P : P[k].ignore
    BY <2>7, <2>8 DEF NothingAmiss, AllThere
  <2>12. ASSUME NEW p \in R, NEW n \in getPortsFor(p)
         PROVE  \E r \in Old(i) : n \in getPortsFor(r)
    <3>1. PICK q \in p.ports : q.number = n /\ q.state = "LISTEN" /\ q.address # "127.0.0.1"
      BY DEF getPortsFor, Listening
    <3>2. \A k \in DOMAIN P : P[k].ignore = FALSE
      BY <2>10, EntryOf
    <3>3. PICK k \in DOMAIN P : n \in P[k].ports
      BY <2>11, <3>1, <3>2
    <3>4. PICK r \in OnRow(from, i) : P[k].ports = getPortsFor(r)
      BY <2>10, EntryOf
    <3> QED
      BY <3>3, <3>4, Listens
  <2>13. ASSUME NEW p \in Old(i), getPortsFor(p) # {}
         PROVE  /\ \E r \in N : r.name = p.name
                /\ \A n \in getPortsFor(p) : \E r \in N : \E q \in r.ports : q.number = n
                /\ \A r \in R : r.name = p.name /\ r.ports # {} => r.user = p.user
    <3>1. p \in Listeners(from) /\ p.row = i
      BY <2>13, Listens
    <3>2. PICK e \in EntriesOf(from, i) : e.command = p.name /\ e.user = p.user /\ e.ports = getPortsFor(p)
      BY <3>1, EntryFor
    <3>3. PICK k \in DOMAIN P : P[k] = e
      BY <2>9, Positions
    <3> QED
      BY <2>11, <3>2, <3>3
  <2>14. UNION {getPortsFor(p) : p \in R} \subseteq UNION {getPortsFor(p) : p \in Old(i)}
    BY <2>12
  <2> QED
    BY <2>8, <2>9, <2>13, <2>14
<1> QED
  BY <1>1, Invariant, PTL
=============================================================================
