--------------------------- MODULE DatabaseProofs ---------------------------
(***************************************************************************)
(* Proofs about the database file, for any commands with any reports, and  *)
(* for the report command that reads the file while they run.              *)
(*                                                                         *)
(* Nothing but the file itself keeps two commands apart that both found it *)
(* missing: the first CREATE TABLE to succeed decides, the other command   *)
(* fails there at the latest.  From then on the tables are exactly those   *)
(* of the statements the one command has done (InOrder), the version is    *)
(* the last thing it inserts, and only it may have a transaction.          *)
(***************************************************************************)
EXTENDS Reports, FiniteSetTheorems, SequenceTheorems, WellFoundedInduction, TLAPS

Pcs == {"start", "create", "scan", "save", "succeeded", "failed"}

\* The tables the first n statements of createDDL make.
Made(n) == {Tables[i] : i \in 1..n}

CommandOK ==
    /\ cmd \in [Command -> [pc : Pcs, ddl : 0..17, left : SUBSET Report]]
    /\ \A c \in Command : cmd[c].left \subseteq Batch[c]
    /\ tx = [c \in Command |-> tx[c]]

\* How far a command has come tells how many statements it has done.
Progress ==
    \A c \in Command :
       /\ cmd[c].pc = "start" => cmd[c].ddl = 0
       /\ cmd[c].pc = "create" => cmd[c].ddl < 17
       /\ cmd[c].pc \in {"scan", "save"} => cmd[c].ddl = 17

\* The version an older scantron left behind, and the one this one inserts.
Outdated == <<SchemaVersion - 1>>
Current == <<SchemaVersion>>

\* Whoever did the first statement is alone, and what the file holds is what
\* that command has done.
InOrder ==
    /\ version \in {<<>>, Outdated, Current}
    /\ schema \subseteq Made(16)
    /\ version = Current => schema = Made(16)
    /\ "deployments" \notin schema => schema = {} /\ version = <<>>
    /\ \A c \in Command : cmd[c].ddl > 0 => "deployments" \in schema /\ version # Outdated
    /\ \A c \in Command : cmd[c].pc = "create" /\ cmd[c].ddl > 0 =>
          schema = Made(cmd[c].ddl) /\ version = <<>>
    /\ \A c \in Command : cmd[c].ddl = 17 => version = Current
    /\ \A c, d \in Command : cmd[c].ddl > 0 /\ cmd[d].ddl > 0 => c = d

ReaderSound == reader \in {"closed", "open", "refused"} /\ (reader = "open" => version = Current)

\* A transaction holds the committed rows, and its own.
TxSound ==
    \A c \in Command :
       IF cmd[c].pc = "save"
       THEN /\ DOMAIN tx[c] = {"report", "left", "rows", "go"}
            /\ tx[c].report \in Batch[c]
            /\ rows \subseteq tx[c].rows
       ELSE tx[c] = NoTx

Inv == CommandOK /\ Progress /\ InOrder /\ ReaderSound /\ TxSound

-----------------------------------------------------------------------------
(* The statements of createDDL.                                            *)

LEMMA TableCount == Len(Tables) = 16 /\ DOMAIN Tables = 1..16
BY DEF Tables

LEMMA TableNames == Tables[1] = "deployments" /\ \A i \in 1..16 : Tables[i] # "INSERT version"
<1>2. /\ Tables[1] = "deployments" /\ Tables[2] = "hosts" /\ Tables[3] = "processes"
      /\ Tables[4] = "ports" /\ Tables[5] = "tls_certificates" /\ Tables[6] = "tls_scan_errors"
      /\ Tables[7] = "tls_suites" /\ Tables[8] = "tls_ciphers"
      /\ Tables[9] = "certificate_to_ciphersuite" /\ Tables[10] = "env_vars"
      /\ Tables[11] = "files" /\ Tables[12] = "ssh_keys" /\ Tables[13] = "version"
      /\ Tables[14] = "releases" /\ Tables[15] = "regexes" /\ Tables[16] = "file_to_regex"
  BY DEF Tables
<1>3. \A i \in 1..16 : Tables[i] # "INSERT version"
  <2> TAKE i \in 1..16
  <2>1. \/ i = 1 \/ i = 2 \/ i = 3 \/ i = 4 \/ i = 5 \/ i = 6 \/ i = 7 \/ i = 8
        \/ i = 9 \/ i = 10 \/ i = 11 \/ i = 12 \/ i = 13 \/ i = 14 \/ i = 15 \/ i = 16
    OBVIOUS
  <2> QED
    BY <1>2, <2>1, Zenon
<1> QED
  BY <1>2, <1>3

LEMMA TablesMade == Tables \in Seq(Made(16)) /\ ToSet(Tables) = Made(16)
<1>1. Tables = [i \in 1..16 |-> Tables[i]]
  BY TableCount DEF Tables
<1>2. Tables \in [1..16 -> Made(16)]
  BY <1>1 DEF Made
<1>3. Tables \in Seq(Made(16))
  BY <1>2, SeqDef
<1> QED
  BY <1>3, TableCount DEF ToSet, Made

LEMMA MadeTables ==
    /\ Made(0) = {}
    /\ \A n \in 1..16 : "deployments" \in Made(n)
    /\ \A n \in 0..15 : Made(n + 1) = Made(n) \cup {Tables[n + 1]}
    /\ \A n \in 0..16 : Made(n) \subseteq Made(16)
<1>1. \A n \in 1..16 : 1 \in 1..n
  OBVIOUS
<1>2. \A n \in 1..16 : Tables[1] \in Made(n)
  BY <1>1 DEF Made
<1>3. \A n \in 0..15 : 1..(n + 1) = (1..n) \cup {n + 1}
  OBVIOUS
<1>4. ASSUME NEW n \in 0..15 PROVE Made(n + 1) = Made(n) \cup {Tables[n + 1]}
  BY <1>3 DEF Made
<1>5. \A n \in 0..16 : 1..n \subseteq 1..16
  OBVIOUS
<1>6. \A n \in 0..16 : Made(n) \subseteq Made(16)
  BY <1>5 DEF Made
<1>7. Made(0) = {}
  BY DEF Made
<1> QED
  BY <1>2, <1>4, <1>6, <1>7, TableNames

LEMMA OneMore ==
    ASSUME NEW S, NEW s \in Seq(S), NEW x \in S
    PROVE  /\ Len(s \o <<x>>) = Len(s) + 1
           /\ \A i \in 1..Len(s) : (s \o <<x>>)[i] = s[i]
           /\ (s \o <<x>>)[Len(s) + 1] = x
BY AppendIsConcat, AppendProperties

LEMMA Statement ==
    /\ Len(createDDL) = 17
    /\ \A i \in 1..16 : createDDL[i] = Tables[i]
    /\ createDDL[17] = "INSERT version"
<1>1. PICK S : S = Made(16) \cup {"INSERT version"}
  OBVIOUS
<1>2. Made(16) \subseteq S /\ "INSERT version" \in S
  BY <1>1
<1>5. Tables \in Seq(S)
  BY <1>2, TablesMade, SeqMonotonic
<1>3. /\ Len(createDDL) = Len(Tables) + 1
      /\ \A i \in 1..Len(Tables) : createDDL[i] = Tables[i]
      /\ createDDL[Len(Tables) + 1] = "INSERT version"
  BY <1>2, <1>5, OneMore, Zenon DEF createDDL
<1>4. Len(Tables) + 1 = 17
  BY TableCount
<1> QED
  BY <1>3, <1>4, TableCount

LEMMA VersionsDiffer == Current # Outdated /\ Current # <<>> /\ Outdated # <<>>
BY DEF SchemaVersion, Current, Outdated

LEMMA Versions ==
    /\ Append(<<>>, SchemaVersion) = Current /\ Len(Current) = 1
    /\ Head(Outdated) # SchemaVersion /\ Head(Current) = SchemaVersion
    /\ {<<>>, Outdated, Current} \subseteq Seq(Nat)
BY DEF SchemaVersion, Current, Outdated

-----------------------------------------------------------------------------

LEMMA InitInv == Init => Inv
<1> SUFFICES ASSUME Init PROVE Inv
  OBVIOUS
<1>1. \A c \in Command : cmd[c] = [pc |-> "start", ddl |-> 0, left |-> Batch[c]] /\ tx[c] = NoTx
  BY DEF Init
<1>2. CommandOK
  BY <1>1 DEF Init, CommandOK, Pcs, Report
<1>3. Progress /\ ReaderSound /\ TxSound
  BY <1>1 DEF Init, Progress, ReaderSound, TxSound
<1>4. /\ version \in {<<>>, Outdated} /\ schema \subseteq Made(16)
      /\ "deployments" \notin schema => schema = {} /\ version = <<>>
  <2>1. CASE schema = {} /\ version = <<>>
    BY <2>1
  <2>2. CASE schema = ToSet(Tables) \ {"regexes", "file_to_regex"} /\ version = Outdated
    <3>1. "deployments" \in Made(16) /\ ToSet(Tables) = Made(16)
      BY TablesMade, MadeTables
    <3> QED
      BY <2>2, <3>1
  <2> QED
    BY <2>1, <2>2 DEF Init, Outdated
<1>5. version # Current
  BY <1>4, VersionsDiffer
<1>6. \A c \in Command : cmd[c].pc = "start" /\ cmd[c].ddl = 0
  BY DEF Init
<1>7. InOrder
  BY <1>4, <1>5, <1>6 DEF InOrder
<1> QED
  BY <1>2, <1>3, <1>7 DEF Inv

-----------------------------------------------------------------------------
(* The steps.                                                              *)

LEMMA Fields ==
    ASSUME Inv, NEW c \in Command
    PROVE  /\ cmd[c] \in [pc : Pcs, ddl : 0..17, left : SUBSET Report]
           /\ cmd[c].ddl \in 0..17 /\ cmd[c].pc \in Pcs
           /\ cmd[c].pc = "create" => cmd[c].ddl \in 0..16
           /\ cmd[c].pc \in {"scan", "save"} => cmd[c].ddl = 17
<1>1. cmd[c] \in [pc : Pcs, ddl : 0..17, left : SUBSET Report]
  BY DEF Inv, CommandOK
<1>2. cmd[c].ddl \in 0..17 /\ cmd[c].pc \in Pcs
  BY <1>1
<1>3. /\ cmd[c].pc = "create" => cmd[c].ddl < 17
      /\ cmd[c].pc \in {"scan", "save"} => cmd[c].ddl = 17
  BY DEF Inv, Progress
<1> QED
  BY <1>1, <1>2, <1>3

LEMMA OneCommandGoes ==
    ASSUME Inv, NEW c \in Command, NEW pc \in Pcs, Goto(c, pc)
    PROVE  /\ cmd' \in [Command -> [pc : Pcs, ddl : 0..17, left : SUBSET Report]]
           /\ cmd'[c].pc = pc
           /\ \A d \in Command \ {c} : cmd'[d] = cmd[d]
           /\ \A d \in Command : cmd'[d].ddl = cmd[d].ddl /\ cmd'[d].left = cmd[d].left
<1> USE DEF Inv, CommandOK, Goto
<1>1. cmd[c] \in [pc : Pcs, ddl : 0..17, left : SUBSET Report]
  OBVIOUS
<1>2. cmd'[c] = [cmd[c] EXCEPT !.pc = pc] /\ \A d \in Command \ {c} : cmd'[d] = cmd[d]
  OBVIOUS
<1>3. cmd'[c] \in [pc : Pcs, ddl : 0..17, left : SUBSET Report] /\ cmd'[c].pc = pc
      /\ cmd'[c].ddl = cmd[c].ddl /\ cmd'[c].left = cmd[c].left
  BY <1>1, <1>2
<1>4. cmd' \in [Command -> [pc : Pcs, ddl : 0..17, left : SUBSET Report]]
  BY <1>3
<1> QED
  BY <1>2, <1>3, <1>4

\* A step that creates nothing and reads nothing keeps the order, if it does
\* not begin to create with statements done.
LEMMA OrderKept ==
    ASSUME Inv, NEW c \in Command, NEW pc \in Pcs, Goto(c, pc),
           UNCHANGED <<schema, version, reader>>, pc = "create" => cmd[c].ddl = 0,
           pc = "start" => cmd[c].ddl = 0, pc \in {"scan", "save"} => cmd[c].ddl = 17
    PROVE  Progress' /\ InOrder' /\ ReaderSound'
<1>1. \A d \in Command : cmd'[d].ddl = cmd[d].ddl /\ (d # c => cmd'[d].pc = cmd[d].pc)
  BY OneCommandGoes
<1>2. cmd'[c].pc = pc
  BY OneCommandGoes
<1>3. Progress'
  BY <1>1, <1>2 DEF Inv, Progress
<1>4. InOrder'
  BY <1>1, <1>2 DEF Inv, InOrder
<1> QED
  BY <1>3, <1>4 DEF Inv, ReaderSound

LEMMA StatInv == ASSUME Inv, NEW c \in Command, Stat(c) PROVE Inv'
<1>1. PICK pc \in {"failed", "create"} : Goto(c, pc)
  BY DEF Stat
<1>2. cmd[c].pc = "start" /\ cmd[c].ddl = 0
  BY DEF Stat, Inv, Progress
<1>3. Progress' /\ InOrder' /\ ReaderSound'
  BY <1>1, <1>2, OrderKept DEF Stat, Pcs
<1>4. CommandOK'
  BY <1>1, OneCommandGoes DEF Stat, Pcs, Inv, CommandOK
<1>5. TxSound'
  BY <1>1, <1>2, OneCommandGoes DEF Stat, Pcs, Inv, TxSound
<1> QED
  BY <1>3, <1>4, <1>5 DEF Inv

LEMMA SucceedInv == ASSUME Inv, NEW c \in Command, Succeed(c) PROVE Inv'
<1>1. Goto(c, "succeeded") /\ cmd[c].pc = "scan" /\ "succeeded" \in Pcs
  BY DEF Succeed, Pcs
<1>2. Progress' /\ InOrder' /\ ReaderSound'
  BY <1>1, OrderKept DEF Succeed
<1>3. CommandOK'
  BY <1>1, OneCommandGoes DEF Succeed, Inv, CommandOK
<1>4. TxSound'
  BY <1>1, OneCommandGoes DEF Succeed, Inv, TxSound
<1> QED
  BY <1>2, <1>3, <1>4 DEF Inv

LEMMA DieInv == ASSUME Inv, NEW c \in Command, Die(c) PROVE Inv'
<1>1. Goto(c, "failed") /\ "failed" \in Pcs
  BY DEF Die, Pcs
<1>2. Progress' /\ InOrder' /\ ReaderSound'
  BY <1>1, OrderKept DEF Die
<1>3. CommandOK'
  BY <1>1, OneCommandGoes DEF Die, Inv, CommandOK
<1>4. TxSound'
  BY <1>1, OneCommandGoes DEF Die, Inv, CommandOK, TxSound
<1> QED
  BY <1>2, <1>3, <1>4 DEF Inv

LEMMA BeginInv ==
    ASSUME Inv, NEW c \in Command, NEW r, Begin(c, r) PROVE Inv'
<1>1. Goto(c, "save") /\ cmd[c].pc = "scan" /\ "save" \in Pcs /\ cmd[c].ddl = 17
  BY DEF Begin, Pcs, Inv, Progress
<1>2. Progress' /\ InOrder' /\ ReaderSound'
  BY <1>1, OrderKept DEF Begin
<1>3. CommandOK'
  BY <1>1, OneCommandGoes DEF Begin, Inv, CommandOK
<1>4. r \in Batch[c]
  BY DEF Begin, Inv, CommandOK
<1>5. PICK T, G : tx' = [tx EXCEPT ![c] = [report |-> r, left |-> T, rows |-> rows, go |-> G]]
  BY DEF Begin
<1>6. tx'[c] = [report |-> r, left |-> T, rows |-> rows, go |-> G] /\ \A d \in Command \ {c} : tx'[d] = tx[d]
  BY <1>5 DEF Inv, CommandOK
<1>7. /\ DOMAIN tx'[c] = {"report", "left", "rows", "go"}
      /\ tx'[c].report = r /\ tx'[c].rows = rows /\ rows' = rows
  <2>1. rows' = rows
    BY DEF Begin
  <2>2. PICK t : t = [report |-> r, left |-> T, rows |-> rows, go |-> G]
    OBVIOUS
  <2>3. DOMAIN t = {"report", "left", "rows", "go"} /\ t.report = r /\ t.rows = rows
    BY <2>2
  <2> QED
    BY <1>6, <2>1, <2>2, <2>3, Zenon
<1>8. cmd'[c].pc = "save" /\ \A d \in Command \ {c} : cmd'[d] = cmd[d] /\ tx'[d] = tx[d]
  BY <1>1, <1>6, OneCommandGoes
<1>9. TxSound'
  <2>1. \A d \in Command \ {c} : IF cmd'[d].pc = "save"
                                 THEN /\ DOMAIN tx'[d] = {"report", "left", "rows", "go"}
                                      /\ tx'[d].report \in Batch[d] /\ rows' \subseteq tx'[d].rows
                                 ELSE tx'[d] = NoTx
    BY <1>7, <1>8, Zenon DEF Inv, TxSound
  <2>2. /\ DOMAIN tx'[c] = {"report", "left", "rows", "go"}
        /\ tx'[c].report \in Batch[c] /\ rows' \subseteq tx'[c].rows
    BY <1>4, <1>7, Zenon
  <2> QED
    BY <1>8, <2>1, <2>2, Zenon DEF TxSound
<1> QED
  BY <1>2, <1>3, <1>9 DEF Inv

\* A statement of a transaction only adds to what the transaction holds.
LEMMA ExecAdds ==
    ASSUME Inv, NEW c \in Command, Exec(c)
    PROVE  /\ DOMAIN tx'[c] = {"report", "left", "rows", "go"}
           /\ tx'[c].report = tx[c].report /\ tx[c].rows \subseteq tx'[c].rows
           /\ \A d \in Command \ {c} : tx'[d] = tx[d]
<1> DEFINE s == Head(tx[c].left)
           added == AfterInsert(tx[c], s)
           looked == AfterLookup(tx[c], s)
<1>1. DOMAIN tx[c] = {"report", "left", "rows", "go"}
  BY DEF Exec, Inv, TxSound
<1>2. DOMAIN added = DOMAIN tx[c] /\ added.report = tx[c].report /\ tx[c].rows \subseteq added.rows
  BY <1>1 DEF AfterInsert
<1>3. DOMAIN looked = DOMAIN tx[c] /\ looked.report = tx[c].report /\ tx[c].rows \subseteq looked.rows
  <2> HIDE DEF s
  <2>1. looked = added \/ \E f : looked = [tx[c] EXCEPT !.left = Tail(@), !.go[s.sets] = f]
    BY DEF AfterLookup
  <2> QED
    BY <1>1, <1>2, <2>1
<1>4. tx'[c] \in {looked, added} /\ \A d \in Command \ {c} : tx'[d] = tx[d]
  BY DEF Exec, Inv, CommandOK
<1> QED
  BY <1>1, <1>2, <1>3, <1>4

LEMMA ExecInv == ASSUME Inv, NEW c \in Command, Exec(c) PROVE Inv'
<1>1. UNCHANGED <<schema, version, rows, cmd, reader>> /\ cmd[c].pc = "save"
  BY DEF Exec
<1>2. Progress' /\ InOrder' /\ ReaderSound'
  BY <1>1 DEF Inv, Progress, InOrder, ReaderSound
<1>3. CommandOK'
  BY <1>1 DEF Exec, Inv, CommandOK
<1>4. TxSound'
  BY <1>1, ExecAdds DEF Inv, TxSound
<1> QED
  BY <1>2, <1>3, <1>4 DEF Inv

LEMMA CommitInv == ASSUME Inv, NEW c \in Command, Commit(c) PROVE Inv'
<1> USE DEF Commit
<1>1. cmd[c].pc = "save" /\ cmd[c].ddl = 17
  BY DEF Inv, Progress
<1>2. cmd[c] \in [pc : Pcs, ddl : 0..17, left : SUBSET Report]
  BY DEF Inv, CommandOK
<1>3. cmd'[c] = [cmd[c] EXCEPT !.pc = "scan", !.left = @ \ {tx[c].report}]
      /\ \A d \in Command \ {c} : cmd'[d] = cmd[d]
  BY DEF Inv, CommandOK
<1>4. /\ cmd'[c].pc = "scan" /\ cmd'[c].ddl = 17 /\ cmd'[c].left \subseteq cmd[c].left
      /\ cmd'[c] \in [pc : Pcs, ddl : 0..17, left : SUBSET Report]
  <2> HIDE DEF Commit
  <2>1. PICK R : R = cmd[c].left \ {tx[c].report}
    OBVIOUS
  <2>2. cmd'[c] = [cmd[c] EXCEPT !.pc = "scan", !.left = R] /\ R \subseteq cmd[c].left
    BY <1>3, <2>1
  <2> QED
    BY <1>1, <1>2, <2>2 DEF Pcs
<1>5. CommandOK'
  BY <1>3, <1>4 DEF Inv, CommandOK
<1>6. Progress' /\ InOrder' /\ ReaderSound'
  <2>1. UNCHANGED <<schema, version, reader>> /\ \A d \in Command : cmd'[d].ddl = cmd[d].ddl
    BY <1>1, <1>3, <1>4
  <2>2. \A d \in Command : cmd'[d].pc = cmd[d].pc \/ (cmd'[d].pc = "scan" /\ cmd[d].ddl = 17)
    BY <1>1, <1>3, <1>4
  <2> HIDE DEF Commit
  <2>3. Progress'
    BY <2>1, <2>2 DEF Inv, Progress
  <2>4. InOrder'
    BY <2>1, <2>2 DEF Inv, InOrder
  <2> QED
    BY <2>1, <2>3, <2>4 DEF Inv, ReaderSound
<1>7. tx'[c] = NoTx /\ \A d \in Command \ {c} : tx'[d] = tx[d] /\ cmd[d].pc # "save"
  BY <1>1 DEF Inv, CommandOK, Progress, InOrder
<1>8. TxSound'
  BY <1>3, <1>4, <1>7 DEF Inv, TxSound
<1> QED
  BY <1>5, <1>6, <1>8 DEF Inv

\* What a statement of createDDL does to the file.
LEMMA StatementDone ==
    ASSUME Inv, NEW c \in Command, ExecDDL(c), NEW n, n = cmd[c].ddl
    PROVE  /\ n \in 0..16
           /\ n < 16 => /\ Tables[n + 1] \notin schema
                        /\ schema' = schema \cup {Tables[n + 1]}
                        /\ version' = version
           /\ n = 16 => schema' = schema /\ version' = Append(version, SchemaVersion)
<1>1. n \in 0..16
  BY Fields DEF ExecDDL
<1>2. PICK s : s = createDDL[n + 1]
  OBVIOUS
<1>3. /\ s \notin schema
      /\ IF s = "INSERT version"
         THEN version' = Append(version, SchemaVersion) /\ schema' = schema
         ELSE schema' = schema \cup {s} /\ version' = version
  BY <1>2 DEF ExecDDL
<1>4. CASE n < 16
  <2>1. n + 1 \in 1..16
    BY <1>1, <1>4
  <2>2. s = Tables[n + 1] /\ s # "INSERT version"
    BY <1>2, <2>1, Statement, TableNames
  <2>3. /\ Tables[n + 1] \notin schema
        /\ schema' = schema \cup {Tables[n + 1]} /\ version' = version
    BY <1>3, <2>2, Zenon
  <2>4. n # 16
    BY <1>1, <1>4
  <2> QED
    BY <1>1, <2>3, <2>4, Zenon
<1>5. CASE n = 16
  <2>1. n + 1 = 17
    BY <1>5
  <2>2. s = "INSERT version"
    BY <1>2, <2>1, Statement
  <2>3. schema' = schema /\ version' = Append(version, SchemaVersion)
    BY <1>3, <2>2, Zenon
  <2>4. ~(n < 16)
    BY <1>5
  <2> QED
    BY <1>1, <2>3, <2>4, Zenon
<1> QED
  BY <1>1, <1>4, <1>5

\* Whoever executes a statement finds what its own statements have made.
LEMMA CreatesAlone ==
    ASSUME Inv, NEW c \in Command, ExecDDL(c), NEW n, n = cmd[c].ddl
    PROVE  version = <<>> /\ schema = Made(n) /\ \A d \in Command \ {c} : cmd[d].ddl = 0
<1>1. cmd[c].pc = "create" /\ n \in 0..16
  BY Fields DEF ExecDDL
<1>2. CASE n = 0
  <2>1. n + 1 = 1 /\ n < 16
    BY <1>2
  <2>2. Tables[n + 1] \notin schema
    BY <2>1, StatementDone, Zenon
  <2>3. "deployments" \notin schema
    BY <2>1, <2>2, TableNames, Zenon
  <2>4. schema = {} /\ version = <<>> /\ \A d \in Command : ~(cmd[d].ddl > 0)
    BY <2>3 DEF Inv, InOrder
  <2> QED
    BY <1>2, <2>4, MadeTables, Fields
<1>3. CASE n > 0
  <2>1. schema = Made(n) /\ version = <<>> /\ \A d \in Command \ {c} : ~(cmd[d].ddl > 0)
    BY <1>1, <1>3 DEF Inv, InOrder
  <2> QED
    BY <2>1, Fields
<1> QED
  BY <1>1, <1>2, <1>3

LEMMA ExecDDLInv == ASSUME Inv, NEW c \in Command, ExecDDL(c) PROVE Inv'
<1>1. PICK n : n = cmd[c].ddl
  OBVIOUS
<1>2. cmd[c].pc = "create" /\ n \in 0..16 /\ UNCHANGED <<rows, tx, reader>>
  BY <1>1, Fields DEF ExecDDL
<1>3. PICK pc : pc = IF n = 16 THEN "scan" ELSE "create"
  OBVIOUS
<1>4. cmd' = [cmd EXCEPT ![c].ddl = n + 1, ![c].pc = IF n + 1 = 17 THEN "scan" ELSE @]
  BY <1>1, Statement DEF ExecDDL
<1>5. cmd' = [cmd EXCEPT ![c].ddl = n + 1, ![c].pc = pc]
  <2>1. n + 1 = 17 <=> n = 16
    BY <1>2
  <2>2. cmd[c].pc = "create"
    BY <1>2
  <2>3. pc = IF n + 1 = 17 THEN "scan" ELSE cmd[c].pc
    BY <1>3, <2>1, <2>2, Zenon
  <2> QED
    BY <1>4, <2>3, Zenon
<1>6. cmd'[c] = [cmd[c] EXCEPT !.ddl = n + 1, !.pc = pc]
      /\ \A d \in Command \ {c} : cmd'[d] = cmd[d]
  BY <1>5 DEF Inv, CommandOK
<1>7. pc \in Pcs /\ n + 1 \in 0..17
  BY <1>2, <1>3 DEF Pcs
<1>8. /\ cmd'[c].ddl = n + 1 /\ cmd'[c].left = cmd[c].left /\ cmd'[c].pc = pc
      /\ cmd'[c] \in [pc : Pcs, ddl : 0..17, left : SUBSET Report]
  BY <1>6, <1>7, Fields
<1>9. CommandOK'
  BY <1>2, <1>5, <1>6, <1>8 DEF Inv, CommandOK
<1>10. Progress'
  <2>1. /\ pc # "start" /\ (pc = "create" => n + 1 < 17) /\ (pc \in {"scan", "save"} => n + 1 = 17)
    BY <1>2, <1>3
  <2> QED
    BY <1>6, <1>8, <2>1 DEF Inv, Progress
<1>11. TxSound'
  <2>1. cmd'[c].pc # "save" /\ cmd[c].pc # "save"
    BY <1>2, <1>3, <1>8
  <2> QED
    BY <1>2, <1>6, <2>1 DEF Inv, TxSound
<1>12. version = <<>> /\ schema = Made(n) /\ \A d \in Command \ {c} : cmd[d].ddl = 0
  BY <1>1, CreatesAlone
<1>13. CASE n = 16
  <2>1. schema' = schema /\ version' = Append(version, SchemaVersion)
    BY <1>1, <1>13, StatementDone
  <2>2. schema' = Made(16) /\ version' = Current
    BY <1>12, <1>13, <2>1, Versions
  <2>3. "deployments" \in schema'
    BY <2>2, MadeTables
  <2>4. cmd'[c].pc = "scan" /\ \A d \in Command \ {c} : cmd'[d].ddl = 0
    BY <1>3, <1>6, <1>8, <1>12, <1>13
  <2>5. InOrder'
    BY <2>2, <2>3, <2>4, VersionsDiffer DEF InOrder
  <2>6. ReaderSound'
    BY <1>2, <2>2 DEF Inv, ReaderSound
  <2> QED
    BY <1>9, <1>10, <1>11, <2>5, <2>6 DEF Inv
<1>14. CASE n < 16
  <2>1. n + 1 \in 1..16 /\ n \in 0..15
    BY <1>2, <1>14
  <2>2. schema' = schema \cup {Tables[n + 1]} /\ version' = version
    BY <1>1, <1>14, StatementDone
  <2>3. schema' = Made(n + 1) /\ version' = <<>>
    BY <1>12, <2>1, <2>2, MadeTables
  <2>4. "deployments" \in schema' /\ schema' \subseteq Made(16)
    BY <2>1, <2>3, MadeTables
  <2>5. /\ cmd'[c].ddl = n + 1 /\ n + 1 # 17
        /\ \A d \in Command \ {c} : cmd'[d].ddl = 0
    BY <1>6, <1>8, <1>12, <2>1
  <2>6. InOrder'
    BY <2>3, <2>4, <2>5, VersionsDiffer DEF InOrder
  <2>7. ReaderSound'
    BY <1>2, <1>12, <2>2, <2>3 DEF Inv, ReaderSound
  <2> QED
    BY <1>9, <1>10, <1>11, <2>6, <2>7 DEF Inv
<1> QED
  BY <1>2, <1>13, <1>14

LEMMA CommandStepInv == ASSUME Inv, NEW c \in Command, CommandStep(c) PROVE Inv'
<1>1. CASE Stat(c)
  BY <1>1, StatInv
<1>2. CASE ExecDDL(c)
  BY <1>2, ExecDDLInv
<1>3. ASSUME NEW r \in Report, Begin(c, r) PROVE Inv'
  BY <1>3, BeginInv
<1>4. CASE Exec(c)
  BY <1>4, ExecInv
<1>5. CASE Commit(c)
  BY <1>5, CommitInv
<1>6. CASE Succeed(c)
  BY <1>6, SucceedInv
<1>7. CASE Die(c)
  BY <1>7, DieInv
<1> QED
  BY <1>1, <1>2, <1>3, <1>4, <1>5, <1>6, <1>7 DEF CommandStep

LEMMA OpenInv == ASSUME Inv, OpenDatabase PROVE Inv'
<1>1. UNCHANGED <<schema, version, rows, cmd, tx>>
  BY DEF OpenDatabase
<1>2. reader' \in {"open", "refused"} /\ (reader' = "open" => version # <<>> /\ Head(version) = SchemaVersion)
  BY DEF OpenDatabase
<1>3. version \in {<<>>, Outdated, Current}
  BY DEF Inv, InOrder
<1>4. reader' = "open" => version = Current
  BY <1>2, <1>3, Versions
<1> QED
  BY <1>1, <1>2, <1>4 DEF Inv, CommandOK, Progress, InOrder, ReaderSound, TxSound

LEMMA CloseInv == ASSUME Inv, CloseDatabase PROVE Inv'
<1>1. UNCHANGED <<schema, version, rows, cmd, tx>> /\ reader' = "closed"
  BY DEF CloseDatabase
<1> QED
  BY <1>1 DEF Inv, CommandOK, Progress, InOrder, ReaderSound, TxSound

LEMMA RemoveInv == ASSUME Inv, RemoveFile PROVE Inv'
<1>1. /\ schema' = {} /\ version' = <<>> /\ rows' = {} /\ UNCHANGED <<tx, reader>>
      /\ reader = "closed" /\ \A c \in Command : cmd[c].pc # "save"
  BY DEF RemoveFile, Running
<1>2. cmd' = [c \in Command |-> [pc |-> "start", ddl |-> 0, left |-> Batch[c]]]
  BY DEF RemoveFile
<1>3. \A c \in Command : cmd'[c].pc = "start" /\ cmd'[c].ddl = 0
  BY <1>2
<1>4. CommandOK'
  BY <1>1, <1>2 DEF Inv, CommandOK, Pcs, Report
<1>5. Progress'
  BY <1>3 DEF Progress
<1>6. InOrder'
  BY <1>1, <1>3, VersionsDiffer DEF InOrder
<1>7. ReaderSound'
  BY <1>1 DEF ReaderSound
<1>8. TxSound'
  BY <1>1, <1>3 DEF Inv, TxSound
<1> QED
  BY <1>4, <1>5, <1>6, <1>7, <1>8 DEF Inv

LEMMA NextInv == Inv /\ [Next]_vars => Inv'
<1> SUFFICES ASSUME Inv, [Next]_vars PROVE Inv'
  OBVIOUS
<1>1. ASSUME NEW c \in Command, CommandStep(c) PROVE Inv'
  BY <1>1, CommandStepInv
<1>2. CASE OpenDatabase
  BY <1>2, OpenInv
<1>3. CASE CloseDatabase
  BY <1>3, CloseInv
<1>4. CASE RemoveFile
  BY <1>4, RemoveInv
<1>5. CASE UNCHANGED vars
  BY <1>5 DEF vars, Inv, CommandOK, Progress, InOrder, ReaderSound, TxSound
<1> QED
  BY <1>1, <1>2, <1>3, <1>4, <1>5 DEF Next

-----------------------------------------------------------------------------
(* With the report command, nothing else happens to the file.              *)

LEMMA ReportStepSound == [ReportsNext]_allVars => [Next]_vars
<1> SUFFICES ASSUME [ReportsNext]_allVars PROVE [Next]_vars
  OBVIOUS
<1>1. CASE ReportStep
  <2>1. CASE Open \/ End
    BY <2>1 DEF Open, End, Next
  <2>2. CASE Export \/ PrintReports
    BY <2>2 DEF Export, PrintReports, Proceed
  <2>3. ASSUME NEW step \in DOMAIN NoReports,
               BuildReport(step) \/ BuildFails(step) \/ BuildTruncated(step)
        PROVE  UNCHANGED vars
    BY <2>3 DEF BuildReport, BuildFails, BuildTruncated, Built, Proceed
  <2> QED
    BY <1>1, <2>1, <2>2, <2>3 DEF ReportStep
<1>2. CASE (\E c \in Command : CommandStep(c)) \/ RemoveFile
  BY <1>2 DEF Next
<1>3. CASE UNCHANGED allVars
  BY <1>3 DEF allVars
<1> QED
  BY <1>1, <1>2, <1>3 DEF ReportsNext

LEMMA Invariant == ReportsSpec => []Inv
<1>1. ReportsInit => Inv
  BY InitInv DEF ReportsInit
<1>2. Inv /\ [ReportsNext]_allVars => Inv'
  BY NextInv, ReportStepSound
<1> QED
  BY <1>1, <1>2, PTL DEF ReportsSpec

\* Of two commands given the same file at most one gets past CreateDatabase,
\* also when both found that the file did not exist.
THEOREM AtMostOneWriter == ReportsSpec => []OneWriter
<1>1. Inv => OneWriter
  <2> SUFFICES ASSUME Inv, NEW c \in Command, NEW d \in Command,
                      {cmd[c].pc, cmd[d].pc} \subseteq {"scan", "save"}
               PROVE  c = d
    BY DEF OneWriter
  <2>1. cmd[c].ddl = 17 /\ cmd[d].ddl = 17
    BY Fields
  <2> QED
    BY <2>1 DEF Inv, InOrder
<1> QED
  BY <1>1, Invariant, PTL

\* OpenDatabase accepts only a file whose schema is complete, wherever the
\* command that created it was when it was opened, or when it ended.
THEOREM OpensOnlyComplete == ReportsSpec => []OpenedComplete
<1>1. Inv => OpenedComplete
  <2> SUFFICES ASSUME Inv, reader = "open" PROVE schema = ToSet(Tables) /\ Len(version) = 1
    BY DEF OpenedComplete
  <2>1. version = Current /\ schema = Made(16)
    BY DEF Inv, ReaderSound, InOrder
  <2> QED
    BY <2>1, TablesMade, Versions
<1> QED
  BY <1>1, Invariant, PTL

\* What is saved stays: a transaction commits all the rows it found and its
\* own, since no other command can have committed in between.
THEOREM NothingSavedIsLost == ReportsSpec => SavedStays
<1>1. Inv /\ [Next]_vars => [rows \subseteq rows' \/ RemoveFile]_vars
  <2> SUFFICES ASSUME Inv, Next PROVE rows \subseteq rows' \/ RemoveFile
    OBVIOUS
  <2>1. ASSUME NEW c \in Command, CommandStep(c) PROVE rows \subseteq rows'
    <3>1. CASE Commit(c)
      BY <3>1 DEF Commit, Inv, TxSound
    <3>2. CASE ~Commit(c)
      BY <2>1, <3>2 DEF CommandStep, Stat, ExecDDL, Begin, Exec, Succeed, Die
    <3> QED
      BY <3>1, <3>2
  <2>2. CASE OpenDatabase \/ CloseDatabase
    BY <2>2 DEF OpenDatabase, CloseDatabase
  <2> QED
    BY <2>1, <2>2 DEF Next
<1>2. [ReportsNext]_allVars => [Next]_vars
  BY ReportStepSound
<1> QED
  BY <1>1, <1>2, Invariant, PTL DEF ReportsSpec, SavedStays

\* The report command only reads: with it, the file behaves as the commands
\* and the operator make it, and as it would with any other reader.
THEOREM ReportOnlyReads == ReportsSpec => Spec
<1>1. ReportsInit => Init
  BY DEF ReportsInit
<1>2. [ReportsNext]_allVars => [Next]_vars
  BY ReportStepSound
<1> QED
  BY <1>1, <1>2, PTL DEF ReportsSpec, Spec

-----------------------------------------------------------------------------
(* A property of all natural numbers, by the least that does not have it,  *)
(* and with it what FlattenSeq returns.                                    *)

LEMMA LeastNumber ==
    ASSUME NEW T \in SUBSET Nat, T # {}
    PROVE  \E n \in T : \A m \in T : n <= m
<1>1. PICK R : R = OpToRel(<, Nat)
  OBVIOUS
<1>2. \A a, b \in Nat : <<a, b>> \in R <=> a < b
  BY <1>1 DEF OpToRel
<1>3. IsWellFoundedOn(R, Nat)
  BY <1>1, NatLessThanWellFounded
<1>4. PICK n \in T : \A m \in T : ~(<<m, n>> \in R)
  BY <1>3, WFMin
<1>5. \A m \in T : n \in Nat /\ m \in Nat /\ ~(m < n)
  BY <1>2, <1>4
<1>6. \A m \in T : n <= m
  BY <1>5
<1> QED
  BY <1>6

Flat(seqs, f, n) == f = [i \in 1..n |-> IF i = 1 THEN seqs[i] ELSE f[i - 1] \o seqs[i]]

LEMMA FlatExists ==
    ASSUME NEW seqs, NEW n \in Nat PROVE \E f : Flat(seqs, f, n)
<1> DEFINE T == {m \in Nat : ~ \E f : Flat(seqs, f, m)}
<1> SUFFICES ASSUME T # {} PROVE FALSE
  OBVIOUS
<1>1. PICK m \in T : \A k \in T : m <= k
  BY LeastNumber
<1>2. m # 0
  <2>1. PICK e : e = [i \in 1..0 |-> {}]
    OBVIOUS
  <2>2. Flat(seqs, e, 0)
    BY <2>1 DEF Flat
  <2> QED
    BY <2>2, <1>1
<1>3. m \in Nat /\ m - 1 \in Nat /\ m - 1 \notin T
  BY <1>1, <1>2
<1>4. PICK g : Flat(seqs, g, m - 1)
  BY <1>3
<1>5. PICK last : last = IF m = 1 THEN seqs[m] ELSE g[m - 1] \o seqs[m]
  OBVIOUS
<1>6. PICK f : f = [i \in 1..m |-> IF i = m THEN last ELSE g[i]]
  OBVIOUS
<1>7. ASSUME NEW i \in 1..m PROVE f[i] = IF i = 1 THEN seqs[i] ELSE f[i - 1] \o seqs[i]
  <2>1. CASE i = m
    <3>1. f[i] = last
      BY <2>1, <1>6
    <3>2. i # 1 => i - 1 \in 1..m /\ i - 1 # m
      BY <2>1, <1>3
    <3>3. i # 1 => f[i - 1] = g[m - 1]
      BY <3>2, <1>6, <2>1
    <3> QED
      BY <1>5, <2>1, <3>1, <3>3
  <2>2. CASE i # m
    <3>1. i \in 1..(m - 1)
      BY <1>3, <2>2
    <3>2. f[i] = g[i] /\ (i # 1 => f[i - 1] = g[i - 1])
      BY <1>6, <2>2, <3>1, <1>3
    <3>3. g[i] = IF i = 1 THEN seqs[i] ELSE g[i - 1] \o seqs[i]
      BY <1>4, <3>1 DEF Flat
    <3> QED
      BY <3>2, <3>3
  <2> QED
    BY <2>1, <2>2
<1>8. f = [i \in 1..m |-> f[i]]
  BY <1>6
<1>9. f = [i \in 1..m |-> IF i = 1 THEN seqs[i] ELSE f[i - 1] \o seqs[i]]
  BY <1>7, <1>8, Zenon
<1>10. Flat(seqs, f, m)
  BY <1>9 DEF Flat
<1> QED
  BY <1>1, <1>10

LEMMA Flattened ==
    ASSUME NEW seqs, Len(seqs) \in Nat \ {0}
    PROVE  \E f : Flat(seqs, f, Len(seqs)) /\ FlattenSeq(seqs) = f[Len(seqs)]
<1> DEFINE flatten[i \in 1..Len(seqs)] == IF i = 1 THEN seqs[i] ELSE flatten[i - 1] \o seqs[i]
<1>1. Flat(seqs, flatten, Len(seqs))
  BY FlatExists, Zenon DEF Flat
<1>2. FlattenSeq(seqs) = flatten[Len(seqs)]
  BY DEF FlattenSeq
<1> QED
  BY <1>1, <1>2

-----------------------------------------------------------------------------
(* The statements of a report, as a program: what it needs and what it     *)
(* sets.                                                                   *)

LookedUp == {"deployments", "hosts", "tls_suites", "tls_ciphers", "regexes"}
Variables == DOMAIN TableOf

StatementOK(s) ==
    /\ s.table \in Made(16)
    /\ s.lookup <=> s.table \in LookedUp
    /\ s.uses \subseteq Variables
    /\ s.sets \in Variables \cup {""}
    /\ s.sets \in Variables => s.table = TableOf[s.sets]

Sets(q) == {q[j].sets : j \in 1..Len(q)}
Before(q, k) == {q[j].sets : j \in 1..(k - 1)}

\* q can be executed when the variables V are set.
Runs(q, V) ==
    /\ \E S : q \in Seq(S)
    /\ \A k \in 1..Len(q) : StatementOK(q[k]) /\ q[k].uses \subseteq V \cup Before(q, k)

LEMMA RunsNothing == ASSUME NEW V PROVE Runs(<<>>, V)
<1>1. <<>> \in Seq({}) /\ Len(<<>>) = 0
  OBVIOUS
<1>2. 1..0 = {}
  OBVIOUS
<1> QED
  BY <1>1, <1>2 DEF Runs, Sets

LEMMA RunsOne ==
    ASSUME NEW V, NEW s, StatementOK(s), s.uses \subseteq V
    PROVE  Runs(<<s>>, V) /\ Sets(<<s>>) = {s.sets}
<1>1. <<s>> \in Seq({s}) /\ Len(<<s>>) = 1 /\ <<s>>[1] = s
  OBVIOUS
<1>2. 1..1 = {1}
  OBVIOUS
<1> QED
  BY <1>1, <1>2 DEF Runs, Sets

LEMMA RunsMore ==
    ASSUME NEW V, NEW W, V \subseteq W, NEW q, Runs(q, V)
    PROVE  Runs(q, W)
BY DEF Runs

LEMMA RunsThen ==
    ASSUME NEW V, NEW p, NEW q, Runs(p, V), Runs(q, V \cup Sets(p))
    PROVE  Runs(p \o q, V) /\ \A x \in Sets(p) : x \in Sets(p \o q)
<1>1. PICK S : p \in Seq(S)
  BY DEF Runs
<1>2. PICK T : q \in Seq(T)
  BY DEF Runs
<1>3. PICK U : U = S \cup T
  OBVIOUS
<1>4. p \in Seq(U) /\ q \in Seq(U)
  BY <1>1, <1>2, <1>3, SeqMonotonic
<1>5. PICK r : r = p \o q
  OBVIOUS
<1>6. PICK m \in Nat, n \in Nat : m = Len(p) /\ n = Len(q)
  BY <1>4, LenProperties
<1>7. /\ r \in Seq(U) /\ Len(r) = m + n
      /\ \A i \in 1..(m + n) : r[i] = IF i <= m THEN p[i] ELSE q[i - m]
  BY <1>4, <1>5, <1>6, ConcatProperties
<1>8. \A i \in 1..m : i \in 1..(m + n) /\ r[i] = p[i]
  BY <1>6, <1>7
<1>9. \A i \in 1..n : i + m \in 1..(m + n) /\ r[i + m] = q[i]
  <2> TAKE i \in 1..n
  <2>1. i + m \in 1..(m + n) /\ ~(i + m <= m) /\ (i + m) - m = i
    BY <1>6
  <2> QED
    BY <2>1, <1>7
<1>10. \A i \in 1..(m + n) : i \in 1..m \/ \E j \in 1..n : i = j + m
  <2> TAKE i \in 1..(m + n)
  <2>1. CASE i <= m
    BY <2>1, <1>6
  <2>2. CASE i > m
    <3>1. i - m \in 1..n /\ i = (i - m) + m
      BY <2>2, <1>6
    <3> QED
      BY <3>1
  <2> QED
    BY <2>1, <2>2, <1>6
<1>11. \A x \in Sets(p) : x \in Sets(r)
  BY <1>6, <1>7, <1>8 DEF Sets
<1>12. ASSUME NEW k \in 1..m
       PROVE  StatementOK(r[k]) /\ r[k].uses \subseteq V \cup Before(r, k)
  <2>1. StatementOK(p[k]) /\ p[k].uses \subseteq V \cup Before(p, k)
    BY <1>6 DEF Runs
  <2>2. \A j \in 1..(k - 1) : j \in 1..m
    BY <1>6
  <2>3. Before(p, k) = Before(r, k)
    BY <1>8, <2>2 DEF Before
  <2> QED
    BY <1>8, <2>1, <2>3
<1>13. ASSUME NEW k \in 1..n
       PROVE  StatementOK(r[k + m]) /\ r[k + m].uses \subseteq V \cup Before(r, k + m)
  <2>1. StatementOK(q[k]) /\ q[k].uses \subseteq V \cup Sets(p) \cup Before(q, k)
    BY <1>6 DEF Runs
  <2>2. \A j \in 1..m : j \in 1..((k + m) - 1)
    BY <1>6
  <2>3. Sets(p) \subseteq Before(r, k + m)
    BY <1>6, <1>8, <2>2 DEF Before, Sets
  <2>4. \A j \in 1..(k - 1) : j \in 1..n /\ j + m \in 1..((k + m) - 1)
    BY <1>6
  <2>5. Before(q, k) \subseteq Before(r, k + m)
    BY <1>9, <2>4 DEF Before
  <2> QED
    BY <1>9, <2>1, <2>3, <2>5
<1>14. Runs(r, V)
  BY <1>7, <1>10, <1>12, <1>13 DEF Runs
<1> QED
  BY <1>5, <1>11, <1>14

\* A slice of programs, one after the other.
LEMMA RunsEach ==
    ASSUME NEW V, NEW seq, Slice(seq), NEW F, F = [i \in DOMAIN seq |-> F[i]],
           \A i \in DOMAIN seq : Runs(F[i], V)
    PROVE  Runs(FlattenSeq(F), V)
<1>1. PICK n \in Nat : n = Len(seq) /\ DOMAIN seq = 1..n
  BY LenProperties DEF Slice
<1>2. Len(F) = n
  BY <1>1
<1>3. CASE n = 0
  <2>1. F = <<>>
    BY <1>1, <1>3
  <2>2. FlattenSeq(F) = F
    BY <1>2, <1>3 DEF FlattenSeq
  <2> QED
    BY <2>1, <2>2, RunsNothing
<1>4. CASE n # 0
  <2>1. PICK f : Flat(F, f, n) /\ FlattenSeq(F) = f[n]
    BY <1>1, <1>2, <1>4, Flattened
  <2>2. \A i \in 1..n : f[i] = IF i = 1 THEN F[i] ELSE f[i - 1] \o F[i]
    BY <2>1 DEF Flat
  <2> DEFINE T == {i \in Nat : i \in 1..n /\ ~Runs(f[i], V)}
  <2>3. T = {}
    <3> SUFFICES ASSUME T # {} PROVE FALSE
      OBVIOUS
    <3>1. PICK i \in T : \A j \in T : i <= j
      BY LeastNumber
    <3>2. i \in 1..n /\ ~Runs(f[i], V)
      BY <3>1
    <3>3. i # 1
      BY <1>1, <2>2, <3>2
    <3>4. i - 1 \in Nat /\ i - 1 \in 1..n /\ i - 1 \notin T
      BY <3>1, <3>2, <3>3
    <3>5. Runs(f[i - 1], V) /\ Runs(F[i], V)
      BY <1>1, <3>2, <3>4
    <3>6. Runs(F[i], V \cup Sets(f[i - 1]))
      BY <3>5, RunsMore
    <3>7. Runs(f[i - 1] \o F[i], V)
      BY <3>5, <3>6, RunsThen
    <3> QED
      BY <2>2, <3>2, <3>3, <3>7
  <2>4. Runs(f[n], V)
    BY <1>1, <1>4, <2>3
  <2> QED
    BY <2>1, <2>4
<1> QED
  BY <1>3, <1>4

LEMMA TableSet ==
    /\ {"deployments", "hosts", "processes", "ports", "tls_certificates", "tls_scan_errors",
        "tls_suites", "tls_ciphers", "certificate_to_ciphersuite", "env_vars", "files",
        "ssh_keys", "releases", "regexes", "file_to_regex"} \subseteq Made(16)
<1>1. /\ Tables[1] = "deployments" /\ Tables[2] = "hosts" /\ Tables[3] = "processes"
      /\ Tables[4] = "ports" /\ Tables[5] = "tls_certificates" /\ Tables[6] = "tls_scan_errors"
      /\ Tables[7] = "tls_suites" /\ Tables[8] = "tls_ciphers"
      /\ Tables[9] = "certificate_to_ciphersuite" /\ Tables[10] = "env_vars"
      /\ Tables[11] = "files" /\ Tables[12] = "ssh_keys"
      /\ Tables[14] = "releases" /\ Tables[15] = "regexes" /\ Tables[16] = "file_to_regex"
  BY DEF Tables
<1>2. \A i \in 1..16 : Tables[i] \in Made(16)
  BY DEF Made
<1>3. {Tables[1], Tables[2], Tables[3], Tables[4], Tables[5], Tables[6], Tables[7], Tables[8],
       Tables[9], Tables[10], Tables[11], Tables[12], Tables[14], Tables[15], Tables[16]}
      \subseteq Made(16)
  BY <1>2
<1> QED
  BY <1>1, <1>3, Zenon

LEMMA VariableTables ==
    /\ Variables = {"depID", "hostID", "processID", "portID", "certID", "suiteID", "cipherID",
                    "fileID", "contentID", "pathID"}
    /\ TableOf["depID"] = "deployments" /\ TableOf["hostID"] = "hosts"
    /\ TableOf["processID"] = "processes" /\ TableOf["portID"] = "ports"
    /\ TableOf["certID"] = "tls_certificates" /\ TableOf["suiteID"] = "tls_suites"
    /\ TableOf["cipherID"] = "tls_ciphers" /\ TableOf["fileID"] = "files"
    /\ TableOf["contentID"] = "regexes" /\ TableOf["pathID"] = "regexes"
BY DEF Variables, TableOf

\* A statement on table t that takes its keys from u and sets x.
Fits(V, t, u, x) ==
    /\ t \in Made(16) /\ u \subseteq Variables /\ u \subseteq V
    /\ x = "" \/ (x \in Variables /\ TableOf[x] = t)

\* q can be executed when the variables V are set, and sets x.
Does(V, q, x) == Runs(q, V) /\ Sets(q) = {x}

LEMMA RunsStatement ==
    ASSUME NEW V, NEW s, Fits(V, s.table, s.uses, s.sets), s.lookup <=> s.table \in LookedUp
    PROVE  Runs(<<s>>, V) /\ Sets(<<s>>) = {s.sets}
<1>1. "" \notin Variables
  BY VariableTables
<1>2. StatementOK(s) /\ s.uses \subseteq V
  BY <1>1 DEF StatementOK, Fits
<1> QED
  BY <1>2, RunsOne

LEMMA RunsInsert ==
    ASSUME NEW V, NEW t, NEW v, NEW u, NEW x, Fits(V, t, u, x), t \notin LookedUp
    PROVE  Does(V, insert(t, v, u, x), x)
<1>1. PICK s : s = [table |-> t, value |-> Stored(t, v), uses |-> u, sets |-> x, lookup |-> FALSE]
  OBVIOUS
<1>2. s.table = t /\ s.uses = u /\ s.sets = x /\ s.table \notin LookedUp /\ s.lookup = FALSE
  BY <1>1
<1>3. insert(t, v, u, x) = <<s>>
  BY <1>1 DEF insert, statement
<1>4. Does(V, <<s>>, x)
  BY <1>2, RunsStatement DEF Does
<1> QED
  BY <1>3, <1>4

LEMMA RunsLookup ==
    ASSUME NEW V, NEW t, NEW v, NEW u, NEW x, Fits(V, t, u, x), t \in LookedUp
    PROVE  Does(V, getIndexOrInsert(t, v, u, x), x)
<1>1. PICK s : s = [table |-> t, value |-> Stored(t, v), uses |-> u, sets |-> x, lookup |-> TRUE]
  OBVIOUS
<1>2. s.table = t /\ s.uses = u /\ s.sets = x /\ s.lookup
  BY <1>1
<1>3. getIndexOrInsert(t, v, u, x) = <<s>>
  BY <1>1 DEF getIndexOrInsert, statement
<1>4. Does(V, <<s>>, x)
  BY <1>2, RunsStatement DEF Does
<1> QED
  BY <1>3, <1>4

LEMMA DoesThen ==
    ASSUME NEW V, NEW p, NEW x, Does(V, p, x), NEW q, Runs(q, V \cup {x})
    PROVE  Runs(p \o q, V)
BY RunsThen DEF Does

\* q follows a program that has set x, among others.
LEMMA RunsAfter ==
    ASSUME NEW V, NEW p, Runs(p, V), NEW x \in Sets(p), NEW q, Runs(q, V \cup {x})
    PROVE  Runs(p \o q, V) /\ x \in Sets(p \o q)
<1>1. Runs(q, V \cup Sets(p))
  BY RunsMore
<1>2. Runs(p \o q, V)
  BY <1>1, RunsThen
<1>3. \A y \in Sets(p) : y \in Sets(p \o q)
  BY <1>1, RunsThen
<1>4. x \in Sets(p \o q)
  BY <1>3
<1> QED
  BY <1>2, <1>4

LEMMA RunsBoth ==
    ASSUME NEW V, NEW p, Runs(p, V), NEW q, Runs(q, V)
    PROVE  Runs(p \o q, V)
<1>1. Runs(q, V \cup Sets(p))
  BY RunsMore
<1> QED
  BY <1>1, RunsThen

LEMMA RunsCiphers ==
    ASSUME NEW V, "certID" \in V, NEW c, Slice(c.ciphers)
    PROVE  Runs(Ciphers(c), V)
<1> DEFINE first == getIndexOrInsert("tls_suites", c.suite, {}, "suiteID")
           look(x) == getIndexOrInsert("tls_ciphers", x, {}, "cipherID")
           pair == insert("certificate_to_ciphersuite", "", {"certID", "suiteID", "cipherID"}, "")
           F == [i \in DOMAIN c.ciphers |-> look(c.ciphers[i]) \o pair]
           V2 == V \cup {"suiteID"}
<1>1. /\ Fits(V, "tls_suites", {}, "suiteID") /\ Fits(V2, "tls_ciphers", {}, "cipherID")
      /\ Fits(V2 \cup {"cipherID"}, "certificate_to_ciphersuite", {"certID", "suiteID", "cipherID"}, "")
      /\ "certificate_to_ciphersuite" \notin LookedUp /\ {"tls_suites", "tls_ciphers"} \subseteq LookedUp
  BY TableSet, VariableTables DEF LookedUp, Fits
<1> HIDE DEF V2
<1>2. Does(V, first, "suiteID")
  BY <1>1, RunsLookup, Zenon
<1>3. ASSUME NEW x PROVE Runs(look(x) \o pair, V2)
  <2>1. Does(V2, look(x), "cipherID")
    BY <1>1, RunsLookup, Zenon
  <2>2. Does(V2 \cup {"cipherID"}, pair, "")
    BY <1>1, RunsInsert, Zenon
  <2> HIDE DEF look, pair
  <2> QED
    BY <2>1, <2>2, DoesThen DEF Does
<1>4. Runs(FlattenSeq(F), V2)
  <2> HIDE DEF look, pair, first
  <2>1. F = [i \in DOMAIN c.ciphers |-> F[i]] /\ \A i \in DOMAIN c.ciphers : Runs(F[i], V2)
    BY <1>3
  <2> HIDE DEF F
  <2> QED
    BY <2>1, RunsEach
<1>5. Runs(first \o FlattenSeq(F), V)
  <2> HIDE DEF first, F
  <2> QED
    BY <1>2, <1>4, DoesThen DEF V2
<1> QED
  BY <1>5, RunsNothing DEF Ciphers, ForEach

LEMMA RunsTLS ==
    ASSUME NEW V, "portID" \in V, NEW t, Slice(t.suites),
           \A u \in ToSet(t.suites) : Slice(u.ciphers)
    PROVE  Runs(TLS(t), V)
<1> DEFINE error == insert("tls_scan_errors", t.error, {"portID"}, "")
           cert == insert("tls_certificates", t.cert, {"portID"}, "certID")
           F == [i \in DOMAIN t.suites |-> Ciphers(t.suites[i])]
           V2 == V \cup {"certID"}
<1>1. /\ Fits(V, "tls_scan_errors", {"portID"}, "") /\ Fits(V, "tls_certificates", {"portID"}, "certID")
      /\ "tls_scan_errors" \notin LookedUp /\ "tls_certificates" \notin LookedUp
  BY TableSet, VariableTables DEF LookedUp, Fits
<1>2. Does(V, error, "")
  BY <1>1, RunsInsert, Zenon
<1>3. Does(V, cert, "certID")
  BY <1>1, RunsInsert, Zenon
<1>4. Runs(FlattenSeq(F), V2)
  <2>1. \A i \in DOMAIN t.suites : Slice(t.suites[i].ciphers)
    BY DEF ToSet
  <2>2. F = [i \in DOMAIN t.suites |-> F[i]] /\ \A i \in DOMAIN t.suites : Runs(F[i], V2)
    BY <2>1, RunsCiphers
  <2> HIDE DEF F
  <2> QED
    BY <2>2, RunsEach
<1>5. Runs(cert \o FlattenSeq(F), V)
  <2> HIDE DEF cert, F
  <2> QED
    BY <1>3, <1>4, DoesThen
<1>6. PICK p, q : /\ p = IF t.error = "" THEN <<>> ELSE error
                  /\ q = IF t.cert = "" THEN <<>> ELSE cert \o FlattenSeq(F)
  OBVIOUS
<1>7. Runs(p, V) /\ Runs(q, V)
  <2> HIDE DEF error, cert, F
  <2> QED
    BY <1>2, <1>5, <1>6, RunsNothing DEF Does
<1>8. TLS(t) = p \o q
  BY <1>6 DEF TLS, ForEach
<1> QED
  BY <1>7, <1>8, RunsBoth

LEMMA RunsPort ==
    ASSUME NEW V, "processID" \in V, NEW p,
           p.tls # NoTLS => /\ Slice(p.tls.suites)
                            /\ \A u \in ToSet(p.tls.suites) : Slice(u.ciphers)
    PROVE  Runs(Port(p), V)
<1> DEFINE port == insert("ports", p.number, {"processID"}, "portID")
<1>1. Fits(V, "ports", {"processID"}, "portID") /\ "ports" \notin LookedUp
  BY TableSet, VariableTables DEF LookedUp, Fits
<1>2. Does(V, port, "portID")
  BY <1>1, RunsInsert, Zenon
<1>3. PICK q : q = IF p.tls = NoTLS THEN <<>> ELSE TLS(p.tls)
  OBVIOUS
<1>4. Runs(q, V \cup {"portID"})
  BY <1>3, RunsNothing, RunsTLS
<1>5. Port(p) = port \o q
  BY <1>3 DEF Port
<1> HIDE DEF port
<1> QED
  BY <1>2, <1>4, <1>5, DoesThen

LEMMA RunsService ==
    ASSUME NEW V, "hostID" \in V, NEW s, Slice(s.ports),
           \A p \in {p \in ToSet(s.ports) : p.tls # NoTLS} :
              Slice(p.tls.suites) /\ \A u \in ToSet(p.tls.suites) : Slice(u.ciphers)
    PROVE  Runs(Service(s), V)
<1> DEFINE process == insert("processes", s.name, {"hostID"}, "processID")
           F == [i \in DOMAIN s.ports |-> Port(s.ports[i])]
           env == insert("env_vars", s.env, {"processID"}, "")
           V2 == V \cup {"processID"}
<1>1. /\ Fits(V, "processes", {"hostID"}, "processID") /\ "processes" \notin LookedUp
      /\ Fits(V2, "env_vars", {"processID"}, "") /\ "env_vars" \notin LookedUp
  BY TableSet, VariableTables DEF LookedUp, Fits
<1> HIDE DEF V2
<1>2. Does(V, process, "processID")
  BY <1>1, RunsInsert, Zenon
<1>3. Does(V2, env, "")
  BY <1>1, RunsInsert, Zenon
<1>4. Runs(FlattenSeq(F), V2)
  <2>1. \A i \in DOMAIN s.ports : s.ports[i].tls # NoTLS =>
           /\ Slice(s.ports[i].tls.suites)
           /\ \A u \in ToSet(s.ports[i].tls.suites) : Slice(u.ciphers)
    BY DEF ToSet
  <2>2. \A i \in DOMAIN s.ports : Runs(Port(s.ports[i]), V2)
    BY <2>1, RunsPort DEF V2
  <2>3. F = [i \in DOMAIN s.ports |-> F[i]] /\ \A i \in DOMAIN s.ports : Runs(F[i], V2)
    BY <2>2
  <2> HIDE DEF F
  <2> QED
    BY <2>3, RunsEach
<1>5. Runs(process \o FlattenSeq(F) \o env, V)
  <2> HIDE DEF process, F, env
  <2>1. Runs(process, V) /\ "processID" \in Sets(process)
    BY <1>2 DEF Does
  <2>2. Runs(process \o FlattenSeq(F), V) /\ "processID" \in Sets(process \o FlattenSeq(F))
    BY <1>4, <2>1, RunsAfter DEF V2
  <2> QED
    BY <1>3, <2>2, RunsAfter DEF Does, V2
<1> QED
  BY <1>5 DEF Service, ForEach

LEMMA RunsMatch ==
    ASSUME NEW V, "fileID" \in V, NEW m
    PROVE  Runs(Match(m), V)
<1> DEFINE content == getIndexOrInsert("regexes", m.content, {}, "contentID")
           path == getIndexOrInsert("regexes", m.path, {}, "pathID")
           one == insert("file_to_regex", "", {"fileID", "contentID"}, "")
           both == insert("file_to_regex", "", {"fileID", "pathID", "contentID"}, "")
           V2 == V \cup {"contentID"}
           V3 == V2 \cup {"pathID"}
<1>1. /\ Fits(V, "regexes", {}, "contentID") /\ Fits(V2, "regexes", {}, "pathID")
      /\ Fits(V2, "file_to_regex", {"fileID", "contentID"}, "")
      /\ Fits(V3, "file_to_regex", {"fileID", "pathID", "contentID"}, "")
      /\ "file_to_regex" \notin LookedUp /\ "regexes" \in LookedUp
  BY TableSet, VariableTables DEF LookedUp, Fits
<1> HIDE DEF V2, V3
<1>2. Does(V, content, "contentID")
  BY <1>1, RunsLookup, Zenon
<1>3. Does(V2, path, "pathID")
  BY <1>1, RunsLookup, Zenon
<1>4. Does(V2, one, "")
  BY <1>1, RunsInsert, Zenon
<1>5. Does(V3, both, "")
  BY <1>1, RunsInsert, Zenon
<1>6. Match(m) = content \o (IF m.path = NoPath THEN one ELSE path \o both)
  BY DEF Match
<1> HIDE DEF content, path, one, both
<1>7. Runs(path \o both, V2) /\ Runs(one, V2)
  BY <1>3, <1>4, <1>5, DoesThen DEF Does, V3
<1> QED
  BY <1>2, <1>6, <1>7, DoesThen DEF V2

LEMMA RunsFile ==
    ASSUME NEW V, "hostID" \in V, NEW f, Slice(f.matches)
    PROVE  Runs(File(f), V)
<1> DEFINE path == insert("files", f.path, {"hostID"}, "fileID")
           F == [i \in DOMAIN f.matches |-> Match(f.matches[i])]
<1>1. Fits(V, "files", {"hostID"}, "fileID") /\ "files" \notin LookedUp
  BY TableSet, VariableTables DEF LookedUp, Fits
<1>2. Does(V, path, "fileID")
  BY <1>1, RunsInsert, Zenon
<1>3. Runs(FlattenSeq(F), V \cup {"fileID"})
  <2>1. F = [i \in DOMAIN f.matches |-> F[i]]
        /\ \A i \in DOMAIN f.matches : Runs(F[i], V \cup {"fileID"})
    BY RunsMatch
  <2> HIDE DEF F
  <2> QED
    BY <2>1, RunsEach
<1>4. File(f) = path \o FlattenSeq(F)
  BY DEF File, ForEach
<1> HIDE DEF path, F
<1> QED
  BY <1>2, <1>3, <1>4, DoesThen

HostShape(h) ==
    /\ Slice(h.services) /\ Slice(h.files) /\ Slice(h.keys)
    /\ \A f \in ToSet(h.files) : Slice(f.matches)
    /\ \A s \in ToSet(h.services) :
          /\ Slice(s.ports)
          /\ \A p \in {p \in ToSet(s.ports) : p.tls # NoTLS} :
                Slice(p.tls.suites) /\ \A u \in ToSet(p.tls.suites) : Slice(u.ciphers)

LEMMA RunsHost ==
    ASSUME NEW V, "depID" \in V, NEW h, HostShape(h)
    PROVE  Runs(Host(h), V)
<1> DEFINE host == getIndexOrInsert("hosts", h.host, {"depID"}, "hostID")
           key(k) == insert("ssh_keys", k, {"hostID"}, "")
           S == [i \in DOMAIN h.services |-> Service(h.services[i])]
           F == [i \in DOMAIN h.files |-> File(h.files[i])]
           K == [i \in DOMAIN h.keys |-> key(h.keys[i])]
           V2 == V \cup {"hostID"}
<1>1. /\ Fits(V, "hosts", {"depID"}, "hostID") /\ Fits(V2, "ssh_keys", {"hostID"}, "")
      /\ "ssh_keys" \notin LookedUp /\ "hosts" \in LookedUp
  BY TableSet, VariableTables DEF LookedUp, Fits
<1>2. "hostID" \in V2
  OBVIOUS
<1> HIDE DEF V2
<1>3. Does(V, host, "hostID")
  BY <1>1, RunsLookup, Zenon
<1>4. ASSUME NEW k PROVE Does(V2, key(k), "")
  BY <1>1, RunsInsert, Zenon
<1>5. Runs(FlattenSeq(S), V2)
  <2>1. \A i \in DOMAIN h.services : h.services[i] \in ToSet(h.services)
    BY DEF ToSet
  <2>2. S = [i \in DOMAIN h.services |-> S[i]] /\ \A i \in DOMAIN h.services : Runs(S[i], V2)
    BY <1>2, <2>1, RunsService DEF HostShape
  <2> HIDE DEF S
  <2> QED
    BY <2>2, RunsEach DEF HostShape
<1>6. Runs(FlattenSeq(F), V2)
  <2>1. \A i \in DOMAIN h.files : h.files[i] \in ToSet(h.files)
    BY DEF ToSet
  <2>2. F = [i \in DOMAIN h.files |-> F[i]] /\ \A i \in DOMAIN h.files : Runs(F[i], V2)
    BY <1>2, <2>1, RunsFile DEF HostShape
  <2> HIDE DEF F
  <2> QED
    BY <2>2, RunsEach DEF HostShape
<1>7. Runs(FlattenSeq(K), V2)
  <2> HIDE DEF key
  <2>1. K = [i \in DOMAIN h.keys |-> K[i]] /\ \A i \in DOMAIN h.keys : Runs(K[i], V2)
    BY <1>4 DEF Does
  <2> HIDE DEF K
  <2> QED
    BY <2>1, RunsEach DEF HostShape
<1>8. Host(h) = host \o FlattenSeq(S) \o FlattenSeq(F) \o FlattenSeq(K)
  BY DEF Host, ForEach
<1> HIDE DEF host, S, F, K
<1>9. Runs(host, V) /\ "hostID" \in Sets(host)
  BY <1>3 DEF Does
<1>10. Runs(host \o FlattenSeq(S), V) /\ "hostID" \in Sets(host \o FlattenSeq(S))
  BY <1>5, <1>9, RunsAfter DEF V2
<1>11. /\ Runs(host \o FlattenSeq(S) \o FlattenSeq(F), V)
       /\ "hostID" \in Sets(host \o FlattenSeq(S) \o FlattenSeq(F))
  BY <1>6, <1>10, RunsAfter DEF V2
<1> QED
  BY <1>7, <1>8, <1>11, RunsAfter DEF V2

\* SaveReport, from its first statement to its last, never uses an id before
\* it has looked up or inserted the row the id is of.
LEMMA RunsStatements ==
    ASSUME NEW r \in Report
    PROVE  Runs(Statements(r), {})
<1> DEFINE dep == getIndexOrInsert("deployments", r.deployment, {}, "depID")
           release(x) == insert("releases", x, {"depID"}, "")
           H == [i \in DOMAIN r.hosts |-> Host(r.hosts[i])]
           R == [i \in DOMAIN r.releases |-> release(r.releases[i])]
<1>1. /\ Fits({}, "deployments", {}, "depID") /\ Fits({"depID"}, "releases", {"depID"}, "")
      /\ "releases" \notin LookedUp /\ "deployments" \in LookedUp
  BY TableSet, VariableTables DEF LookedUp, Fits
<1>2. Slice(r.hosts) /\ Slice(r.releases) /\ \A h \in ToSet(r.hosts) : HostShape(h)
  BY BatchAssumption DEF IsReport, HostShape
<1>3. Does({}, dep, "depID")
  BY <1>1, RunsLookup, Zenon
<1>4. ASSUME NEW x PROVE Does({"depID"}, release(x), "")
  BY <1>1, RunsInsert, Zenon
<1>5. Runs(FlattenSeq(H), {"depID"})
  <2>1. \A i \in DOMAIN r.hosts : HostShape(r.hosts[i])
    BY <1>2 DEF ToSet
  <2>2. H = [i \in DOMAIN r.hosts |-> H[i]] /\ \A i \in DOMAIN r.hosts : Runs(H[i], {"depID"})
    BY <2>1, RunsHost
  <2> HIDE DEF H
  <2> QED
    BY <1>2, <2>2, RunsEach
<1>6. Runs(FlattenSeq(R), {"depID"})
  <2> HIDE DEF release
  <2>1. R = [i \in DOMAIN r.releases |-> R[i]] /\ \A i \in DOMAIN r.releases : Runs(R[i], {"depID"})
    BY <1>4 DEF Does
  <2> HIDE DEF R
  <2> QED
    BY <1>2, <2>1, RunsEach
<1>7. Statements(r) = dep \o FlattenSeq(H) \o FlattenSeq(R)
  BY DEF Statements, ForEach
<1> HIDE DEF dep, H, R
<1>8. Runs(dep, {}) /\ "depID" \in Sets(dep)
  BY <1>3 DEF Does
<1>9. Runs(dep \o FlattenSeq(H), {}) /\ "depID" \in Sets(dep \o FlattenSeq(H))
  BY <1>5, <1>8, RunsAfter
<1> QED
  BY <1>6, <1>7, <1>9, RunsAfter

\* The first statement of a program, and the program that is left after it.
LEMMA RunsHead ==
    ASSUME NEW V, NEW q, Runs(q, V), q # <<>>
    PROVE  /\ StatementOK(Head(q)) /\ Head(q).uses \subseteq V
           /\ Runs(Tail(q), V \cup {Head(q).sets})
<1>1. PICK S : q \in Seq(S)
  BY DEF Runs
<1>2. PICK n \in Nat : n = Len(q) /\ n > 0
  BY <1>1, EmptySeq, LenProperties
<1>3. /\ Tail(q) \in Seq(S) /\ Len(Tail(q)) = n - 1
      /\ \A i \in 1..(n - 1) : Tail(q)[i] = q[i + 1]
  BY <1>1, <1>2, HeadTailProperties
<1>4. Head(q) = q[1] /\ 1 \in 1..n
  BY <1>1, <1>2
<1>5. Before(q, 1) = {}
  BY DEF Before
<1>6. StatementOK(Head(q)) /\ Head(q).uses \subseteq V
  BY <1>2, <1>4, <1>5 DEF Runs
<1>7. ASSUME NEW k \in 1..(n - 1)
      PROVE  /\ StatementOK(Tail(q)[k])
             /\ Tail(q)[k].uses \subseteq (V \cup {Head(q).sets}) \cup Before(Tail(q), k)
  <2>1. k + 1 \in 1..n /\ Tail(q)[k] = q[k + 1] /\ (k + 1) - 1 = k
    BY <1>2, <1>3
  <2>2. StatementOK(q[k + 1]) /\ q[k + 1].uses \subseteq V \cup Before(q, k + 1)
    BY <1>2, <2>1 DEF Runs
  <2>3. ASSUME NEW j \in 1..k PROVE q[j].sets \in {Head(q).sets} \cup Before(Tail(q), k)
    <3>1. CASE j = 1
      BY <1>4, <3>1
    <3>2. CASE j # 1
      <4>1. j - 1 \in 1..(k - 1) /\ j - 1 \in 1..(n - 1) /\ (j - 1) + 1 = j
        BY <1>2, <3>2
      <4>2. Tail(q)[j - 1] = q[j]
        BY <1>3, <4>1
      <4> QED
        BY <4>1, <4>2 DEF Before
    <3> QED
      BY <3>1, <3>2
  <2>4. Before(q, k + 1) \subseteq {Head(q).sets} \cup Before(Tail(q), k)
    BY <2>1, <2>3 DEF Before
  <2> QED
    BY <2>1, <2>2, <2>4
<1> QED
  BY <1>3, <1>6, <1>7 DEF Runs

-----------------------------------------------------------------------------
(* The rows.                                                               *)

\* A row that the variable v may refer to by the id i.
HasRow(R, v, i) == \E y \in R : y.table = TableOf[v] /\ y.id = i

\* Rows are told apart by their ids, those that are looked up by their values
\* as well, and every foreign key refers to a row.
Store(R) ==
    /\ IsFiniteSet(R)
    /\ \A x \in R : x.table \in Made(16) /\ x.id \in 1..Cardinality(InTable(R, x.table))
    /\ \A x, y \in R : x.table = y.table /\ x.id = y.id => x = y
    /\ \A x, y \in R : x.table = y.table /\ x.value = y.value /\ x.table \in LookedUp => x = y
    /\ \A x \in R : DOMAIN x.of \subseteq Variables /\ \A v \in DOMAIN x.of : HasRow(R, v, x.of[v])

Known(go) == {v \in Variables \cup {""} : go[v] # 0}

TxRuns(t) ==
    /\ Store(t.rows)
    /\ t.go = [v \in Variables \cup {""} |-> t.go[v]]
    /\ \A v \in Variables : t.go[v] # 0 => HasRow(t.rows, v, t.go[v])
    /\ Runs(t.left, Known(t.go))

Data ==
    /\ Store(rows) /\ (rows # {} => version = Current) /\ saved \subseteq Report
    /\ \A c \in Command : cmd[c].pc = "save" => TxRuns(tx[c])

LEMMA StoreGrows ==
    ASSUME NEW R, Store(R), NEW row, row.table \in Made(16),
           row.id = Cardinality(InTable(R, row.table)) + 1,
           \A x \in R : x.table = row.table /\ x.value = row.value => row.table \notin LookedUp,
           DOMAIN row.of \subseteq Variables, \A v \in DOMAIN row.of : HasRow(R, v, row.of[v])
    PROVE  Store(R \cup {row}) /\ row.id # 0
<1>1. PICK Q : Q = R \cup {row}
  OBVIOUS
<1>2. ASSUME NEW t PROVE IsFiniteSet(InTable(R, t)) /\ Cardinality(InTable(R, t)) \in Nat
  <2>1. InTable(R, t) \subseteq R
    BY DEF InTable
  <2> QED
    BY <2>1, FS_Subset, FS_CardinalityType DEF Store
<1>3. PICK n \in Nat : n = Cardinality(InTable(R, row.table)) /\ row.id = n + 1
  BY <1>2
<1>4. \A x \in InTable(R, row.table) : x.id \in 1..n
  BY <1>3 DEF InTable, Store
<1>5. row \notin InTable(R, row.table) /\ \A x \in R : x.table = row.table => x.id # row.id
  BY <1>3, <1>4 DEF InTable
<1>6. InTable(Q, row.table) = InTable(R, row.table) \cup {row}
  BY <1>1 DEF InTable
<1>7. Cardinality(InTable(Q, row.table)) = n + 1
  BY <1>2, <1>3, <1>5, <1>6, FS_AddElement
<1>8. \A t : t # row.table => InTable(Q, t) = InTable(R, t)
  BY <1>1 DEF InTable
<1>9. IsFiniteSet(Q)
  BY <1>1, FS_AddElement DEF Store
<1>10. \A x \in Q : x.table \in Made(16) /\ x.id \in 1..Cardinality(InTable(Q, x.table))
  <2>1. row.id \in 1..Cardinality(InTable(Q, row.table))
    BY <1>3, <1>7
  <2>2. ASSUME NEW x \in R, x.table = row.table PROVE x.id \in 1..Cardinality(InTable(Q, x.table))
    <3>1. x.id \in 1..n
      BY <1>4, <2>2 DEF InTable
    <3> QED
      BY <1>3, <1>7, <2>2, <3>1
  <2>3. ASSUME NEW x \in R, x.table # row.table PROVE x.id \in 1..Cardinality(InTable(Q, x.table))
    BY <1>8, <2>3 DEF Store
  <2> QED
    BY <1>1, <2>1, <2>2, <2>3 DEF Store
<1>11. \A x, y \in Q : x.table = y.table /\ x.id = y.id => x = y
  BY <1>1, <1>5 DEF Store
<1>12. \A x, y \in Q : x.table = y.table /\ x.value = y.value /\ x.table \in LookedUp => x = y
  BY <1>1 DEF Store
<1>13. \A v, i : HasRow(R, v, i) => HasRow(Q, v, i)
  BY <1>1 DEF HasRow
<1>14. \A x \in Q : DOMAIN x.of \subseteq Variables /\ \A v \in DOMAIN x.of : HasRow(Q, v, x.of[v])
  BY <1>1, <1>13 DEF Store
<1>15. Store(Q)
  BY <1>9, <1>10, <1>11, <1>12, <1>14 DEF Store
<1> QED
  BY <1>1, <1>3, <1>15

\* The transaction t after a statement that inserts.
LEMMA InsertRuns ==
    ASSUME NEW t, TxRuns(t), DOMAIN t = {"report", "left", "rows", "go"}, t.left # <<>>,
           NEW s, s = Head(t.left),
           \A x \in t.rows : x.table = s.table /\ x.value = s.value => s.table \notin LookedUp
    PROVE  TxRuns(AfterInsert(t, s))
<1>1. PICK i : i = Cardinality(InTable(t.rows, s.table)) + 1
  OBVIOUS
<1>2. PICK row : row = [table |-> s.table, id |-> i, value |-> s.value, of |-> [v \in s.uses |-> t.go[v]]]
  OBVIOUS
<1>3. /\ row.table = s.table /\ row.id = i /\ row.value = s.value
      /\ DOMAIN row.of = s.uses /\ \A v \in s.uses : row.of[v] = t.go[v]
  BY <1>2
<1>4. PICK u : u = AfterInsert(t, s)
  OBVIOUS
<1>5. u = [t EXCEPT !.left = Tail(@), !.go[s.sets] = i, !.rows = @ \cup {row}]
  BY <1>1, <1>2, <1>4 DEF AfterInsert
<1>6. u.left = Tail(t.left) /\ u.go = [t.go EXCEPT ![s.sets] = i] /\ u.rows = t.rows \cup {row}
  BY <1>5
<1>7. /\ StatementOK(s) /\ s.uses \subseteq Known(t.go)
      /\ Runs(Tail(t.left), Known(t.go) \cup {s.sets})
  BY RunsHead DEF TxRuns
<1>8. s.uses \subseteq Variables /\ s.sets \in Variables \cup {""}
  BY <1>7 DEF StatementOK
<1>9. \A v \in s.uses : HasRow(t.rows, v, t.go[v])
  BY <1>7, <1>8 DEF TxRuns, Known
<1>10. Store(u.rows) /\ i # 0
  <2>1. row.table \in Made(16) /\ row.id = Cardinality(InTable(t.rows, row.table)) + 1
    BY <1>1, <1>3, <1>7 DEF StatementOK
  <2>2. DOMAIN row.of \subseteq Variables /\ \A v \in DOMAIN row.of : HasRow(t.rows, v, row.of[v])
    BY <1>3, <1>8, <1>9
  <2>3. \A x \in t.rows : x.table = row.table /\ x.value = row.value => row.table \notin LookedUp
    BY <1>3
  <2>4. Store(t.rows)
    BY DEF TxRuns
  <2>5. Store(t.rows \cup {row}) /\ row.id # 0
    BY <2>1, <2>2, <2>3, <2>4, StoreGrows
  <2> QED
    BY <1>3, <1>6, <2>5
<1>11. /\ u.go = [v \in Variables \cup {""} |-> u.go[v]]
       /\ u.go[s.sets] = i /\ \A v \in (Variables \cup {""}) \ {s.sets} : u.go[v] = t.go[v]
  <2>1. t.go = [v \in Variables \cup {""} |-> t.go[v]]
    BY DEF TxRuns
  <2> QED
    BY <1>6, <1>8, <2>1
<1>12. \A v \in Variables : u.go[v] # 0 => HasRow(u.rows, v, u.go[v])
  <2> SUFFICES ASSUME NEW v \in Variables, u.go[v] # 0 PROVE HasRow(u.rows, v, u.go[v])
    OBVIOUS
  <2>1. CASE v = s.sets
    <3>1. u.go[v] = i /\ row \in u.rows /\ row.id = i
      BY <1>3, <1>6, <1>11, <2>1, Zenon
    <3>2. TableOf[v] = row.table
      BY <1>3, <1>7, <2>1, Zenon DEF StatementOK
    <3> QED
      BY <3>1, <3>2, Zenon DEF HasRow
  <2>2. CASE v # s.sets
    <3>1. u.go[v] = t.go[v]
      BY <1>11, <2>2, Zenon
    <3>2. HasRow(t.rows, v, t.go[v])
      BY <3>1 DEF TxRuns
    <3>3. t.rows \subseteq u.rows
      BY <1>6, Zenon
    <3> QED
      BY <3>1, <3>2, <3>3, Zenon DEF HasRow
  <2> QED
    BY <2>1, <2>2
<1>13. Known(t.go) \cup {s.sets} \subseteq Known(u.go)
  BY <1>8, <1>10, <1>11 DEF Known
<1>14. Runs(u.left, Known(u.go))
  BY <1>6, <1>7, <1>13, RunsMore
<1>15. TxRuns(u)
  BY <1>10, <1>11, <1>12, <1>14 DEF TxRuns
<1> QED
  BY <1>4, <1>15

\* The transaction t after a statement that finds a row.
LEMMA FoundRuns ==
    ASSUME NEW t, TxRuns(t), DOMAIN t = {"report", "left", "rows", "go"}, t.left # <<>>,
           NEW s, s = Head(t.left), NEW y \in t.rows, y.table = s.table
    PROVE  TxRuns([t EXCEPT !.left = Tail(@), !.go[s.sets] = y.id])
<1>1. PICK i : i = y.id
  OBVIOUS
<1>2. PICK u : u = [t EXCEPT !.left = Tail(@), !.go[s.sets] = i]
  OBVIOUS
<1>3. u.left = Tail(t.left) /\ u.go = [t.go EXCEPT ![s.sets] = i] /\ u.rows = t.rows
  BY <1>2
<1>4. StatementOK(s) /\ Runs(Tail(t.left), Known(t.go) \cup {s.sets})
  BY RunsHead DEF TxRuns
<1>5. s.sets \in Variables \cup {""}
  BY <1>4 DEF StatementOK
<1>6. i # 0
  <2>1. y.id \in 1..Cardinality(InTable(t.rows, y.table))
    BY DEF TxRuns, Store
  <2> QED
    BY <1>1, <2>1
<1>7. /\ u.go = [v \in Variables \cup {""} |-> u.go[v]]
      /\ u.go[s.sets] = i /\ \A v \in (Variables \cup {""}) \ {s.sets} : u.go[v] = t.go[v]
  <2>1. t.go = [v \in Variables \cup {""} |-> t.go[v]]
    BY DEF TxRuns
  <2> QED
    BY <1>3, <1>5, <2>1
<1>8. \A v \in Variables : u.go[v] # 0 => HasRow(u.rows, v, u.go[v])
  <2> SUFFICES ASSUME NEW v \in Variables, u.go[v] # 0 PROVE HasRow(u.rows, v, u.go[v])
    OBVIOUS
  <2>1. CASE v = s.sets
    <3>1. u.go[v] = y.id /\ y \in u.rows
      BY <1>1, <1>3, <1>7, <2>1, Zenon
    <3>2. TableOf[v] = y.table
      BY <1>4, <2>1, Zenon DEF StatementOK
    <3> QED
      BY <3>1, <3>2, Zenon DEF HasRow
  <2>2. CASE v # s.sets
    BY <1>3, <1>7, <2>2 DEF TxRuns
  <2> QED
    BY <2>1, <2>2
<1>9. Known(t.go) \cup {s.sets} \subseteq Known(u.go)
  BY <1>5, <1>6, <1>7 DEF Known
<1>10. Runs(u.left, Known(u.go))
  BY <1>3, <1>4, <1>9, RunsMore
<1>11. TxRuns(u)
  BY <1>3, <1>7, <1>8, <1>10 DEF TxRuns
<1> QED
  BY <1>1, <1>2, <1>11

LEMMA ExecRuns ==
    ASSUME NEW t, TxRuns(t), DOMAIN t = {"report", "left", "rows", "go"}, t.left # <<>>,
           NEW s, s = Head(t.left)
    PROVE  TxRuns(IF s.lookup THEN AfterLookup(t, s) ELSE AfterInsert(t, s))
<1> DEFINE found == {x \in InTable(t.rows, s.table) : x.value = s.value}
<1>1. s.table \in LookedUp => s.lookup
  BY RunsHead DEF TxRuns, StatementOK
<1>2. CASE ~s.lookup
  <2>1. TxRuns(AfterInsert(t, s))
    BY <1>1, <1>2, InsertRuns
  <2> QED
    BY <1>2, <2>1
<1>3. CASE s.lookup /\ found = {}
  <2>1. \A x \in t.rows : ~(x.table = s.table /\ x.value = s.value)
    BY <1>3 DEF InTable
  <2>2. TxRuns(AfterInsert(t, s))
    BY <2>1, InsertRuns
  <2>3. AfterLookup(t, s) = AfterInsert(t, s)
    BY <1>3 DEF AfterLookup
  <2> QED
    BY <1>3, <2>2, <2>3
<1>4. CASE s.lookup /\ found # {}
  <2>1. PICK i : i = CHOOSE j \in Ids(found) : TRUE
    OBVIOUS
  <2>2. \E i0 \in Ids(found) : TRUE
    BY <1>4 DEF Ids
  <2>3. i \in Ids(found)
    BY <2>1, <2>2
  <2>4. PICK y \in found : y.id = i
    BY <2>3 DEF Ids
  <2>5. y \in t.rows /\ y.table = s.table
    BY DEF InTable
  <2>6. AfterLookup(t, s) = [t EXCEPT !.left = Tail(@), !.go[s.sets] = i]
    BY <1>4, <2>1 DEF AfterLookup
  <2>7. TxRuns([t EXCEPT !.left = Tail(@), !.go[s.sets] = y.id])
    BY <2>5, FoundRuns
  <2>8. TxRuns(AfterLookup(t, s))
    BY <2>4, <2>6, <2>7
  <2> QED
    BY <1>4, <2>8
<1> QED
  BY <1>2, <1>3, <1>4

-----------------------------------------------------------------------------
(* Every step keeps the rows in order.                                     *)

LEMMA DataInit == Init => Data
<1> SUFFICES ASSUME Init PROVE Data
  OBVIOUS
<1>1. rows = {} /\ saved = {} /\ \A c \in Command : cmd[c].pc # "save"
  BY DEF Init
<1>2. Store(rows)
  BY <1>1, FS_EmptySet DEF Store
<1> QED
  BY <1>1, <1>2 DEF Data

\* A step that leaves the file and what is saved alone, and changes the
\* transaction of at most one command.
LEMMA OthersKept ==
    ASSUME Data, NEW c \in Command, UNCHANGED <<rows, version, saved>>,
           \A d \in Command \ {c} : cmd'[d].pc = cmd[d].pc /\ tx'[d] = tx[d],
           cmd'[c].pc = "save" => TxRuns(tx'[c])
    PROVE  Data'
<1>1. Store(rows') /\ (rows' # {} => version' = Current) /\ saved' \subseteq Report
  BY DEF Data
<1>2. ASSUME NEW d \in Command, cmd'[d].pc = "save" PROVE TxRuns(tx'[d])
  <2>1. CASE d = c
    BY <1>2, <2>1
  <2>2. CASE d # c
    <3>1. cmd[d].pc = "save" /\ tx'[d] = tx[d]
      BY <1>2, <2>2
    <3>2. TxRuns(tx[d])
      BY <3>1 DEF Data
    <3> QED
      BY <3>1, <3>2
  <2> QED
    BY <2>1, <2>2
<1> QED
  BY <1>1, <1>2 DEF Data

LEMMA BeginData ==
    ASSUME Inv, Data, NEW c \in Command, NEW r \in Report, Begin(c, r) PROVE Data'
<1>1. PICK G : G = [v \in DOMAIN TableOf \cup {""} |-> 0]
  OBVIOUS
<1>2. PICK T : T = Statements(r)
  OBVIOUS
<1>3. PICK t : t = [report |-> r, left |-> T, rows |-> rows, go |-> G]
  OBVIOUS
<1>4. tx' = [tx EXCEPT ![c] = t] /\ Goto(c, "save") /\ UNCHANGED <<rows, version, saved>>
  BY <1>1, <1>2, <1>3, Zenon DEF Begin
<1>5. tx'[c] = t /\ \A d \in Command \ {c} : tx'[d] = tx[d]
  BY <1>4 DEF Inv, CommandOK
<1>6. \A d \in Command \ {c} : cmd'[d].pc = cmd[d].pc
  BY <1>4, OneCommandGoes DEF Pcs
<1>7. G = [v \in Variables \cup {""} |-> G[v]] /\ \A v \in Variables \cup {""} : G[v] = 0
  BY <1>1 DEF Variables
<1>8. t.left = T /\ t.rows = rows /\ t.go = G
  BY <1>3
<1>9. Known(t.go) = {}
  BY <1>7, <1>8 DEF Known
<1>10. Runs(t.left, Known(t.go))
  BY <1>2, <1>8, <1>9, RunsStatements
<1>11. TxRuns(t)
  BY <1>7, <1>8, <1>10 DEF TxRuns, Data
<1> QED
  BY <1>4, <1>5, <1>6, <1>11, OthersKept

LEMMA ExecData == ASSUME Inv, Data, NEW c \in Command, Exec(c) PROVE Data'
<1>1. PICK t : t = tx[c]
  OBVIOUS
<1>2. PICK s : s = Head(t.left)
  OBVIOUS
<1>3. /\ cmd[c].pc = "save" /\ t.left # <<>> /\ UNCHANGED <<rows, version, saved, cmd>>
      /\ tx' = [tx EXCEPT ![c] = IF s.lookup THEN AfterLookup(t, s) ELSE AfterInsert(t, s)]
  BY <1>1, <1>2, Zenon DEF Exec
<1>4. TxRuns(t) /\ DOMAIN t = {"report", "left", "rows", "go"}
  BY <1>1, <1>3 DEF Data, Inv, TxSound
<1>5. TxRuns(IF s.lookup THEN AfterLookup(t, s) ELSE AfterInsert(t, s))
  BY <1>2, <1>3, <1>4, ExecRuns
<1>6. /\ tx'[c] = IF s.lookup THEN AfterLookup(t, s) ELSE AfterInsert(t, s)
      /\ \A d \in Command \ {c} : tx'[d] = tx[d]
  BY <1>3 DEF Inv, CommandOK
<1> QED
  BY <1>3, <1>5, <1>6, OthersKept

\* While a report is saved nothing else is.
LEMMA NoneSaves ==
    ASSUME Inv, NEW c \in Command, Commit(c) PROVE \A d \in Command : cmd'[d].pc # "save"
<1>1. /\ cmd' = [cmd EXCEPT ![c].pc = "scan", ![c].left = @ \ {tx[c].report}]
      /\ cmd[c].ddl = 17
  BY DEF Commit, Inv, Progress
<1>2. cmd'[c].pc = "scan"
  <2>1. PICK R : R = cmd[c].left \ {tx[c].report}
    OBVIOUS
  <2>2. cmd'[c] = [cmd[c] EXCEPT !.pc = "scan", !.left = R]
    BY <1>1, <2>1 DEF Inv, CommandOK
  <2> QED
    BY <2>2, Fields
<1>3. \A d \in Command \ {c} : cmd'[d] = cmd[d] /\ cmd[d].ddl # 17
  BY <1>1 DEF Inv, CommandOK, InOrder
<1>4. \A d \in Command \ {c} : cmd'[d].pc # "save"
  BY <1>3, Fields
<1> QED
  BY <1>2, <1>4

LEMMA CommitData == ASSUME Inv, Data, NEW c \in Command, Commit(c) PROVE Data'
<1>1. cmd[c].pc = "save" /\ rows' = tx[c].rows /\ saved' = saved \cup {tx[c].report} /\ version' = version
  BY DEF Commit
<1>2. TxRuns(tx[c]) /\ tx[c].report \in Batch[c] /\ cmd[c].ddl = 17
  BY <1>1 DEF Data, Inv, TxSound, Progress
<1>3. Store(rows') /\ version' = Current
  BY <1>1, <1>2 DEF TxRuns, Inv, InOrder
<1>4. saved' \subseteq Report
  BY <1>1, <1>2 DEF Data, Report
<1> QED
  BY <1>3, <1>4, NoneSaves DEF Data

\* Who creates the schema does not save when the statement is done.
LEMMA StillNoneSaves == ASSUME Inv, NEW c \in Command, ExecDDL(c) PROVE cmd'[c].pc # "save"
<1>1. PICK n : n = cmd[c].ddl + 1
  OBVIOUS
<1>2. PICK pc : pc = IF n = Len(createDDL) THEN "scan" ELSE "create"
  OBVIOUS
<1>3. cmd' = [cmd EXCEPT ![c].ddl = n, ![c].pc = pc]
  <2>1. cmd[c].pc = "create"
    BY DEF ExecDDL
  <2> QED
    BY <1>1, <1>2, <2>1, Zenon DEF ExecDDL
<1>4. cmd'[c] = [cmd[c] EXCEPT !.ddl = n, !.pc = pc]
  BY <1>3 DEF Inv, CommandOK
<1>5. cmd'[c].pc = pc
  BY <1>4, Fields
<1> QED
  BY <1>2, <1>5

LEMMA ExecDDLData == ASSUME Inv, Data, NEW c \in Command, ExecDDL(c) PROVE Data'
<1>1. version = <<>> /\ cmd[c].pc = "create"
  BY CreatesAlone DEF ExecDDL
<1>2. rows = {} /\ UNCHANGED <<rows, saved, tx>>
  BY <1>1, VersionsDiffer DEF Data, ExecDDL
<1>3. \A d \in Command \ {c} : cmd'[d] = cmd[d]
  BY DEF ExecDDL, Inv, CommandOK
<1>4. cmd'[c].pc # "save"
  BY StillNoneSaves
<1>5. Store(rows') /\ saved' \subseteq Report /\ rows' = {}
  BY <1>2 DEF Data
<1>6. \A d \in Command : cmd'[d].pc = "save" => TxRuns(tx'[d])
  <2> SUFFICES ASSUME NEW d \in Command, cmd'[d].pc = "save" PROVE TxRuns(tx'[d])
    OBVIOUS
  <2>1. d # c /\ cmd[d].pc = "save"
    BY <1>3, <1>4
  <2>2. tx'[d] = tx[d]
    BY <1>2
  <2>3. TxRuns(tx[d])
    BY <2>1 DEF Data
  <2> QED
    BY <2>2, <2>3
<1> QED
  BY <1>5, <1>6 DEF Data

LEMMA RemoveData == ASSUME Inv, RemoveFile PROVE Data'
<1>1. rows' = {} /\ saved' = {}
  BY DEF RemoveFile
<1>2. \A c \in Command : cmd'[c].pc # "save"
  BY DEF RemoveFile
<1>3. Store(rows')
  BY <1>1, FS_EmptySet DEF Store
<1> QED
  BY <1>1, <1>2, <1>3 DEF Data

LEMMA NextData == Inv /\ Data /\ [Next]_vars => Data'
<1> SUFFICES ASSUME Inv, Data, [Next]_vars PROVE Data'
  OBVIOUS
<1>1. ASSUME NEW c \in Command, CommandStep(c) PROVE Data'
  <2>1. ASSUME NEW pc \in Pcs \ {"save"}, Goto(c, pc), UNCHANGED <<rows, version, saved>>,
               \A d \in Command \ {c} : tx'[d] = tx[d]
        PROVE  Data'
    <3>1. cmd'[c].pc = pc /\ \A d \in Command \ {c} : cmd'[d].pc = cmd[d].pc
      BY <2>1, OneCommandGoes
    <3> QED
      BY <2>1, <3>1, OthersKept
  <2>2. CASE Stat(c)
    BY <2>1, <2>2 DEF Stat, Pcs
  <2>3. CASE Succeed(c)
    BY <2>1, <2>3 DEF Succeed, Pcs
  <2>4. CASE Die(c)
    BY <2>1, <2>4 DEF Die, Pcs, Inv, CommandOK
  <2>5. ASSUME NEW r \in Report, Begin(c, r) PROVE Data'
    BY <2>5, BeginData
  <2> QED
    BY <1>1, <2>2, <2>3, <2>4, <2>5, ExecDDLData, ExecData, CommitData DEF CommandStep
<1>2. CASE OpenDatabase \/ CloseDatabase \/ UNCHANGED vars
  <2>1. UNCHANGED <<rows, version, saved, cmd, tx>>
    BY <1>2 DEF OpenDatabase, CloseDatabase, vars
  <2> QED
    BY <2>1 DEF Data
<1>3. CASE RemoveFile
  BY <1>3, RemoveData
<1> QED
  BY <1>1, <1>2, <1>3 DEF Next

LEMMA DataInvariant == ReportsSpec => [](Inv /\ Data)
<1>1. ReportsInit => Data
  BY DataInit DEF ReportsInit
<1>2. Inv /\ Data /\ [ReportsNext]_allVars => Data'
  BY NextData, ReportStepSound
<1> QED
  BY <1>1, <1>2, Invariant, PTL DEF ReportsSpec

\* A string that is looked up has one row, however many reports name it and
\* whatever becomes of the commands that save them.
THEOREM LookupsAreUnique == ReportsSpec => []NamesUnique
<1>1. Data => NamesUnique
  BY DEF Data, Store, NamesUnique, LookedUp
<1> QED
  BY <1>1, DataInvariant, PTL

\* Every foreign key of a committed row refers to exactly one committed row of
\* the table it is a key of.
KeysResolve ==
    \A x \in rows : \A v \in DOMAIN x.of :
       \E y \in rows : \A z \in rows : (z.table = TableOf[v] /\ z.id = x.of[v]) <=> z = y

\* No row of the database dangles, and none is ambiguous: SaveReport uses an id
\* only once it has looked up or inserted the row it is the id of, in the same
\* transaction, and ids are given once.
THEOREM NoRowDangles == ReportsSpec => []KeysResolve
<1>1. Data => KeysResolve
  <2> SUFFICES ASSUME Store(rows), NEW x \in rows, NEW v \in DOMAIN x.of
               PROVE  \E y \in rows : \A z \in rows : (z.table = TableOf[v] /\ z.id = x.of[v]) <=> z = y
    BY DEF Data, KeysResolve
  <2>1. PICK y \in rows : y.table = TableOf[v] /\ y.id = x.of[v]
    BY DEF Store, HasRow
  <2>2. ASSUME NEW z \in rows, z.table = TableOf[v], z.id = x.of[v] PROVE z = y
    BY <2>1, <2>2, Zenon DEF Store
  <2> QED
    BY <2>1, <2>2
<1> QED
  BY <1>1, DataInvariant, PTL

-----------------------------------------------------------------------------
(* The types of the variables.                                             *)

Kinds == {"root", "tls", "files", "keys"}

RepOK ==
    /\ rep = [pc |-> rep.pc, built |-> rep.built]
    /\ rep.pc \in Kinds \cup {"start", "export", "print", "clean", "violations", "failed"}
    /\ DOMAIN rep.built = Kinds
    /\ rep.pc = "start" <=> reader = "closed"
    /\ readErrors \in 0..MaxReadErrors /\ atOpen \subseteq Report

LEMMA KindsOfReports ==
    /\ DOMAIN NoReports = Kinds /\ DOMAIN After = Kinds
    /\ \A step \in Kinds : After[step] \in (Kinds \cup {"export"})
BY DEF NoReports, After, Kinds

LEMMA ProceedOK ==
    ASSUME RepOK, rep.pc # "start", NEW pc \in {"print", "failed"}, Proceed(pc) PROVE RepOK'
<1>1. rep' = [pc |-> pc, built |-> rep.built] /\ UNCHANGED <<reader, readErrors, atOpen>>
  BY DEF Proceed, RepOK, vars
<1> QED
  BY <1>1 DEF RepOK

LEMMA BuiltOK ==
    ASSUME RepOK, NEW step \in Kinds, NEW report, Built(step, report), readErrors' \in 0..MaxReadErrors
    PROVE  RepOK'
<1>1. /\ rep' = [pc |-> After[step], built |-> [rep.built EXCEPT ![step] = report]]
      /\ rep.pc = step /\ UNCHANGED <<reader, atOpen>>
  BY DEF Built, vars
<1>2. After[step] \in Kinds \cup {"export"} /\ rep.pc # "start" /\ After[step] # "start"
  BY <1>1, KindsOfReports DEF Kinds
<1>3. DOMAIN [rep.built EXCEPT ![step] = report] = Kinds
  BY DEF RepOK
<1> QED
  BY <1>1, <1>2, <1>3 DEF RepOK

LEMMA RepStep == RepOK /\ Data /\ [ReportsNext]_allVars => RepOK'
<1> SUFFICES ASSUME RepOK, Data, [ReportsNext]_allVars PROVE RepOK'
  OBVIOUS
<1>1. CASE Open
  <2>1. PICK pc : pc = IF reader' = "open" THEN "root" ELSE "failed"
    OBVIOUS
  <2>2. rep' = [pc |-> pc, built |-> rep.built]
    BY <1>1, <2>1 DEF Open, RepOK
  <2>3. reader' \in {"open", "refused"} /\ atOpen' \subseteq Report /\ readErrors' = readErrors
    BY <1>1 DEF Open, OpenDatabase, Data
  <2>4. pc \in Kinds \cup {"failed"} /\ pc # "start"
    BY <2>1 DEF Kinds
  <2> QED
    BY <2>2, <2>3, <2>4 DEF RepOK
<1>2. CASE Export
  BY <1>2, ProceedOK DEF Export
<1>3. CASE PrintReports
  <2>1. PICK pc \in {"clean", "violations"} : rep' = [Idle EXCEPT !.pc = pc]
    BY <1>3 DEF PrintReports
  <2>2. rep' = [pc |-> pc, built |-> NoReports]
    BY <2>1 DEF Idle
  <2>3. UNCHANGED <<reader, readErrors, atOpen>> /\ rep.pc = "print"
    BY <1>3 DEF PrintReports, vars
  <2> QED
    BY <2>2, <2>3, KindsOfReports DEF RepOK
<1>4. CASE End
  <2>1. rep' = Idle /\ reader' = "closed" /\ readErrors' = 0 /\ atOpen' = {}
    BY <1>4 DEF End, CloseDatabase
  <2> QED
    BY <2>1, KindsOfReports, ReportsAssumption DEF RepOK, Idle
<1>5. ASSUME NEW step \in DOMAIN NoReports,
             BuildReport(step) \/ BuildFails(step) \/ BuildTruncated(step)
      PROVE  RepOK'
  <2>1. step \in Kinds /\ step # "start"
    BY KindsOfReports DEF Kinds
  <2>2. CASE BuildReport(step)
    BY <2>1, <2>2, BuiltOK DEF BuildReport, RepOK
  <2>3. CASE BuildFails(step)
    BY <2>1, <2>3, ProceedOK DEF BuildFails
  <2>4. CASE BuildTruncated(step)
    <3>1. PICK some : Built(step, some)
      BY <2>4 DEF BuildTruncated
    <3>2. readErrors' \in 0..MaxReadErrors
      BY <2>4, ReportsAssumption DEF BuildTruncated, RepOK
    <3> QED
      BY <2>1, <3>1, <3>2, BuiltOK
  <2> QED
    BY <1>5, <2>2, <2>3, <2>4
<1>6. CASE ((\E c \in Command : CommandStep(c)) \/ RemoveFile) /\ UNCHANGED <<rep, readErrors, atOpen>>
  <2>1. UNCHANGED reader
    BY <1>6 DEF CommandStep, Stat, ExecDDL, Begin, Exec, Commit, Succeed, Die, RemoveFile
  <2> QED
    BY <1>6, <2>1 DEF RepOK
<1>7. CASE UNCHANGED allVars
  BY <1>7 DEF allVars, vars, RepOK
<1> QED
  BY <1>1, <1>2, <1>3, <1>4, <1>5, <1>6, <1>7 DEF ReportsNext, ReportStep

\* That file is a Boolean is an invariant of its own.
LEMMA FileOK ==
    /\ Init => file \in BOOLEAN
    /\ file \in BOOLEAN /\ [Next]_vars => file' \in BOOLEAN
<1>1. Init => file \in BOOLEAN
  BY DEF Init
<1>2. ASSUME file \in BOOLEAN, Next PROVE file' \in BOOLEAN
  <2>1. ASSUME NEW c \in Command, CommandStep(c) PROVE file' \in BOOLEAN
    BY <1>2, <2>1 DEF CommandStep, Stat, ExecDDL, Begin, Exec, Commit, Succeed, Die
  <2> QED
    BY <1>2, <2>1 DEF Next, OpenDatabase, CloseDatabase, RemoveFile
<1> QED
  BY <1>1, <1>2 DEF vars

\* The variables of the database and of the report command keep their types.
THEOREM TypeCorrect == ReportsSpec => []ReportsTypeOK
<1>1. ReportsInit => RepOK /\ file \in BOOLEAN
  <2> SUFFICES ASSUME ReportsInit PROVE RepOK /\ file \in BOOLEAN
    OBVIOUS
  <2>1. rep = Idle /\ readErrors = 0 /\ atOpen = {} /\ reader = "closed"
    BY DEF ReportsInit, Init
  <2> QED
    BY <2>1, KindsOfReports, ReportsAssumption, FileOK DEF RepOK, Idle, ReportsInit
<1>2. /\ RepOK /\ file \in BOOLEAN /\ Inv /\ Data
      /\ [ReportsNext]_allVars
      => RepOK' /\ (file \in BOOLEAN)'
  BY RepStep, FileOK, ReportStepSound
<1>3. Inv /\ Data /\ RepOK /\ file \in BOOLEAN => ReportsTypeOK
  <2> SUFFICES ASSUME Inv, Data, RepOK, file \in BOOLEAN PROVE ReportsTypeOK
    OBVIOUS
  <2>1. schema \subseteq ToSet(Tables) /\ version \in Seq(Nat)
    BY TablesMade, Versions DEF Inv, InOrder
  <2>2. ASSUME NEW x \in rows PROVE x.table \in schema /\ x.id \in Nat \ {0}
    <3>1. schema = Made(16)
      BY DEF Data, Inv, InOrder
    <3>2. x.table \in Made(16) /\ x.id \in 1..Cardinality(InTable(rows, x.table))
      BY DEF Data, Store
    <3> QED
      BY <3>1, <3>2
  <2>3. ASSUME NEW c \in Command
        PROVE  /\ cmd[c].pc \in Pcs /\ cmd[c].ddl \in 0..Len(createDDL) /\ cmd[c].left \subseteq Batch[c]
               /\ tx[c] # NoTx <=> cmd[c].pc = "save"
    <3>1. cmd[c].pc \in Pcs /\ cmd[c].ddl \in 0..Len(createDDL) /\ cmd[c].left \subseteq Batch[c]
      BY Fields, Statement DEF Inv, CommandOK
    <3>2. DOMAIN NoTx = {"report"}
      BY DEF NoTx
    <3>3. cmd[c].pc = "save" => tx[c] # NoTx
      BY <3>2 DEF Inv, TxSound
    <3> QED
      BY <3>1, <3>3 DEF Inv, TxSound
  <2>4. TypeOK
    BY <2>1, <2>2, <2>3 DEF TypeOK, Pcs, Inv, ReaderSound, Data
  <2> QED
    BY <2>4, KindsOfReports DEF ReportsTypeOK, RepOK
<1> QED
  BY <1>1, <1>2, <1>3, DataInvariant, PTL DEF ReportsSpec
=============================================================================
