-------------------------- MODULE HandshakeProofs ---------------------------
(***************************************************************************)
(* Proofs about AttemptHandshake and getSupportedProtocols, for every set  *)
(* of versions and every service.                                          *)
(*                                                                         *)
(* The caller may go on while the handshake of an earlier attempt still    *)
(* runs, and reads what that handshake writes without synchronization.     *)
(* What saves it is that each attempt has variables of its own, which are  *)
(* only ever set, and that the suite is noted before anything is reported: *)
(* so whatever an attempt leaves behind, early or late, is true of the     *)
(* version it was made for.                                                *)
(*                                                                         *)
(* That nobody is left behind rests on the capacity of errChannel: the     *)
(* timer and the handshake report once each, and RoomFor keeps a place for *)
(* what is not sent yet (ReportsFindRoom).  So some step is always open    *)
(* that needs no answer of the service (NeverStuck), and there are only so *)
(* many steps (EveryStepCounts).                                           *)
(***************************************************************************)
EXTENDS Handshake, FiniteSetTheorems, SequenceTheorems, TLAPS

\* The reports of a handshake in which the service chose a cipher suite.
Chosen == {Nil, ExpectedAbort}

\* What attempt a, made for version v, says of the service.
SoundFor(v, a) ==
    /\ a.cipherSuite => v \in Negotiates
    /\ a.providesCert => v \in Serves
    /\ a.pc \in {"certificate", "finish"} => a.cipherSuite
    /\ a.pc \in {"send", "end"} /\ a.result \in Chosen => a.cipherSuite
    /\ a.result # TimedOut
    /\ \A i \in DOMAIN a.errChannel : a.errChannel[i] \in Chosen => a.cipherSuite

AttemptsSound == \A v \in Version : SoundFor(v, attempt[v])

\* What the caller goes by: err came from the handshake unless it is the
\* timeout, and the suite was noted before err was sent.
CallerKnows ==
    /\ caller.pc \in {"dial", "wait", "close"} => attempt[caller.v].timer # "off"
    /\ caller.pc \in {"close", "decide"} =>
          /\ caller.heard <=> caller.err # TimedOut
          /\ caller.err \in Chosen => attempt[caller.v].cipherSuite

Inv ==
    /\ TypeOK /\ AttemptsSound /\ CallerKnows
    /\ SupportedIsServed /\ AnswerIsNegotiation /\ OneConnection

-----------------------------------------------------------------------------

LEMMA InitInv == Init => Inv
<1> SUFFICES ASSUME Init PROVE Inv
  OBVIOUS
<1>1. NotMade \in Attempt
  BY EmptySeq DEF NotMade, Attempt, Err
<1>2. caller.pc = "next" /\ caller.v \in Version /\ caller.err = Nil /\ caller.heard = FALSE
  BY DEF Init
<1>3. caller \in [pc : {"next", "dial", "wait", "close", "decide", "judge"},
                  v : Version, err : Err, heard : BOOLEAN]
  BY DEF Init, Err
<1>4. \A v \in Version : attempt[v] = NotMade /\ answer[v] = "none"
  BY DEF Init
<1>5. TypeOK
  BY <1>1, <1>3, <1>4 DEF Init, TypeOK, NotMade
<1>6. \A v \in Version : SoundFor(v, NotMade)
  BY EmptySeq DEF SoundFor, NotMade, Nil, TimedOut
<1>7. AttemptsSound /\ CallerKnows /\ OneConnection
  <2>1. AttemptsSound
    BY <1>4, <1>6 DEF AttemptsSound
  <2>2. CallerKnows
    BY <1>2 DEF CallerKnows
  <2>3. OneConnection
    BY <1>4 DEF OneConnection, NotMade
  <2> QED
    BY <2>1, <2>2, <2>3
<1>8. SupportedIsServed /\ AnswerIsNegotiation
  BY <1>4 DEF Init, SupportedIsServed, AnswerIsNegotiation, Nil, ExpectedAbort
<1> QED
  BY <1>5, <1>7, <1>8 DEF Inv

\* A step of the timer or of the handshake of attempt v, which may run at any
\* time and while the caller is with another version: it keeps the invariant
\* if what it does is sound and the suite, once noted, stays.
LEMMA AttemptStep ==
    ASSUME Inv, NEW v \in Version, NEW r \in Attempt, Update(v, r),
           UNCHANGED <<caller, answer, supported>>,
           SoundFor(v, r), r.conn = attempt[v].conn,
           attempt[v].timer # "off" => r.timer # "off",
           attempt[v].cipherSuite => r.cipherSuite
    PROVE  Inv'
<1>1. /\ attempt \in [Version -> Attempt] /\ attempt' \in [Version -> Attempt]
      /\ attempt'[v] = r /\ \A w \in Version \ {v} : attempt'[w] = attempt[w]
  BY DEF Inv, TypeOK, Update
<1>2. \A w \in Version : /\ attempt'[w].conn = attempt[w].conn
                         /\ attempt[w].timer # "off" => attempt'[w].timer # "off"
                         /\ attempt[w].cipherSuite => attempt'[w].cipherSuite
  BY <1>1
<1>3. caller.v \in Version
  BY DEF Inv, TypeOK
<1>4. TypeOK'
  BY <1>1, <1>2 DEF Inv, TypeOK
<1>5. AttemptsSound'
  BY <1>1 DEF Inv, AttemptsSound
<1>6. CallerKnows'
  BY <1>2, <1>3 DEF Inv, CallerKnows
<1>7. SupportedIsServed' /\ AnswerIsNegotiation' /\ OneConnection'
  BY <1>2 DEF Inv, SupportedIsServed, AnswerIsNegotiation, OneConnection
<1> QED
  BY <1>4, <1>5, <1>6, <1>7 DEF Inv

\* A report put into errChannel, which holds only errors that are sound.
LEMMA SoundReport ==
    ASSUME NEW v \in Version, NEW a \in Attempt, SoundFor(v, a), NEW e \in Err,
           e \in Chosen => a.cipherSuite
    PROVE  /\ Append(a.errChannel, e) \in Seq(Err)
           /\ \A i \in DOMAIN Append(a.errChannel, e) :
                 Append(a.errChannel, e)[i] \in Chosen => a.cipherSuite
<1> DEFINE q == a.errChannel
<1>1. q \in Seq(Err) /\ \A i \in DOMAIN q : q[i] \in Chosen => a.cipherSuite
  BY DEF Attempt, SoundFor
<1> HIDE DEF q
<1>2. /\ Append(q, e) \in Seq(Err) /\ DOMAIN q = 1..Len(q) /\ Len(q) \in Nat
      /\ DOMAIN Append(q, e) = 1..(Len(q) + 1)
      /\ \A i \in 1..Len(q) : Append(q, e)[i] = q[i]
      /\ Append(q, e)[Len(q) + 1] = e
  BY <1>1, AppendProperties, LenProperties
<1>3. \A i \in DOMAIN Append(q, e) : Append(q, e)[i] \in Chosen => a.cipherSuite
  BY <1>1, <1>2
<1> QED
  BY <1>2, <1>3 DEF q

\* What is taken from a channel that is not empty.
LEMMA TakenReport ==
    ASSUME NEW S, NEW q \in Seq(S), q # <<>>
    PROVE  /\ Head(q) \in S /\ Head(q) = q[1] /\ 1 \in DOMAIN q /\ Tail(q) \in Seq(S)
           /\ \A i \in DOMAIN Tail(q) : i + 1 \in DOMAIN q /\ Tail(q)[i] = q[i + 1]
<1>1. /\ Head(q) = q[1] /\ Head(q) \in S /\ Tail(q) \in Seq(S)
      /\ Len(q) \in Nat \ {0} /\ DOMAIN q = 1..Len(q)
      /\ DOMAIN Tail(q) = 1..(Len(q) - 1)
      /\ \A i \in 1..(Len(q) - 1) : Tail(q)[i] = q[i + 1]
  BY HeadTailProperties, LenProperties, EmptySeq
<1> QED
  BY <1>1

LEMMA NextInv == Inv /\ [Next]_vars => Inv'
<1> SUFFICES ASSUME Inv, [Next]_vars PROVE Inv'
  OBVIOUS
<1> USE DEF Nil, TimedOut, ExpectedAbort, Failed, Err, Chosen
<1>a. /\ caller \in [pc : {"next", "dial", "wait", "close", "decide", "judge"},
                     v : Version, err : Err, heard : BOOLEAN]
      /\ attempt \in [Version -> Attempt] /\ answer \in [Version -> Err \cup {"none"}]
      /\ supported \subseteq Version
      /\ \A v \in Version : attempt[v].conn # "none" => attempt[v].timer # "off"
  BY DEF Inv, TypeOK
<1>b. \A v \in Version : attempt[v] \in Attempt /\ SoundFor(v, attempt[v])
  BY <1>a DEF Inv, AttemptsSound
<1>c. CallerKnows /\ SupportedIsServed /\ AnswerIsNegotiation /\ OneConnection
  BY DEF Inv
<1>1. ASSUME NEW v \in Version, TimerStep(v) PROVE Inv'
  <2> DEFINE a == attempt[v]
  <2>1. CASE Fire(v)
    <3> DEFINE r == [a EXCEPT !.timer = "send"]
    <3>1. r \in Attempt /\ SoundFor(v, r) /\ r.conn = a.conn
          /\ r.timer # "off" /\ r.cipherSuite = a.cipherSuite
      BY <1>b DEF Attempt, SoundFor
    <3> QED
      BY <2>1, <3>1, AttemptStep DEF Fire
  <2>2. CASE SendTimeout(v)
    <3> DEFINE q == Append(a.errChannel, TimedOut)
               r == [a EXCEPT !.timer = "end", !.errChannel = q]
    <3>1. q \in Seq(Err) /\ \A i \in DOMAIN q : q[i] \in Chosen => a.cipherSuite
      BY <1>b, SoundReport
    <3> HIDE DEF q
    <3>2. r \in Attempt /\ SoundFor(v, r) /\ r.conn = a.conn
          /\ r.timer # "off" /\ r.cipherSuite = a.cipherSuite
      BY <1>b, <3>1 DEF Attempt, SoundFor
    <3>3. Update(v, r) /\ UNCHANGED <<caller, answer, supported>>
      BY <2>2 DEF SendTimeout, q
    <3> QED
      BY <3>2, <3>3, AttemptStep
  <2> QED
    BY <1>1, <2>1, <2>2 DEF TimerStep
<1>2. ASSUME NEW v \in Version, HandshakeStep(v) PROVE Inv'
  <2> DEFINE a == attempt[v]
  <2>1. CASE ServerHello(v)
    <3> DEFINE r == [a EXCEPT !.pc = "certificate", !.cipherSuite = TRUE]
    <3>1. r \in Attempt /\ SoundFor(v, r) /\ r.conn = a.conn /\ r.timer = a.timer /\ r.cipherSuite
      BY <1>b, <2>1 DEF Attempt, SoundFor, ServerHello
    <3> QED
      BY <2>1, <3>1, AttemptStep DEF ServerHello
  <2>2. CASE Certificate(v)
    <3> DEFINE r == [a EXCEPT !.pc = "finish", !.providesCert = TRUE]
    <3>1. r \in Attempt /\ SoundFor(v, r) /\ r.conn = a.conn /\ r.timer = a.timer
          /\ r.cipherSuite = a.cipherSuite
      BY <1>b, <2>2 DEF Attempt, SoundFor, Certificate
    <3> QED
      BY <2>2, <3>1, AttemptStep DEF Certificate
  <2>3. CASE Finish(v)
    <3>1. PICK e \in {ExpectedAbort, Nil} :
             /\ Update(v, [a EXCEPT !.pc = "send", !.result = e])
             /\ UNCHANGED <<caller, answer, supported>>
      BY <2>3 DEF Finish
    <3> DEFINE r == [a EXCEPT !.pc = "send", !.result = e]
    <3>2. r \in Attempt /\ SoundFor(v, r) /\ r.conn = a.conn /\ r.timer = a.timer
          /\ r.cipherSuite = a.cipherSuite
      BY <1>b, <2>3 DEF Attempt, SoundFor, Finish
    <3> QED
      BY <3>1, <3>2, AttemptStep
  <2>4. CASE HandshakeFails(v)
    <3> DEFINE r == [a EXCEPT !.pc = "send", !.result = Failed]
    <3>1. r \in Attempt /\ SoundFor(v, r) /\ r.conn = a.conn /\ r.timer = a.timer
          /\ r.cipherSuite = a.cipherSuite
      BY <1>b DEF Attempt, SoundFor
    <3> QED
      BY <2>4, <3>1, AttemptStep DEF HandshakeFails
  <2>5. CASE SendResult(v)
    <3> DEFINE q == Append(a.errChannel, a.result)
               r == [a EXCEPT !.pc = "end", !.errChannel = q]
    <3>1. a.result \in Err /\ (a.result \in Chosen => a.cipherSuite)
      BY <1>b, <2>5 DEF Attempt, SoundFor, SendResult
    <3>2. q \in Seq(Err) /\ \A i \in DOMAIN q : q[i] \in Chosen => a.cipherSuite
      BY <1>b, <3>1, SoundReport
    <3> HIDE DEF q
    <3>3. r \in Attempt /\ SoundFor(v, r) /\ r.conn = a.conn /\ r.timer = a.timer
          /\ r.cipherSuite = a.cipherSuite
      BY <1>b, <3>1, <3>2 DEF Attempt, SoundFor
    <3>4. Update(v, r) /\ UNCHANGED <<caller, answer, supported>>
      BY <2>5 DEF SendResult, q
    <3> QED
      BY <3>3, <3>4, AttemptStep
  <2> QED
    BY <1>2, <2>1, <2>2, <2>3, <2>4, <2>5 DEF HandshakeStep
<1>3. ASSUME NEW v \in Version, NEW r \in Attempt, NEW pc \in {"dial", "wait", "decide"},
             Update(v, r), UNCHANGED <<answer, supported>>,
             caller'.pc = pc, caller'.v = v, caller' \in [pc : {pc}, v : {v}, err : Err, heard : BOOLEAN],
             pc = "decide" => caller.pc = "close" /\ caller.v = v
                              /\ caller'.err = caller.err /\ caller'.heard = caller.heard,
             SoundFor(v, r), r.timer # "off", r.cipherSuite = attempt[v].cipherSuite,
             r.conn = "open" => pc = "wait",
             \A w \in Version \ {v} : attempt[w].conn # "open"
      PROVE  Inv'
  <2>1. /\ attempt' \in [Version -> Attempt] /\ attempt'[v] = r
        /\ \A w \in Version \ {v} : attempt'[w] = attempt[w]
    BY <1>a, <1>3 DEF Update
  <2>2. TypeOK'
    BY <1>a, <1>3, <2>1 DEF TypeOK
  <2>3. AttemptsSound'
    BY <1>b, <1>3, <2>1 DEF AttemptsSound
  <2>4. CallerKnows'
    BY <1>c, <1>3, <2>1 DEF CallerKnows
  <2>5. OneConnection'
    BY <1>3, <2>1 DEF OneConnection
  <2>6. SupportedIsServed' /\ AnswerIsNegotiation'
    BY <1>c, <1>3 DEF SupportedIsServed, AnswerIsNegotiation
  <2> QED
    BY <2>2, <2>3, <2>4, <2>5, <2>6 DEF Inv
<1>4. ASSUME NEW v \in Version, Begin(v) PROVE Inv'
  <2> DEFINE r == [attempt[v] EXCEPT !.timer = "set"]
  <2>1. attempt[v].conn = "none"
    BY <1>a, <1>4 DEF Begin
  <2>2. /\ r \in Attempt /\ SoundFor(v, r) /\ r.timer # "off" /\ r.conn = "none"
        /\ r.cipherSuite = attempt[v].cipherSuite
    BY <1>b, <2>1 DEF Attempt, SoundFor
  <2>3. \A w \in Version \ {v} : attempt[w].conn # "open"
    BY <1>c, <1>4 DEF Begin, OneConnection
  <2>4. Update(v, r) /\ UNCHANGED <<answer, supported>>
    BY <1>4 DEF Begin
  <2>5. caller' = [pc |-> "dial", v |-> v, err |-> Nil, heard |-> FALSE]
    BY <1>4 DEF Begin
  <2> QED
    BY <1>3, <2>2, <2>3, <2>4, <2>5
<1>5. ASSUME NEW v \in Version, Dial(v) PROVE Inv'
  <2> DEFINE r == [attempt[v] EXCEPT !.conn = "open", !.pc = "hello"]
  <2>1. attempt[v].timer # "off"
    BY <1>c, <1>5 DEF Dial, CallerKnows
  <2>2. /\ r \in Attempt /\ SoundFor(v, r) /\ r.timer # "off"
        /\ r.cipherSuite = attempt[v].cipherSuite
    BY <1>b, <2>1 DEF Attempt, SoundFor
  <2>3. \A w \in Version \ {v} : attempt[w].conn # "open"
    BY <1>c, <1>5 DEF Dial, OneConnection
  <2>4. Update(v, r) /\ UNCHANGED <<answer, supported>>
    BY <1>5 DEF Dial
  <2>5. caller' = [caller EXCEPT !.pc = "wait"] /\ caller.v = v
    BY <1>5 DEF Dial
  <2> QED
    BY <1>3, <1>a, <2>2, <2>3, <2>4, <2>5
<1>6. ASSUME NEW v \in Version, Close(v) PROVE Inv'
  <2> DEFINE r == [attempt[v] EXCEPT !.conn = "closed"]
  <2>1. r.timer # "off"
    <3>1. attempt[v].timer # "off"
      BY <1>c, <1>6 DEF Close, CallerKnows
    <3> QED
      BY <3>1, <1>b DEF Attempt
  <2>2. /\ r \in Attempt /\ SoundFor(v, r) /\ r.conn = "closed"
        /\ r.cipherSuite = attempt[v].cipherSuite
    BY <1>b DEF Attempt, SoundFor
  <2>3. \A w \in Version \ {v} : attempt[w].conn # "open"
    BY <1>c, <1>6 DEF Close, OneConnection
  <2>4. Update(v, r) /\ UNCHANGED <<answer, supported>>
    BY <1>6 DEF Close
  <2>5. caller' = [caller EXCEPT !.pc = "decide"] /\ caller.v = v /\ caller.pc = "close"
    BY <1>6 DEF Close
  <2> QED
    BY <1>3, <1>a, <2>1, <2>2, <2>3, <2>4, <2>5
<1>7. ASSUME NEW v \in Version, ReceiveErr(v) PROVE Inv'
  <2> DEFINE a == attempt[v]
             e == Head(a.errChannel)
             r == [a EXCEPT !.errChannel = Tail(@)]
  <2>1. a.errChannel \in Seq(Err) /\ a.errChannel # <<>>
    BY <1>b, <1>7 DEF Attempt, ReceiveErr
  <2>2. /\ e \in Err /\ e = a.errChannel[1] /\ 1 \in DOMAIN a.errChannel
        /\ Tail(a.errChannel) \in Seq(Err)
        /\ \A i \in DOMAIN Tail(a.errChannel) :
              i + 1 \in DOMAIN a.errChannel /\ Tail(a.errChannel)[i] = a.errChannel[i + 1]
    BY <2>1, TakenReport
  <2>3. e \in Chosen => a.cipherSuite
    BY <1>b, <2>2 DEF SoundFor
  <2>4. /\ r \in Attempt /\ SoundFor(v, r) /\ r.timer = a.timer /\ r.conn = a.conn
        /\ r.cipherSuite = a.cipherSuite
    BY <1>b, <2>2 DEF Attempt, SoundFor
  <2>5. /\ caller.pc = "wait" /\ caller.v = v
        /\ caller' = [caller EXCEPT !.pc = "close", !.err = e, !.heard = (e # TimedOut)]
        /\ attempt' = [attempt EXCEPT ![v] = r] /\ UNCHANGED <<answer, supported>>
    BY <1>7 DEF ReceiveErr, Update
  <2> HIDE DEF e, r, a
  <2>6. /\ caller'.pc = "close" /\ caller'.v = v /\ caller'.err = e
        /\ caller'.heard = (e # TimedOut)
        /\ caller' \in [pc : {"close"}, v : {v}, err : Err, heard : BOOLEAN]
    BY <1>a, <2>2, <2>5
  <2>7. /\ attempt' \in [Version -> Attempt] /\ attempt'[v] = r
        /\ \A w \in Version \ {v} : attempt'[w] = attempt[w]
    BY <1>a, <2>4, <2>5
  <2>8. attempt[v].timer # "off"
    BY <1>c, <2>5 DEF CallerKnows
  <2>9. TypeOK'
    BY <1>a, <2>4, <2>5, <2>6, <2>7, <2>8 DEF TypeOK, a
  <2>10. AttemptsSound'
    BY <1>b, <2>4, <2>7 DEF AttemptsSound
  <2>11. CallerKnows'
    BY <2>3, <2>4, <2>6, <2>7, <2>8 DEF CallerKnows, a
  <2>12. OneConnection'
    BY <1>c, <2>4, <2>5, <2>6, <2>7 DEF OneConnection, a
  <2>13. SupportedIsServed' /\ AnswerIsNegotiation'
    BY <1>c, <2>5 DEF SupportedIsServed, AnswerIsNegotiation
  <2> QED
    BY <2>9, <2>10, <2>11, <2>12, <2>13 DEF Inv
<1>8. ASSUME NEW v \in Version, NEW pc \in {"judge", "next"}, caller' = [caller EXCEPT !.pc = pc],
             caller.pc \in {"dial", "decide", "judge"}, UNCHANGED attempt,
             answer' \in [Version -> Err \cup {"none"}], AnswerIsNegotiation',
             SupportedIsServed'
      PROVE  Inv'
  <2>1. caller'.pc = pc /\ caller' \in [pc : {pc}, v : Version, err : Err, heard : BOOLEAN]
    BY <1>a, <1>8
  <2>2. TypeOK'
    BY <1>a, <1>8, <2>1, ServiceAssumption DEF TypeOK, SupportedIsServed
  <2>3. AttemptsSound'
    BY <1>b, <1>8 DEF AttemptsSound
  <2>4. CallerKnows'
    BY <2>1 DEF CallerKnows
  <2>5. OneConnection'
    BY <1>c, <1>8 DEF OneConnection
  <2> QED
    BY <1>8, <2>2, <2>3, <2>4, <2>5 DEF Inv
<1>9. ASSUME NEW v \in Version, DialFails(v) PROVE Inv'
  <2>1. answer' \in [Version -> Err \cup {"none"}] /\ AnswerIsNegotiation'
    BY <1>a, <1>c, <1>9 DEF DialFails, AnswerIsNegotiation
  <2>2. SupportedIsServed'
    BY <1>c, <1>9 DEF DialFails, SupportedIsServed
  <2> QED
    BY <1>8, <1>9, <2>1, <2>2 DEF DialFails
<1>10. ASSUME NEW v \in Version, Decide(v) PROVE Inv'
  <2>1. PICK negotiated \in Seen(attempt[v].cipherSuite) :
           answer' = [answer EXCEPT ![v] = IF negotiated THEN Nil ELSE caller.err]
    BY <1>10 DEF Decide
  <2>2. caller.pc = "decide" /\ caller.v = v /\ caller.err \in Err
    BY <1>a, <1>10 DEF Decide
  <2>3. (IF negotiated THEN Nil ELSE caller.err) = Nil => v \in Negotiates
    BY <1>b, <1>c, <2>1, <2>2 DEF Seen, CallerKnows, SoundFor
  <2>4. (IF negotiated THEN Nil ELSE caller.err) # ExpectedAbort
    BY <1>b, <1>c, <2>1, <2>2 DEF Seen, CallerKnows, SoundFor
  <2>5. answer' \in [Version -> Err \cup {"none"}] /\ AnswerIsNegotiation'
    BY <1>a, <1>c, <2>1, <2>2, <2>3, <2>4 DEF AnswerIsNegotiation
  <2>6. SupportedIsServed'
    BY <1>c, <1>10 DEF Decide, SupportedIsServed
  <2> QED
    BY <1>8, <1>10, <2>5, <2>6 DEF Decide
<1>11. ASSUME NEW v \in Version, Judge(v) PROVE Inv'
  <2>1. PICK provides \in Seen(attempt[v].providesCert) :
           supported' = IF provides THEN supported \cup {v} ELSE supported
    BY <1>11 DEF Judge
  <2>2. SupportedIsServed'
    BY <1>b, <1>c, <2>1 DEF Seen, SoundFor, SupportedIsServed
  <2>3. answer' \in [Version -> Err \cup {"none"}] /\ AnswerIsNegotiation'
    BY <1>a, <1>c, <1>11 DEF Judge, AnswerIsNegotiation
  <2> QED
    BY <1>8, <1>11, <2>2, <2>3 DEF Judge
<1>12. CASE UNCHANGED vars
  BY <1>12 DEF vars, Inv, TypeOK, AttemptsSound, CallerKnows, SupportedIsServed,
               AnswerIsNegotiation, OneConnection
<1> QED
  BY <1>1, <1>2, <1>4, <1>5, <1>6, <1>7, <1>9, <1>10, <1>11, <1>12
     DEF Next, CallerStep, Terminated

LEMMA Invariant == Spec => []Inv
<1> QED
  BY InitInv, NextInv, PTL DEF Spec

-----------------------------------------------------------------------------

\* For every set of versions: the variables keep their types, and a service is
\* only dialled when the timer is set.
THEOREM TypeCorrect == Spec => []TypeOK
<1>1. Inv => TypeOK
  BY DEF Inv
<1> QED
  BY <1>1, Invariant, PTL

\* For every service: getSupportedProtocols lists only versions under which
\* the service shows a certificate, however late an earlier handshake gets it.
THEOREM NoFalseSupport == Spec => []SupportedIsServed
<1>1. Inv => SupportedIsServed
  BY DEF Inv
<1> QED
  BY <1>1, Invariant, PTL

\* For every service: AttemptHandshake answers nil only when a suite was
\* chosen, and never with the abort it provokes itself.
THEOREM AnswersAreTrue == Spec => []AnswerIsNegotiation
<1>1. Inv => AnswerIsNegotiation
  BY DEF Inv
<1> QED
  BY <1>1, Invariant, PTL

\* For every number of versions: one connection is open at a time, that of the
\* attempt the caller waits for.
THEOREM OneAtATime == Spec => []OneConnection
<1>1. Inv => OneConnection
  BY DEF Inv
<1> QED
  BY <1>1, Invariant, PTL

-----------------------------------------------------------------------------
(* Nobody is left behind: what errChannel holds, what may still be sent and *)
(* who waits for it.                                                       *)

\* The timer's function and the handshake report once each, and what neither
\* has sent yet has its place; a handshake runs over a connection.
RoomFor(a) ==
    /\ Len(a.errChannel) <= 2
    /\ a.timer # "end" \/ a.pc # "end" => Len(a.errChannel) <= 1
    /\ a.timer # "end" /\ a.pc # "end" => Len(a.errChannel) <= 0
    /\ a.pc # "off" => a.conn # "none"

\* The timeout, once it is sent, stays for the caller that waits.
Heard ==
    /\ \A v \in Version : RoomFor(attempt[v])
    /\ caller.pc \in {"dial", "wait"} =>
          attempt[caller.v].timer # "end" \/ attempt[caller.v].errChannel # <<>>
    /\ caller.pc = "dial" => attempt[caller.v].pc = "off"

LEMMA Reported ==
    ASSUME NEW q \in Seq(Err), NEW e \in Err
    PROVE  /\ Append(q, e) \in Seq(Err) /\ Len(Append(q, e)) = Len(q) + 1 /\ Append(q, e) # <<>>
           /\ q # <<>> => Len(Tail(q)) = Len(q) - 1 /\ Len(q) > 0
           /\ Len(q) \in Nat
<1>1. Append(q, e) \in Seq(Err) /\ Len(Append(q, e)) = Len(q) + 1 /\ Len(q) \in Nat
  BY AppendProperties, LenProperties
<1>2. Append(q, e) # <<>>
  BY <1>1, EmptySeq
<1>3. q # <<>> => Len(Tail(q)) = Len(q) - 1 /\ Len(q) > 0
  BY <1>1, HeadTailProperties, EmptySeq
<1> QED
  BY <1>1, <1>2, <1>3

\* What a step does to attempt v.
LEMMA Updated ==
    ASSUME Inv, NEW v \in Version, NEW r, Update(v, r)
    PROVE  attempt'[v] = r /\ \A w \in Version \ {v} : attempt'[w] = attempt[w]
BY DEF Inv, TypeOK, Update

LEMMA HeardStep == Inv /\ Heard /\ [Next]_vars => Heard'
<1> SUFFICES ASSUME Inv, Heard, [Next]_vars PROVE Heard'
  OBVIOUS
<1>1. /\ \A v \in Version : /\ attempt[v] \in Attempt /\ attempt[v].errChannel \in Seq(Err)
                            /\ Len(attempt[v].errChannel) \in Nat
      /\ caller.v \in Version
      /\ caller \in [pc : {"next", "dial", "wait", "close", "decide", "judge"},
                     v : Version, err : Err, heard : BOOLEAN]
  BY LenProperties DEF Inv, TypeOK, Attempt
<1>2. ASSUME NEW v \in Version, NEW r, Update(v, r), RoomFor(r), UNCHANGED caller,
             r.timer = "end" => attempt[v].timer = "end" \/ r.errChannel # <<>>,
             attempt[v].errChannel # <<>> => r.errChannel # <<>>,
             attempt[v].pc = "off" => r.pc = "off"
      PROVE  Heard'
  BY <1>1, <1>2, Updated DEF Heard
<1>3. ASSUME NEW v \in Version, Fire(v) PROVE Heard'
  <2>1. PICK r : r = [attempt[v] EXCEPT !.timer = "send"]
    OBVIOUS
  <2>2. /\ r.timer = "send" /\ r.pc = attempt[v].pc /\ r.conn = attempt[v].conn
        /\ r.errChannel = attempt[v].errChannel /\ attempt[v].timer = "set"
    BY <1>1, <1>3, <2>1 DEF Attempt, Fire
  <2>3. RoomFor(r)
    BY <2>2 DEF Heard, RoomFor
  <2> QED
    BY <1>2, <1>3, <2>1, <2>2, <2>3 DEF Fire
<1>4. ASSUME NEW v \in Version, SendTimeout(v) PROVE Heard'
  <2>1. PICK r : r = [attempt[v] EXCEPT !.timer = "end", !.errChannel = Append(@, TimedOut)]
    OBVIOUS
  <2>2. /\ r.timer = "end" /\ r.pc = attempt[v].pc /\ r.conn = attempt[v].conn
        /\ r.errChannel = Append(attempt[v].errChannel, TimedOut) /\ attempt[v].timer = "send"
    BY <1>1, <1>4, <2>1 DEF Attempt, SendTimeout
  <2>3. Len(r.errChannel) = Len(attempt[v].errChannel) + 1 /\ r.errChannel # <<>>
    BY <1>1, <2>2, Reported DEF Err
  <2>4. RoomFor(r)
    BY <1>1, <2>2, <2>3 DEF Heard, RoomFor, Capacity
  <2> QED
    BY <1>2, <1>4, <2>1, <2>2, <2>3, <2>4 DEF SendTimeout
<1>5. ASSUME NEW v \in Version, ServerHello(v) \/ Certificate(v) \/ Finish(v) \/ HandshakeFails(v) PROVE Heard'
  <2>1. PICK r : Update(v, r) /\ r.timer = attempt[v].timer /\ r.conn = attempt[v].conn
                 /\ r.errChannel = attempt[v].errChannel /\ r.pc \notin {"off", "end"}
                 /\ attempt[v].pc \notin {"off", "end"}
    <3>1. CASE ServerHello(v)
      <4>1. PICK r : r = [attempt[v] EXCEPT !.pc = "certificate", !.cipherSuite = TRUE]
        OBVIOUS
      <4>2. /\ r.timer = attempt[v].timer /\ r.conn = attempt[v].conn
            /\ r.errChannel = attempt[v].errChannel /\ r.pc = "certificate"
        BY <1>1, <4>1 DEF Attempt
      <4> QED
        BY <3>1, <4>1, <4>2 DEF ServerHello
    <3>2. CASE Certificate(v)
      <4>1. PICK r : r = [attempt[v] EXCEPT !.pc = "finish", !.providesCert = TRUE]
        OBVIOUS
      <4>2. /\ r.timer = attempt[v].timer /\ r.conn = attempt[v].conn
            /\ r.errChannel = attempt[v].errChannel /\ r.pc = "finish"
        BY <1>1, <4>1 DEF Attempt
      <4> QED
        BY <3>2, <4>1, <4>2 DEF Certificate
    <3>3. CASE Finish(v)
      <4>1. PICK r : r = [attempt[v] EXCEPT !.pc = "send", !.result = IF v \in Requests THEN ExpectedAbort ELSE Nil]
        OBVIOUS
      <4>2. /\ r.timer = attempt[v].timer /\ r.conn = attempt[v].conn
            /\ r.errChannel = attempt[v].errChannel /\ r.pc = "send"
        BY <1>1, <4>1 DEF Attempt
      <4> QED
        BY <3>3, <4>1, <4>2 DEF Finish
    <3>4. CASE HandshakeFails(v)
      <4>1. PICK r : r = [attempt[v] EXCEPT !.pc = "send", !.result = Failed]
        OBVIOUS
      <4>2. /\ r.timer = attempt[v].timer /\ r.conn = attempt[v].conn
            /\ r.errChannel = attempt[v].errChannel /\ r.pc = "send"
        BY <1>1, <4>1 DEF Attempt
      <4> QED
        BY <3>4, <4>1, <4>2 DEF HandshakeFails
    <3> QED
      BY <1>5, <3>1, <3>2, <3>3, <3>4
  <2>2. RoomFor(r)
    BY <2>1 DEF Heard, RoomFor
  <2> QED
    BY <1>2, <1>5, <2>1, <2>2 DEF ServerHello, Certificate, Finish, HandshakeFails
<1>6. ASSUME NEW v \in Version, SendResult(v) PROVE Heard'
  <2>1. PICK r : r = [attempt[v] EXCEPT !.pc = "end", !.errChannel = Append(@, attempt[v].result)]
    OBVIOUS
  <2>2. /\ r.timer = attempt[v].timer /\ r.pc = "end" /\ r.conn = attempt[v].conn
        /\ r.errChannel = Append(attempt[v].errChannel, attempt[v].result) /\ attempt[v].pc = "send"
        /\ attempt[v].result \in Err
    BY <1>1, <1>6, <2>1 DEF Attempt, SendResult
  <2>3. Len(r.errChannel) = Len(attempt[v].errChannel) + 1 /\ r.errChannel # <<>>
    BY <1>1, <2>2, Reported
  <2>4. RoomFor(r)
    BY <1>1, <2>2, <2>3 DEF Heard, RoomFor, Capacity
  <2> QED
    BY <1>2, <1>6, <2>1, <2>2, <2>3, <2>4 DEF SendResult
<1>7. ASSUME NEW v \in Version, Begin(v) PROVE Heard'
  <2>1. PICK r : r = [attempt[v] EXCEPT !.timer = "set"]
    OBVIOUS
  <2>2. /\ r.timer = "set" /\ r.pc = attempt[v].pc /\ r.conn = attempt[v].conn
        /\ r.errChannel = attempt[v].errChannel /\ attempt[v].timer = "off"
    BY <1>1, <1>7, <2>1 DEF Attempt, Begin
  <2>3. RoomFor(r) /\ r.pc = "off"
    BY <2>2 DEF Heard, RoomFor, Inv, TypeOK
  <2>4. caller'.v = v /\ caller'.pc = "dial"
    BY <1>7 DEF Begin
  <2> QED
    <3>1. attempt'[v] = r /\ \A w \in Version \ {v} : attempt'[w] = attempt[w]
      BY <1>7, <2>1, Updated DEF Begin
    <3>2. \A w \in Version : RoomFor(attempt'[w])
      BY <2>3, <3>1 DEF Heard
    <3> QED
      BY <2>2, <2>3, <2>4, <3>1, <3>2 DEF Heard
<1>8. ASSUME NEW v \in Version, Dial(v) PROVE Heard'
  <2>1. PICK r : r = [attempt[v] EXCEPT !.conn = "open", !.pc = "hello"]
    OBVIOUS
  <2>2. /\ r.timer = attempt[v].timer /\ r.pc = "hello" /\ r.conn = "open"
        /\ r.errChannel = attempt[v].errChannel /\ caller.pc = "dial" /\ caller.v = v
    BY <1>1, <1>8, <2>1 DEF Attempt, Dial
  <2>3. RoomFor(r)
    BY <2>2 DEF Heard, RoomFor
  <2>4. caller'.v = v /\ caller'.pc = "wait"
    BY <1>1, <1>8 DEF Dial
  <2> QED
    <3>1. attempt'[v] = r /\ \A w \in Version \ {v} : attempt'[w] = attempt[w]
      BY <1>8, <2>1, Updated DEF Dial
    <3>2. \A w \in Version : RoomFor(attempt'[w])
      BY <2>3, <3>1 DEF Heard
    <3>3. r.timer # "end" \/ r.errChannel # <<>>
      BY <2>2 DEF Heard
    <3> QED
      BY <2>4, <3>1, <3>2, <3>3 DEF Heard
<1>9. ASSUME NEW v \in Version, ReceiveErr(v) PROVE Heard'
  <2>1. PICK r : r = [attempt[v] EXCEPT !.errChannel = Tail(@)]
    OBVIOUS
  <2>2. /\ r.timer = attempt[v].timer /\ r.pc = attempt[v].pc /\ r.conn = attempt[v].conn
        /\ r.errChannel = Tail(attempt[v].errChannel)
    BY <1>1, <2>1 DEF Attempt
  <2>3. Len(r.errChannel) = Len(attempt[v].errChannel) - 1
    BY <1>1, <1>9, <2>2, Reported DEF ReceiveErr, Err
  <2>4. RoomFor(r)
    BY <1>1, <2>2, <2>3 DEF Heard, RoomFor, Capacity
  <2>5. caller'.pc = "close"
    BY <1>1, <1>9 DEF ReceiveErr
  <2> QED
    BY <1>9, <2>1, <2>4, <2>5, Updated DEF ReceiveErr, Heard
<1>10. ASSUME NEW v \in Version, Close(v) PROVE Heard'
  <2>1. PICK r : r = [attempt[v] EXCEPT !.conn = "closed"]
    OBVIOUS
  <2>2. /\ r.timer = attempt[v].timer /\ r.pc = attempt[v].pc /\ r.conn = "closed"
        /\ r.errChannel = attempt[v].errChannel
    BY <1>1, <2>1 DEF Attempt
  <2>3. RoomFor(r)
    BY <2>2 DEF Heard, RoomFor
  <2>4. caller'.pc = "decide"
    BY <1>1, <1>10 DEF Close
  <2> QED
    BY <1>10, <2>1, <2>3, <2>4, Updated DEF Close, Heard
<1>11. ASSUME NEW v \in Version, DialFails(v) \/ Decide(v) \/ Judge(v) PROVE Heard'
  <2>1. UNCHANGED attempt /\ caller'.pc \in {"judge", "next"}
    BY <1>1, <1>11 DEF DialFails, Decide, Judge
  <2> QED
    BY <2>1 DEF Heard
<1>12. CASE UNCHANGED vars
  BY <1>12 DEF vars, Heard
<1> QED
  BY <1>3, <1>4, <1>5, <1>6, <1>7, <1>8, <1>9, <1>10, <1>11, <1>12
     DEF Next, CallerStep, TimerStep, HandshakeStep, Terminated

LEMMA HeardInvariant == Spec => [](Inv /\ Heard)
<1>1. Init => Heard
  <2> SUFFICES ASSUME Init PROVE Heard
    OBVIOUS
  <2>1. \A v \in Version : attempt[v] = NotMade
    BY DEF Init
  <2>2. NotMade.timer = "off" /\ NotMade.pc = "off" /\ NotMade.errChannel = <<>>
    BY DEF NotMade
  <2>3. Len(<<>>) = 0
    OBVIOUS
  <2>4. RoomFor(NotMade)
    BY <2>2, <2>3 DEF RoomFor, Capacity
  <2>5. caller.pc = "next"
    BY DEF Init
  <2> QED
    BY <2>1, <2>4, <2>5 DEF Heard
<1> QED
  BY <1>1, HeardStep, InitInv, NextInv, PTL DEF Spec

\* For every service: the timer's function and the handshake, also one that is
\* left over from an attempt long given up, always find room to report in
\* errChannel; neither is blocked there for good.
THEOREM ReportsFindRoom ==
    Spec => [](\A v \in Version : attempt[v].timer = "send" \/ attempt[v].pc = "send"
                                     => Len(attempt[v].errChannel) < Capacity)
<1>1. Inv /\ Heard => \A v \in Version : attempt[v].timer = "send" \/ attempt[v].pc = "send"
                                            => Len(attempt[v].errChannel) < Capacity
  <2> SUFFICES ASSUME Inv, Heard, NEW v \in Version, attempt[v].timer = "send" \/ attempt[v].pc = "send"
               PROVE  Len(attempt[v].errChannel) < Capacity
    OBVIOUS
  <2>1. Len(attempt[v].errChannel) \in Nat
    BY LenProperties DEF Inv, TypeOK, Attempt
  <2> QED
    BY <2>1 DEF Heard, RoomFor, Capacity
<1> QED
  BY <1>1, HeardInvariant, PTL

\* The steps that wait for no answer of the service: a handshake goes on by
\* itself only when its connection is closed.
CanGo ==
    \/ caller.pc \in {"dial", "close", "decide", "judge"}
    \/ \E v \in Version :
          \/ caller.pc = "next" /\ attempt[v].timer = "off"
          \/ caller.pc = "wait" /\ caller.v = v /\ attempt[v].errChannel # <<>>
          \/ attempt[v].timer = "set"
          \/ attempt[v].timer = "send" /\ Len(attempt[v].errChannel) < Capacity
          \/ attempt[v].pc \in {"hello", "certificate", "finish"} /\ attempt[v].conn = "closed"
          \/ attempt[v].pc = "send" /\ Len(attempt[v].errChannel) < Capacity

\* For every set of versions and every service, one that never answers too:
\* all versions are tried and all goroutines have ended, or one of them goes on
\* without the service.
THEOREM NeverStuck == Spec => [](AllEnded \/ CanGo)
<1>1. Inv /\ Heard => AllEnded \/ CanGo
  <2> SUFFICES ASSUME Inv, Heard, ~CanGo PROVE AllEnded
    OBVIOUS
  <2>1. /\ caller.pc \in {"next", "wait"} /\ caller.v \in Version
        /\ \A v \in Version : attempt[v] \in Attempt /\ Len(attempt[v].errChannel) \in Nat
    BY LenProperties DEF Inv, TypeOK, Attempt, CanGo
  <2>2. \A v \in Version : attempt[v].timer \in {"off", "end"} /\ attempt[v].pc # "send"
    <3> SUFFICES ASSUME NEW v \in Version PROVE attempt[v].timer \in {"off", "end"} /\ attempt[v].pc # "send"
      OBVIOUS
    <3>1. attempt[v].timer = "send" \/ attempt[v].pc = "send" => Len(attempt[v].errChannel) < Capacity
      BY <2>1 DEF Heard, RoomFor, Capacity
    <3>2. attempt[v].timer \in {"off", "set", "send", "end"}
      BY <2>1 DEF Attempt
    <3> QED
      BY <3>1, <3>2 DEF CanGo
  <2>3. caller.pc = "next"
    <3> SUFFICES ASSUME caller.pc = "wait" PROVE FALSE
      BY <2>1
    <3>1. attempt[caller.v].timer = "end"
      BY <2>1, <2>2 DEF Inv, CallerKnows
    <3> QED
      BY <2>1, <3>1 DEF Heard, CanGo
  <2>4. \A v \in Version : attempt[v].timer = "end"
    BY <2>2, <2>3 DEF CanGo
  <2>5. \A v \in Version : attempt[v].pc \in {"off", "end"}
    <3> SUFFICES ASSUME NEW v \in Version, attempt[v].pc \in {"hello", "certificate", "finish"} PROVE FALSE
      BY <2>1, <2>2 DEF Attempt
    <3>1. attempt[v].conn \in {"none", "open", "closed"} /\ attempt[v].conn # "none"
      BY <2>1 DEF Attempt, Heard, RoomFor
    <3>2. attempt[v].conn # "open"
      BY <2>3 DEF Inv, OneConnection
    <3> QED
      BY <3>1, <3>2 DEF CanGo
  <2> QED
    BY <2>3, <2>4, <2>5 DEF AllEnded
<1> QED
  BY <1>1, HeardInvariant, PTL

-----------------------------------------------------------------------------
(* How much is left to do.                                                 *)

CallerRank(pc) ==
    IF pc = "dial" THEN 5 ELSE IF pc = "wait" THEN 4 ELSE IF pc = "close" THEN 3
    ELSE IF pc = "decide" THEN 2 ELSE IF pc = "judge" THEN 1 ELSE 0
TimerRank(pc) == IF pc = "off" THEN 3 ELSE IF pc = "set" THEN 2 ELSE IF pc = "send" THEN 1 ELSE 0
HandshakeRank(pc) ==
    IF pc = "off" THEN 5 ELSE IF pc = "hello" THEN 4 ELSE IF pc = "certificate" THEN 3
    ELSE IF pc = "finish" THEN 2 ELSE IF pc = "send" THEN 1 ELSE 0

Ahead(rank) == {r \in Version \X (1..5) : r[2] <= rank[r[1]]}
TimersLeft == [v \in Version |-> TimerRank(attempt[v].timer)]
HandshakesLeft == [v \in Version |-> HandshakeRank(attempt[v].pc)]

\* The caller starts again with each version, whose timer it sets.
StepsLeft ==
    6 * Cardinality(Ahead(TimersLeft)) + Cardinality(Ahead(HandshakesLeft)) + CallerRank(caller.pc)

LEMMA Ranks ==
    /\ CallerRank("dial") = 5 /\ CallerRank("wait") = 4 /\ CallerRank("close") = 3
    /\ CallerRank("decide") = 2 /\ CallerRank("judge") = 1 /\ CallerRank("next") = 0
    /\ TimerRank("off") = 3 /\ TimerRank("set") = 2 /\ TimerRank("send") = 1 /\ TimerRank("end") = 0
    /\ HandshakeRank("off") = 5 /\ HandshakeRank("hello") = 4 /\ HandshakeRank("certificate") = 3
    /\ HandshakeRank("finish") = 2 /\ HandshakeRank("send") = 1 /\ HandshakeRank("end") = 0
BY DEF CallerRank, TimerRank, HandshakeRank

LEMMA RankTypes ==
    \A pc : CallerRank(pc) \in 0..5 /\ TimerRank(pc) \in 0..5 /\ HandshakeRank(pc) \in 0..5
<1>1. \A pc : CallerRank(pc) \in 0..5
  BY DEF CallerRank
<1>2. \A pc : TimerRank(pc) \in 0..5
  BY DEF TimerRank
<1>3. \A pc : HandshakeRank(pc) \in 0..5
  BY DEF HandshakeRank
<1> QED
  BY <1>1, <1>2, <1>3

\* Attempts that have come further, or stayed, have less ahead of them.
LEMMA AheadShrinks ==
    ASSUME NEW f \in [Version -> 0..5], NEW g \in [Version -> 0..5], \A v \in Version : g[v] <= f[v]
    PROVE  /\ Cardinality(Ahead(f)) \in Nat /\ Cardinality(Ahead(g)) \in Nat
           /\ Cardinality(Ahead(g)) <= Cardinality(Ahead(f))
           /\ (\E v \in Version : g[v] < f[v]) => Cardinality(Ahead(g)) < Cardinality(Ahead(f))
<1>1. IsFiniteSet(Version \X (1..5))
  <2>1. \A k \in Nat : IsFiniteSet(1..k)
    BY FS_Interval
  <2> QED
    BY <2>1, ServiceAssumption, FS_Product
<1>2. Ahead(f) \subseteq Version \X (1..5) /\ Ahead(g) \subseteq Ahead(f)
  BY DEF Ahead
<1>3. IsFiniteSet(Ahead(f)) /\ Cardinality(Ahead(f)) \in Nat
  BY <1>1, <1>2, FS_Subset, FS_CardinalityType
<1>4. /\ IsFiniteSet(Ahead(g)) /\ Cardinality(Ahead(g)) \in Nat
      /\ Cardinality(Ahead(g)) <= Cardinality(Ahead(f))
      /\ Ahead(g) # Ahead(f) => Cardinality(Ahead(g)) # Cardinality(Ahead(f))
  BY <1>2, <1>3, FS_Subset, FS_CardinalityType
<1>5. ASSUME NEW v \in Version, g[v] < f[v] PROVE Ahead(g) # Ahead(f)
  <2>1. f[v] \in 1..5
    BY <1>5
  <2>2. <<v, f[v]>> \in Ahead(f) /\ <<v, f[v]>> \notin Ahead(g)
    BY <1>5, <2>1 DEF Ahead
  <2> QED
    BY <2>2
<1> QED
  BY <1>3, <1>4, <1>5

LEMMA StepsLeftType == StepsLeft \in Nat
<1>1. TimersLeft \in [Version -> 0..5] /\ HandshakesLeft \in [Version -> 0..5]
  BY RankTypes DEF TimersLeft, HandshakesLeft
<1>2. Cardinality(Ahead(TimersLeft)) \in Nat /\ Cardinality(Ahead(HandshakesLeft)) \in Nat
  <2>1. \A f \in [Version -> 0..5] : Cardinality(Ahead(f)) \in Nat
    BY AheadShrinks
  <2> QED
    BY <1>1, <2>1
<1>3. CallerRank(caller.pc) \in 0..5
  BY RankTypes
<1> QED
  BY <1>2, <1>3 DEF StepsLeft

\* What a step has to show: the attempts do not go back, and the caller, when
\* it begins again, has set a timer.
LEMMA Forward ==
    ASSUME \A v \in Version : /\ TimerRank(attempt'[v].timer) <= TimerRank(attempt[v].timer)
                              /\ HandshakeRank(attempt'[v].pc) <= HandshakeRank(attempt[v].pc),
           \/ \E v \in Version : TimerRank(attempt'[v].timer) < TimerRank(attempt[v].timer)
           \/ /\ CallerRank(caller'.pc) <= CallerRank(caller.pc)
              /\ \/ CallerRank(caller'.pc) < CallerRank(caller.pc)
                 \/ \E v \in Version : HandshakeRank(attempt'[v].pc) < HandshakeRank(attempt[v].pc)
    PROVE  StepsLeft' < StepsLeft
<1>1. PICK f, f1, g, g1 :
         f = TimersLeft /\ f1 = TimersLeft' /\ g = HandshakesLeft /\ g1 = HandshakesLeft'
  OBVIOUS
<1>2. /\ f \in [Version -> 0..5] /\ f1 \in [Version -> 0..5]
      /\ g \in [Version -> 0..5] /\ g1 \in [Version -> 0..5]
  BY <1>1, RankTypes DEF TimersLeft, HandshakesLeft
<1>3. /\ \A v \in Version : f[v] = TimerRank(attempt[v].timer) /\ f1[v] = TimerRank(attempt'[v].timer)
      /\ \A v \in Version : g[v] = HandshakeRank(attempt[v].pc) /\ g1[v] = HandshakeRank(attempt'[v].pc)
  BY <1>1 DEF TimersLeft, HandshakesLeft
<1>4. PICK a, a1, b, b1, c, c1 :
         /\ a = Cardinality(Ahead(f)) /\ a1 = Cardinality(Ahead(f1))
         /\ b = Cardinality(Ahead(g)) /\ b1 = Cardinality(Ahead(g1))
         /\ c = CallerRank(caller.pc) /\ c1 = CallerRank(caller'.pc)
  OBVIOUS
<1>5. StepsLeft = 6 * a + b + c /\ StepsLeft' = 6 * a1 + b1 + c1
  BY <1>1, <1>4 DEF StepsLeft, Ahead
<1>6. a \in Nat /\ a1 \in Nat /\ a1 <= a /\ ((\E v \in Version : f1[v] < f[v]) => a1 < a)
  BY <1>2, <1>3, <1>4, AheadShrinks
<1>7. b \in Nat /\ b1 \in Nat /\ b1 <= b /\ ((\E v \in Version : g1[v] < g[v]) => b1 < b)
  BY <1>2, <1>3, <1>4, AheadShrinks
<1>8. c \in 0..5 /\ c1 \in 0..5
  BY <1>4, RankTypes
<1>9. a1 < a \/ (c1 <= c /\ (c1 < c \/ b1 < b))
  BY <1>3, <1>4, <1>6, <1>7
<1> QED
  BY <1>5, <1>6, <1>7, <1>8, <1>9

\* A step of one attempt.
LEMMA AttemptForward ==
    ASSUME Inv, NEW v \in Version, NEW r, Update(v, r),
           TimerRank(r.timer) <= TimerRank(attempt[v].timer),
           HandshakeRank(r.pc) <= HandshakeRank(attempt[v].pc),
           \/ TimerRank(r.timer) < TimerRank(attempt[v].timer)
           \/ /\ CallerRank(caller'.pc) <= CallerRank(caller.pc)
              /\ \/ CallerRank(caller'.pc) < CallerRank(caller.pc)
                 \/ HandshakeRank(r.pc) < HandshakeRank(attempt[v].pc)
    PROVE  StepsLeft' < StepsLeft
<1>1. attempt'[v] = r /\ \A w \in Version \ {v} : attempt'[w] = attempt[w]
  BY Updated
<1>2. \A w \in Version : /\ TimerRank(attempt'[w].timer) <= TimerRank(attempt[w].timer)
                         /\ HandshakeRank(attempt'[w].pc) <= HandshakeRank(attempt[w].pc)
  BY <1>1, RankTypes
<1> QED
  BY <1>1, <1>2, Forward

LEMMA StepCounts == ASSUME Inv, Heard, Next, ~Terminated PROVE StepsLeft' < StepsLeft
<1>1. /\ \A v \in Version : attempt[v] \in Attempt
      /\ caller \in [pc : {"next", "dial", "wait", "close", "decide", "judge"},
                     v : Version, err : Err, heard : BOOLEAN]
  BY DEF Inv, TypeOK
<1>2. \A pc : /\ CallerRank(pc) <= CallerRank(pc) /\ TimerRank(pc) <= TimerRank(pc)
              /\ HandshakeRank(pc) <= HandshakeRank(pc)
  BY RankTypes
<1>3. ASSUME NEW v \in Version, TimerStep(v) PROVE StepsLeft' < StepsLeft
  <2>1. \E r : /\ Update(v, r) /\ r.pc = attempt[v].pc
               /\ <<attempt[v].timer, r.timer>> \in {<<"set", "send">>, <<"send", "end">>}
    <3>1. CASE Fire(v)
      <4>1. PICK r : r = [attempt[v] EXCEPT !.timer = "send"]
        OBVIOUS
      <4>2. r.timer = "send" /\ r.pc = attempt[v].pc
        BY <1>1, <4>1 DEF Attempt
      <4> QED
        BY <3>1, <4>1, <4>2 DEF Fire
    <3>2. CASE SendTimeout(v)
      <4>1. PICK r : r = [attempt[v] EXCEPT !.timer = "end", !.errChannel = Append(@, TimedOut)]
        OBVIOUS
      <4>2. r.timer = "end" /\ r.pc = attempt[v].pc
        BY <1>1, <4>1 DEF Attempt
      <4> QED
        BY <3>2, <4>1, <4>2 DEF SendTimeout
    <3> QED
      BY <1>3, <3>1, <3>2 DEF TimerStep
  <2>2. PICK r, a, b : Update(v, r) /\ r.pc = attempt[v].pc /\ a = attempt[v].timer /\ b = r.timer
                       /\ <<a, b>> \in {<<"set", "send">>, <<"send", "end">>}
    BY <2>1
  <2>3. TimerRank(b) < TimerRank(a)
    BY <2>2, Ranks
  <2>4. TimerRank(b) <= TimerRank(a)
    BY <2>3, RankTypes
  <2> QED
    BY <1>2, <2>2, <2>3, <2>4, AttemptForward
<1>4. ASSUME NEW v \in Version, HandshakeStep(v) PROVE StepsLeft' < StepsLeft
  <2>1. \E r : /\ Update(v, r) /\ r.timer = attempt[v].timer
               /\ <<attempt[v].pc, r.pc>> \in {<<"hello", "certificate">>, <<"certificate", "finish">>, <<"finish", "send">>,
                                               <<"hello", "send">>, <<"certificate", "send">>, <<"send", "end">>}
    <3>1. CASE ServerHello(v)
      <4>1. PICK r : r = [attempt[v] EXCEPT !.pc = "certificate", !.cipherSuite = TRUE]
        OBVIOUS
      <4>2. r.timer = attempt[v].timer /\ r.pc = "certificate"
        BY <1>1, <4>1 DEF Attempt
      <4> QED
        BY <3>1, <4>1, <4>2 DEF ServerHello
    <3>2. CASE Certificate(v)
      <4>1. PICK r : r = [attempt[v] EXCEPT !.pc = "finish", !.providesCert = TRUE]
        OBVIOUS
      <4>2. r.timer = attempt[v].timer /\ r.pc = "finish"
        BY <1>1, <4>1 DEF Attempt
      <4> QED
        BY <3>2, <4>1, <4>2 DEF Certificate
    <3>3. CASE Finish(v)
      <4>1. PICK r : r = [attempt[v] EXCEPT !.pc = "send", !.result = IF v \in Requests THEN ExpectedAbort ELSE Nil]
        OBVIOUS
      <4>2. r.timer = attempt[v].timer /\ r.pc = "send"
        BY <1>1, <4>1 DEF Attempt
      <4> QED
        BY <3>3, <4>1, <4>2 DEF Finish
    <3>4. CASE HandshakeFails(v)
      <4>1. PICK r : r = [attempt[v] EXCEPT !.pc = "send", !.result = Failed]
        OBVIOUS
      <4>2. r.timer = attempt[v].timer /\ r.pc = "send"
        BY <1>1, <4>1 DEF Attempt
      <4> QED
        BY <3>4, <4>1, <4>2 DEF HandshakeFails
    <3>5. CASE SendResult(v)
      <4>1. PICK r : r = [attempt[v] EXCEPT !.pc = "end", !.errChannel = Append(@, attempt[v].result)]
        OBVIOUS
      <4>2. r.timer = attempt[v].timer /\ r.pc = "end"
        BY <1>1, <4>1 DEF Attempt
      <4> QED
        BY <3>5, <4>1, <4>2 DEF SendResult
    <3> QED
      BY <1>4, <3>1, <3>2, <3>3, <3>4, <3>5 DEF HandshakeStep
  <2>2. PICK r, a, b : /\ Update(v, r) /\ r.timer = attempt[v].timer /\ a = attempt[v].pc /\ b = r.pc
                       /\ <<a, b>> \in {<<"hello", "certificate">>, <<"certificate", "finish">>, <<"finish", "send">>,
                                        <<"hello", "send">>, <<"certificate", "send">>, <<"send", "end">>}
    BY <2>1
  <2>3. HandshakeRank(b) < HandshakeRank(a)
    BY <2>2, Ranks
  <2>4. HandshakeRank(b) <= HandshakeRank(a)
    BY <2>3, RankTypes
  <2>5. UNCHANGED caller
    BY <1>4 DEF HandshakeStep, ServerHello, Certificate, Finish, HandshakeFails, SendResult
  <2> QED
    BY <1>2, <2>2, <2>3, <2>4, <2>5, AttemptForward
<1>5. ASSUME NEW v \in Version, Begin(v) PROVE StepsLeft' < StepsLeft
  <2>1. PICK r : r = [attempt[v] EXCEPT !.timer = "set"]
    OBVIOUS
  <2>2. r.timer = "set" /\ r.pc = attempt[v].pc /\ attempt[v].timer = "off" /\ Update(v, r)
    BY <1>1, <1>5, <2>1 DEF Attempt, Begin
  <2>3. TimerRank(r.timer) < TimerRank(attempt[v].timer) /\ TimerRank(r.timer) <= TimerRank(attempt[v].timer)
    BY <2>2, Ranks
  <2> QED
    BY <1>2, <2>2, <2>3, AttemptForward
<1>6. ASSUME NEW v \in Version, Dial(v) PROVE StepsLeft' < StepsLeft
  <2>1. PICK r : r = [attempt[v] EXCEPT !.conn = "open", !.pc = "hello"]
    OBVIOUS
  <2>2. r.timer = attempt[v].timer /\ r.pc = "hello" /\ Update(v, r)
    BY <1>1, <1>6, <2>1 DEF Attempt, Dial
  <2>3. caller.pc = "dial" /\ caller'.pc = "wait" /\ attempt[v].pc = "off"
    BY <1>1, <1>6 DEF Dial, Heard
  <2>4. /\ CallerRank(caller'.pc) < CallerRank(caller.pc) /\ CallerRank(caller'.pc) <= CallerRank(caller.pc)
        /\ HandshakeRank(r.pc) <= HandshakeRank(attempt[v].pc)
    BY <2>2, <2>3, Ranks
  <2> QED
    BY <1>2, <2>2, <2>4, AttemptForward
<1>7. ASSUME NEW v \in Version, ReceiveErr(v) \/ Close(v) PROVE StepsLeft' < StepsLeft
  <2>1. \E r : /\ Update(v, r) /\ r.timer = attempt[v].timer /\ r.pc = attempt[v].pc
               /\ <<caller.pc, caller'.pc>> \in {<<"wait", "close">>, <<"close", "decide">>}
    <3>1. CASE ReceiveErr(v)
      <4>1. PICK r : r = [attempt[v] EXCEPT !.errChannel = Tail(@)]
        OBVIOUS
      <4>2. r.timer = attempt[v].timer /\ r.pc = attempt[v].pc
        BY <1>1, <4>1 DEF Attempt
      <4>3. caller.pc = "wait" /\ caller'.pc = "close"
        BY <1>1, <3>1 DEF ReceiveErr
      <4> QED
        BY <3>1, <4>1, <4>2, <4>3 DEF ReceiveErr
    <3>2. CASE Close(v)
      <4>1. PICK r : r = [attempt[v] EXCEPT !.conn = "closed"]
        OBVIOUS
      <4>2. r.timer = attempt[v].timer /\ r.pc = attempt[v].pc
        BY <1>1, <4>1 DEF Attempt
      <4>3. caller.pc = "close" /\ caller'.pc = "decide"
        BY <1>1, <3>2 DEF Close
      <4> QED
        BY <3>2, <4>1, <4>2, <4>3 DEF Close
    <3> QED
      BY <1>7, <3>1, <3>2
  <2>2. PICK r : /\ Update(v, r) /\ r.timer = attempt[v].timer /\ r.pc = attempt[v].pc
                 /\ <<caller.pc, caller'.pc>> \in {<<"wait", "close">>, <<"close", "decide">>}
    BY <2>1
  <2>3. /\ CallerRank(caller'.pc) < CallerRank(caller.pc) /\ CallerRank(caller'.pc) <= CallerRank(caller.pc)
    BY <2>2, Ranks
  <2> QED
    BY <1>2, <2>2, <2>3, AttemptForward
<1>8. ASSUME NEW v \in Version, DialFails(v) \/ Decide(v) \/ Judge(v) PROVE StepsLeft' < StepsLeft
  <2>1. /\ UNCHANGED attempt
        /\ <<caller.pc, caller'.pc>> \in {<<"dial", "judge">>, <<"decide", "judge">>, <<"judge", "next">>}
    BY <1>1, <1>8 DEF DialFails, Decide, Judge
  <2>2. CallerRank(caller'.pc) < CallerRank(caller.pc) /\ CallerRank(caller'.pc) <= CallerRank(caller.pc)
    BY <2>1, Ranks
  <2> QED
    BY <1>2, <2>1, <2>2, Forward
<1> QED
  BY <1>3, <1>4, <1>5, <1>6, <1>7, <1>8 DEF Next, CallerStep

\* Every step leaves less to do, for every set of versions: with NeverStuck,
\* getSupportedProtocols ends whatever the service does.
THEOREM EveryStepCounts == Spec => [](StepsLeft \in Nat) /\ [][StepsLeft' < StepsLeft]_vars
<1>1. Inv /\ Heard /\ [Next]_vars => [StepsLeft' < StepsLeft]_vars
  BY StepCounts DEF Terminated
<1> QED
  BY <1>1, StepsLeftType, HeardInvariant, PTL DEF Spec
=============================================================================
