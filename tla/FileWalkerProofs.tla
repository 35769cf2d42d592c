-------------------------- MODULE FileWalkerProofs --------------------------
(***************************************************************************)
(* Proofs about the concurrent file walk, for every tree, every set of     *)
(* regexes and every pool size.                                            *)
(*                                                                         *)
(* The inductive invariant Inv joins the types, what the WaitGroup counts  *)
(* and the order in which the goroutines finish.  NoPanic follows from it: *)
(* a worker about to send or to release is busy, so the WaitGroup is not   *)
(* zero, so the closer has not passed wg.Wait and has closed nothing.      *)
(* For what Walk() returns, Collecting adds where the files are: each      *)
(* regular file visited is in one of five places and there once, and each  *)
(* step moves one file from one place to the next.                         *)
(* At the end: the goroutines never all wait for each other (NeverStuck),  *)
(* and each step leaves fewer to come (EveryStepCounts).                   *)
(***************************************************************************)
EXTENDS FileWalker, FiniteSetTheorems, SequenceTheorems, NaturalsInduction, WellFoundedInduction, TLAPS

Inv == TypeOK /\ WaitGroupCounts /\ ClosingOrder

\* The workers are finitely many, so that the busy ones can be counted.
LEMMA BusyFinite ==
    /\ IsFiniteSet(Workers) /\ IsFiniteSet(Busy) /\ Cardinality(Busy) \in Nat
<1>1. IsFiniteSet(Workers)
  BY MaxInFlightAssumption, FS_Interval, FS_EmptySet DEF Workers
<1>2. Busy \subseteq Workers
  BY DEF Busy
<1> QED
  BY <1>1, <1>2, FS_Subset, FS_CardinalityType

\* A worker that takes up a job is one more, one that has recorded it is one
\* less to count.
LEMMA BusyChanges ==
    ASSUME NEW w \in Workers
    PROVE  /\ w \notin Busy /\ Busy' = Busy \cup {w} => Cardinality(Busy') = Cardinality(Busy) + 1
           /\ w \in Busy /\ Busy' = Busy \ {w} => Cardinality(Busy') = Cardinality(Busy) - 1
BY BusyFinite, FS_AddElement, FS_RemoveElement

\* Channels as sequences: what a send and a receive do to contents and length.
LEMMA ChannelOps ==
    ASSUME NEW S, NEW q \in Seq(S)
    PROVE  /\ \A e \in S : Append(q, e) \in Seq(S) /\ Len(Append(q, e)) = Len(q) + 1
           /\ q # <<>> => /\ Head(q) \in S /\ Tail(q) \in Seq(S)
                          /\ Len(q) > 0 /\ Len(Tail(q)) = Len(q) - 1
           /\ Len(q) \in Nat
BY HeadTailProperties, AppendProperties, LenProperties, EmptySeq

\* The channel done of capacity one: sending into it and receiving from it.
LEMMA SoleElement ==
    ASSUME NEW e
    PROVE  Append(<<>>, e) = <<e>> /\ Head(<<e>>) = e /\ Tail(<<e>>) = <<>>
OBVIOUS

LEMMA InitInv == Init => Inv
<1> SUFFICES ASSUME Init PROVE Inv
  OBVIOUS
<1> USE DEF Init
<1>1. TypeOK
  <2>1. \A w \in Workers : 1 \in 1..Len(ContentRegexes)
    BY MatchAssumption, LenProperties, EmptySeq DEF Workers
  <2> QED
    BY <2>1, TreeAssumption, MaxInFlightAssumption
    DEF TypeOK, WalkerState, WorkerState, CloserState, CallerState,
        Error, NoError, AccessError
<1>2. WaitGroupCounts
  <2>1. Busy = {}
    BY DEF Busy
  <2> QED
    BY <2>1, FS_EmptySet DEF WaitGroupCounts
<1>3. ClosingOrder
  BY DEF ClosingOrder
<1> QED
  BY <1>1, <1>2, <1>3 DEF Inv

\* A busy worker keeps the WaitGroup above zero, and so the closer waiting.
LEMMA BusyKeepsWaiting ==
    ASSUME Inv, NEW w \in Workers, worker[w].pc \in {"check", "emit", "release"}
    PROVE  wg \in Nat /\ wg > 0 /\ closer.pc \in {"receive", "wait"}
<1>1. w \in Busy
  BY DEF Busy
<1>2. Cardinality(Busy) \in Nat /\ Cardinality(Busy) # 0
  BY <1>1, BusyFinite, FS_EmptySet
<1>3. Len(regexQueue) \in Nat /\ wg \in Nat
  BY LenProperties DEF Inv, TypeOK
<1>4. wg = (IF walker.pc = "enqueue" THEN 1 ELSE 0) + Len(regexQueue) + Cardinality(Busy)
  BY DEF Inv, WaitGroupCounts
<1>5. wg > 0
  BY <1>2, <1>3, <1>4
<1>6. closer.pc \notin {"receive", "wait"} => wg = 0
  BY DEF Inv, ClosingOrder
<1> QED
  BY <1>3, <1>5, <1>6

\* Every step keeps the types and the channels within their capacity.
LEMMA TypeStep == Inv /\ [Next]_vars => TypeOK'
<1> SUFFICES ASSUME Inv, [Next]_vars PROVE TypeOK'
  OBVIOUS
<1>a. TypeOK
  BY DEF Inv
<1>b. MaxInFlight \in Nat /\ MaxInFlight > 0
  BY MaxInFlightAssumption
<1>c. /\ walker \in WalkerState /\ worker \in [Workers -> WorkerState] /\ wg \in Nat
      /\ regexQueue \in Seq(Path) /\ Len(regexQueue) <= MaxInFlight
      /\ wf \in Seq(WalkedFile) /\ Len(wf) <= MaxInFlight
      /\ done \in Seq(Error) /\ Len(done) <= 1 /\ files \in Seq(WalkedFile)
      /\ closer \in CloserState /\ caller \in CallerState
  BY <1>a DEF TypeOK
<1>d. \A w \in Workers : Release(w) => wg > 0
  BY BusyKeepsWaiting DEF Release
<1>1. ASSUME NEW p \in Path, VisitFails(p) \/ VisitOther(p) \/ VisitFile(p) PROVE TypeOK'
  <2>1. walker' \in WalkerState /\ wg' \in Nat
    <3>1. CASE VisitFails(p)
      BY <1>c, <3>1 DEF VisitFails, WalkerState, Error
    <3>2. CASE VisitOther(p)
      BY <1>c, <3>2 DEF VisitOther
    <3>3. CASE VisitFile(p)
      <4>1. \/ wg' = wg + 1 /\ walker' = [walker EXCEPT !.pc = "enqueue", !.file = p]
            \/ wg' = wg /\ walker' = [walker EXCEPT !.pc = "emit", !.file = p]
        BY <3>3 DEF VisitFile
      <4>2. /\ [walker EXCEPT !.pc = "enqueue", !.file = p] \in WalkerState
            /\ [walker EXCEPT !.pc = "emit", !.file = p] \in WalkerState
        BY <1>c DEF WalkerState
      <4> QED
        BY <1>c, <4>1, <4>2
    <3> QED
      BY <1>1, <3>1, <3>2, <3>3
  <2> QED
    BY <1>a, <1>1, <2>1 DEF TypeOK, VisitFails, VisitOther, VisitFile
<1>2. CASE Enqueue
  <2>1. walker' \in WalkerState /\ walker.file \in Path
    BY <1>c, <1>2 DEF Enqueue, WalkerState
  <2>2. regexQueue' \in Seq(Path) /\ Len(regexQueue') <= MaxInFlight
    BY <1>c, <1>2, <1>b, <2>1, ChannelOps DEF Enqueue
  <2> QED
    BY <1>a, <1>2, <2>1, <2>2 DEF TypeOK, Enqueue
<1>3. CASE EmitUnchecked
  <2>1. walker' \in WalkerState /\ [path |-> walker.file, matches |-> {}] \in WalkedFile
    BY <1>c, <1>3 DEF EmitUnchecked, WalkerState, WalkedFile
  <2>2. wf' \in Seq(WalkedFile) /\ Len(wf') <= MaxInFlight
    BY <1>c, <1>3, <1>b, <2>1, ChannelOps DEF EmitUnchecked
  <2> QED
    BY <1>a, <1>3, <2>1, <2>2 DEF TypeOK, EmitUnchecked
<1>4. CASE WalkEnds
  <2>1. walker' \in WalkerState /\ walker.err \in Error
    BY <1>c, <1>4 DEF WalkEnds, WalkerState
  <2>2. done' \in Seq(Error) /\ Len(done') <= 1
    BY <1>c, <1>4, <2>1, ChannelOps DEF WalkEnds
  <2> QED
    BY <1>a, <1>4, <2>1, <2>2 DEF TypeOK, WalkEnds
<1>5. ASSUME NEW w \in Workers, ReceiveJob(w) PROVE TypeOK'
  <2>1. 1 \in 1..Len(ContentRegexes)
    BY <1>c, MatchAssumption, LenProperties, EmptySeq DEF Workers
  <2>2. /\ Head(regexQueue) \in Path /\ regexQueue' \in Seq(Path)
        /\ Len(regexQueue') <= MaxInFlight
    BY <1>c, <1>5, <1>b, ChannelOps DEF ReceiveJob
  <2>3. [pc |-> "check", file |-> Head(regexQueue), next |-> 1, found |-> {}] \in WorkerState
    BY <1>c, <2>1, <2>2 DEF WorkerState
  <2>4. worker' \in [Workers -> WorkerState]
    BY <1>c, <1>5, <2>3 DEF ReceiveJob
  <2> QED
    BY <1>a, <1>5, <2>2, <2>4 DEF TypeOK, ReceiveJob
<1>6. ASSUME NEW w \in Workers, CheckContent(w) PROVE TypeOK'
  <2> DEFINE p == worker[w].file
             c == ContentRegexes[worker[w].next]
             last == worker[w].next = Len(ContentRegexes)
             next == IF last THEN worker[w].next ELSE worker[w].next + 1
  <2>1. /\ worker[w] \in WorkerState /\ worker[w].next \in 1..Len(ContentRegexes)
        /\ worker[w].found \subseteq RegexMatch
    BY <1>c DEF WorkerState
  <2>2. Len(ContentRegexes) \in Nat /\ DOMAIN ContentRegexes = 1..Len(ContentRegexes)
    BY <1>c, MatchAssumption, LenProperties
  <2>3. c \in Range(ContentRegexes)
    BY <1>c, <2>1, <2>2 DEF Range
  <2>4. \A hits \in Hits(p, c) : hits \subseteq RegexMatch
    BY <1>c, <2>3 DEF Hits, MatchesFor, RegexMatch, matchPath
  <2>5. next \in 1..Len(ContentRegexes)
    BY <1>c, <2>1, <2>2
  <2>6. PICK hits \in Hits(p, c) :
          worker' = [worker EXCEPT ![w].pc = IF last THEN "emit" ELSE "check",
                                   ![w].next = next,
                                   ![w].found = worker[w].found \cup hits]
    BY <1>c, <1>6 DEF CheckContent
  <2> HIDE DEF next, last, p, c
  <2>7. worker' \in [Workers -> WorkerState]
    BY <1>c, <2>1, <2>4, <2>5, <2>6 DEF WorkerState
  <2> QED
    BY <1>a, <1>6, <2>7 DEF TypeOK, CheckContent
<1>7. ASSUME NEW w \in Workers, CheckFails(w) \/ Release(w) \/ WorkerEnds(w) PROVE TypeOK'
  <2>1. worker' \in [Workers -> WorkerState]
    <3>1. CASE CheckFails(w)
      BY <1>c, <3>1 DEF CheckFails, WorkerState
    <3>2. CASE Release(w)
      BY <1>c, <3>2 DEF Release, WorkerState
    <3>3. CASE WorkerEnds(w)
      BY <1>c, <3>3 DEF WorkerEnds, WorkerState
    <3> QED
      BY <1>7, <3>1, <3>2, <3>3
  <2>2. wg' \in Nat
    <3>1. CASE Release(w)
      <4>1. wg > 0
        BY <1>d, <3>1
      <4> QED
        BY <1>c, <3>1, <4>1 DEF Release
    <3> QED
      BY <1>c, <1>7, <3>1 DEF CheckFails, WorkerEnds
  <2> QED
    BY <1>a, <1>7, <2>1, <2>2 DEF TypeOK, CheckFails, Release, WorkerEnds
<1>8. ASSUME NEW w \in Workers, EmitChecked(w) PROVE TypeOK'
  <2>1. worker' \in [Workers -> WorkerState]
    BY <1>c, <1>8 DEF EmitChecked, WorkerState
  <2>2. [path |-> worker[w].file, matches |-> worker[w].found] \in WalkedFile
    BY <1>c DEF WorkerState, WalkedFile
  <2>3. wf' \in Seq(WalkedFile) /\ Len(wf') <= MaxInFlight
    BY <1>c, <1>8, <1>b, <2>2, ChannelOps DEF EmitChecked
  <2> QED
    BY <1>a, <1>8, <2>1, <2>3 DEF TypeOK, EmitChecked
<1>9. CASE CloserReceives
  <2>1. Head(done) \in Error /\ done' \in Seq(Error) /\ Len(done') <= 1
    BY <1>c, <1>9, ChannelOps DEF CloserReceives
  <2> QED
    BY <1>a, <1>9, <2>1 DEF TypeOK, CloserReceives, CloserState
<1>10. CASE CloserWaits \/ CloseFiles \/ CloseQueue
  BY <1>a, <1>10 DEF TypeOK, CloserWaits, CloseFiles, CloseQueue, Channel, CloserState
<1>11. CASE ForwardError
  <2>1. done' \in Seq(Error) /\ Len(done') <= 1
    <3>1. closer.err \in Error /\ done' = Append(done, closer.err) /\ Len(done) < 1
      BY <1>c, <1>11 DEF ForwardError, CloserState
    <3> QED
      BY <1>c, <3>1, ChannelOps
  <2> QED
    BY <1>a, <1>11, <2>1 DEF TypeOK, ForwardError, CloserState
<1>12. CASE Collect
  <2>1. /\ wf' \in Seq(WalkedFile) /\ Len(wf') <= MaxInFlight
        /\ files' \in Seq(WalkedFile)
    BY <1>c, <1>12, <1>b, ChannelOps DEF Collect
  <2> QED
    BY <1>a, <1>12, <2>1 DEF TypeOK, Collect
<1>13. CASE CollectEnds
  BY <1>a, <1>13 DEF TypeOK, CollectEnds, CallerState
<1>14. CASE Return
  <2>1. Head(done) \in Error /\ done' \in Seq(Error) /\ Len(done') <= 1
    <3>1. done # <<>> /\ done' = Tail(done)
      BY <1>14 DEF Return
    <3> QED
      BY <1>c, <3>1, ChannelOps
  <2>2. files' \in Seq(WalkedFile)
    BY <1>c, <1>14, EmptySeq DEF Return
  <2> QED
    BY <1>a, <1>14, <2>1, <2>2 DEF TypeOK, Return, Channel, CallerState
<1>15. CASE UNCHANGED vars
  BY <1>a, <1>15 DEF TypeOK, vars
<1> QED
  BY <1>1, <1>2, <1>3, <1>4, <1>5, <1>6, <1>7, <1>8, <1>9, <1>10, <1>11, <1>12,
     <1>13, <1>14, <1>15
  DEF Next, WalkerStep, WorkerStep, CloserStep, CallerStep, Terminated

\* Every step keeps the WaitGroup equal to the number of files in flight.
LEMMA CountStep == Inv /\ [Next]_vars => WaitGroupCounts'
<1> SUFFICES ASSUME Inv, [Next]_vars PROVE WaitGroupCounts'
  OBVIOUS
<1> DEFINE inHand == IF walker.pc = "enqueue" THEN 1 ELSE 0
<1>a. /\ wg = inHand + Len(regexQueue) + Cardinality(Busy)
      /\ inHand \in Nat /\ Len(regexQueue) \in Nat /\ Cardinality(Busy) \in Nat
  BY BusyFinite, LenProperties DEF Inv, TypeOK, WaitGroupCounts
<1>b. walker \in WalkerState /\ regexQueue \in Seq(Path) /\ worker \in [Workers -> WorkerState]
  BY DEF Inv, TypeOK
<1> USE DEF WalkerState, WorkerState
<1>c. SUFFICES wg' = inHand' + Len(regexQueue') + Cardinality(Busy')
  BY DEF WaitGroupCounts
<1>1. ASSUME NEW p \in Path, VisitFails(p) \/ VisitOther(p) \/ VisitFile(p)
      PROVE wg' = inHand' + Len(regexQueue') + Cardinality(Busy')
  <2>1. Busy' = Busy /\ regexQueue' = regexQueue
    BY <1>1 DEF VisitFails, VisitOther, VisitFile, Busy
  <2>2. inHand = 0
    BY <1>1 DEF VisitFails, VisitOther, VisitFile
  <2>3. wg' = wg + inHand' /\ inHand' \in Nat
    <3>1. CASE VisitFails(p) \/ VisitOther(p)
      <4>1. wg' = wg /\ walker'.pc = "visit"
        BY <3>1, <1>b DEF VisitFails, VisitOther
      <4> QED
        BY <1>a, <4>1
    <3>2. CASE VisitFile(p) /\ checksContent(p)
      BY <3>2, <1>b DEF VisitFile
    <3>3. CASE VisitFile(p) /\ ~checksContent(p)
      <4>1. wg' = wg /\ walker'.pc = "emit"
        BY <3>3, <1>b DEF VisitFile
      <4> QED
        BY <1>a, <4>1
    <3> QED
      BY <1>1, <3>1, <3>2, <3>3
  <2> QED
    BY <1>a, <2>1, <2>2, <2>3
<1>2. CASE Enqueue
  <2>1. Busy' = Busy /\ wg' = wg
    BY <1>2 DEF Enqueue, Busy
  <2>2. Len(regexQueue') = Len(regexQueue) + 1
    BY <1>2, <1>b, ChannelOps DEF Enqueue
  <2>3. inHand = 1 /\ inHand' = 0
    BY <1>2, <1>b DEF Enqueue
  <2> QED
    BY <1>a, <2>1, <2>2, <2>3
<1>3. CASE EmitUnchecked \/ WalkEnds
  <2>1. Busy' = Busy /\ wg' = wg /\ regexQueue' = regexQueue
    BY <1>3 DEF EmitUnchecked, WalkEnds, Busy
  <2>2. inHand = 0 /\ inHand' = 0
    BY <1>3, <1>b DEF EmitUnchecked, WalkEnds
  <2> QED
    BY <1>a, <2>1, <2>2
<1>4. ASSUME NEW w \in Workers, ReceiveJob(w)
      PROVE wg' = inHand' + Len(regexQueue') + Cardinality(Busy')
  <2>1. worker[w].pc = "receive" /\ worker'[w].pc = "check"
    BY <1>4, <1>b DEF ReceiveJob
  <2>2. \A v \in Workers \ {w} : worker'[v].pc = worker[v].pc
    BY <1>4, <1>b DEF ReceiveJob
  <2>3. w \notin Busy /\ Busy' = Busy \cup {w}
    BY <2>1, <2>2 DEF Busy
  <2>4. Cardinality(Busy') = Cardinality(Busy) + 1
    BY <2>3, BusyChanges
  <2>5. Len(regexQueue') = Len(regexQueue) - 1 /\ wg' = wg /\ inHand' = inHand
    BY <1>4, <1>b, ChannelOps DEF ReceiveJob
  <2> QED
    BY <1>a, <2>4, <2>5
<1>5. ASSUME NEW w \in Workers, Release(w)
      PROVE wg' = inHand' + Len(regexQueue') + Cardinality(Busy')
  <2>1. worker[w].pc = "release" /\ worker'[w].pc = "receive"
    BY <1>5, <1>b DEF Release
  <2>2. \A v \in Workers \ {w} : worker'[v].pc = worker[v].pc
    BY <1>5, <1>b DEF Release
  <2>3. w \in Busy /\ Busy' = Busy \ {w}
    BY <2>1, <2>2 DEF Busy
  <2>4. Cardinality(Busy') = Cardinality(Busy) - 1
    BY <2>3, BusyChanges
  <2>5. regexQueue' = regexQueue /\ wg' = wg - 1 /\ inHand' = inHand
    BY <1>5 DEF Release
  <2> QED
    BY <1>a, <2>4, <2>5
<1>6. ASSUME NEW w \in Workers,
             CheckContent(w) \/ CheckFails(w) \/ EmitChecked(w) \/ WorkerEnds(w)
      PROVE wg' = inHand' + Len(regexQueue') + Cardinality(Busy')
  <2>1. \A v \in Workers \ {w} : worker'[v].pc = worker[v].pc
    BY <1>6, <1>b DEF CheckContent, CheckFails, EmitChecked, WorkerEnds
  <2>2. worker[w].pc \in {"check", "emit", "release"} <=>
           worker'[w].pc \in {"check", "emit", "release"}
    <3>1. CASE CheckContent(w)
      <4>1. worker[w].pc = "check" /\ worker'[w].pc \in {"check", "emit"}
        BY <3>1, <1>b DEF CheckContent
      <4> QED
        BY <4>1
    <3>2. CASE CheckFails(w) \/ EmitChecked(w) \/ WorkerEnds(w)
      BY <3>2, <1>b DEF CheckFails, EmitChecked, WorkerEnds
    <3> QED
      BY <1>6, <3>1, <3>2
  <2>3. Busy' = Busy
    BY <2>1, <2>2 DEF Busy
  <2>4. UNCHANGED <<walker, regexQueue, wg>>
    BY <1>6 DEF CheckContent, CheckFails, EmitChecked, WorkerEnds
  <2> QED
    BY <1>a, <2>3, <2>4
<1>7. CASE CloserStep \/ CallerStep \/ UNCHANGED vars
  <2>1. UNCHANGED <<walker, regexQueue, worker, wg>>
    BY <1>7 DEF CloserStep, CloserReceives, CloserWaits, CloseFiles, CloseQueue,
       ForwardError, CallerStep, Collect, CollectEnds, Return, vars
  <2> QED
    BY <1>a, <2>1 DEF Busy
<1> QED
  BY <1>1, <1>2, <1>3, <1>4, <1>5, <1>6, <1>7
  DEF Next, WalkerStep, WorkerStep, Terminated

\* Every step respects the order in which the walk is wound up.
LEMMA OrderStep == Inv /\ [Next]_vars => ClosingOrder'
<1> SUFFICES ASSUME Inv, [Next]_vars PROVE ClosingOrder'
  OBVIOUS
<1>a. \A w \in Workers : Release(w) => closer.pc \in {"receive", "wait"}
  BY BusyKeepsWaiting DEF Release
<1>b. /\ ClosingOrder /\ walker \in WalkerState /\ closed \subseteq Channel
      /\ closer \in CloserState /\ caller \in CallerState
      /\ done \in Seq(Error) /\ Len(done) <= 1 /\ wg \in Nat
  BY DEF Inv, TypeOK
<1> USE <1>b DEF ClosingOrder, WalkerState, CloserState, CallerState
<1>1. ASSUME NEW p \in Path, VisitFails(p) \/ VisitOther(p) \/ VisitFile(p)
      PROVE ClosingOrder'
  BY <1>1 DEF VisitFails, VisitOther, VisitFile
<1>2. CASE Enqueue \/ EmitUnchecked
  BY <1>2 DEF Enqueue, EmitUnchecked
<1>3. CASE WalkEnds
  <2>1. done' = <<walker.err>>
    BY <1>3, SoleElement DEF WalkEnds
  <2>2. walker'.err = walker.err /\ walker'.pc = "end"
    BY <1>3 DEF WalkEnds
  <2> QED
    BY <1>3, <2>1, <2>2 DEF WalkEnds
<1>4. ASSUME NEW w \in Workers, WorkerStep(w) PROVE ClosingOrder'
  <2>1. CASE Release(w)
    <3>2. closer.pc \in {"receive", "wait"}
      BY <2>1, <1>a
    <3>3. UNCHANGED <<walker, done, closer, closed, caller>>
      BY <2>1 DEF Release
    <3> QED
      BY <3>2, <3>3
  <2>2. CASE ~Release(w)
    <3>1. UNCHANGED <<walker, wg, done, closer, closed, caller>>
      BY <1>4, <2>2 DEF WorkerStep, ReceiveJob, CheckContent, CheckFails,
         EmitChecked, WorkerEnds
    <3> QED
      BY <3>1
  <2> QED
    BY <2>1, <2>2
<1>5. CASE CloserReceives
  <2>1. done = <<walker.err>>
    BY <1>5 DEF CloserReceives
  <2>2. closer' = [pc |-> "wait", err |-> walker.err] /\ done' = <<>>
    BY <1>5, <2>1, SoleElement DEF CloserReceives
  <2>3. walker.pc = "end" /\ caller.pc = "collect" /\ closed = {}
    BY <1>5 DEF CloserReceives, Channel
  <2>4. UNCHANGED <<walker, wg, closed, caller>>
    BY <1>5 DEF CloserReceives
  <2> QED
    BY <2>2, <2>3, <2>4
<1>6. CASE CloserWaits \/ CloseFiles \/ CloseQueue
  BY <1>6 DEF CloserWaits, CloseFiles, CloseQueue
<1>7. CASE ForwardError
  <2>1. done' = <<walker.err>>
    BY <1>7, SoleElement DEF ForwardError
  <2>2. closer'.err = walker.err /\ closer'.pc = "end"
    BY <1>7 DEF ForwardError
  <2> QED
    BY <1>7, <2>1, <2>2 DEF ForwardError
<1>8. CASE Collect \/ CollectEnds
  BY <1>8 DEF Collect, CollectEnds
<1>9. CASE Return
  <2>1. closer.pc = "end" /\ done = <<walker.err>>
    BY <1>9 DEF Return
  <2>2. caller' = [pc |-> "returned", err |-> walker.err] /\ done' = <<>>
    BY <1>9, <2>1, SoleElement DEF Return
  <2>3. /\ closed' = closed \cup {"done"}
        /\ UNCHANGED <<walker, wg, closer>>
    BY <1>9 DEF Return
  <2>4. walker.pc = "end" /\ wg = 0
    BY <2>1
  <2> QED
    BY <2>1, <2>2, <2>3, <2>4
<1>10. CASE UNCHANGED vars
  BY <1>10 DEF vars
<1> QED
  BY <1>1, <1>2, <1>3, <1>4, <1>5, <1>6, <1>7, <1>8, <1>9, <1>10
  DEF Next, WalkerStep, CloserStep, CallerStep, Terminated

\* The inductive invariant holds of every reachable state.
THEOREM Invariance == Spec => []Inv
<1>1. Inv /\ [Next]_vars => Inv'
  BY TypeStep, CountStep, OrderStep DEF Inv
<1> QED
  BY InitInv, <1>1, PTL DEF Spec

\* The variables keep their types and the channels their capacity.
THEOREM TypeCorrect == Spec => []TypeOK
BY Invariance, PTL DEF Inv

\* The WaitGroup counts the files in flight, and what is closed and what is in
\* done tells how far the goroutines are, for any tree, regexes and pool size.
THEOREM GoroutinesInStep == Spec => []GoroutinesAgree
BY Invariance, PTL DEF Inv, GoroutinesAgree

\* No goroutine of Walk() sends on a closed channel, closes one twice or takes
\* the WaitGroup below zero, for any tree, regexes and pool size: a worker
\* that has a file keeps the WaitGroup above zero and so the closer waiting.
THEOREM NeverPanics == Spec => []NoPanic
<1>1. Inv => NoPanic
  <2> SUFFICES ASSUME Inv PROVE NoPanic
    OBVIOUS
  <2>1. ASSUME NEW w \in Workers, worker[w].pc \in {"emit", "release"}
        PROVE  wg > 0 /\ "wf" \notin closed
    <3>1. wg > 0 /\ closer.pc \in {"receive", "wait"}
      BY <2>1, BusyKeepsWaiting
    <3> QED
      BY <3>1 DEF Inv, ClosingOrder
  <2> QED
    BY <2>1 DEF NoPanic, Inv, TypeOK, ClosingOrder
<1> QED
  BY Invariance, <1>1, PTL

\* The caller of Walk() gets the walker's own error, and the closer before it.
THEOREM ErrorArrives == Spec => []ErrorHandedOver
<1>1. Inv => ErrorHandedOver
  BY DEF Inv, TypeOK, ClosingOrder, ErrorHandedOver
<1> QED
  BY Invariance, <1>1, PTL

-----------------------------------------------------------------------------
(* Where the files are.                                                    *)

\* The regular files visited so far and not lost to an error: in the walker's
\* hand, queued, with a worker, waiting to be collected or collected.
InHand == IF walker.pc \in {"enqueue", "emit"} THEN {walker.file} ELSE {}
Queued == Range(regexQueue)
Holding == {w \in Workers : worker[w].pc \in {"check", "emit"}}
Checked == {worker[w].file : w \in Holding}
PathsOf(s) == {s[i].path : i \in DOMAIN s}
OnceEach(s) == \A i, j \in DOMAIN s : s[i] = s[j] => i = j
OncePath(s) == \A i, j \in DOMAIN s : s[i].path = s[j].path => i = j

\* Each such file is in one place, and there once.
Apart ==
    /\ InHand \cup Queued \cup Checked \cup PathsOf(wf) \cup PathsOf(files) \subseteq visited \cap Regular
    /\ walker.err = NoError =>
          visited \cap Regular \subseteq InHand \cup Queued \cup Checked \cup PathsOf(wf) \cup PathsOf(files)
    /\ \A p \in InHand : p \notin Queued \cup Checked \cup PathsOf(wf) \cup PathsOf(files)
    /\ \A p \in Queued : p \notin Checked \cup PathsOf(wf) \cup PathsOf(files)
    /\ \A p \in Checked : p \notin PathsOf(wf) \cup PathsOf(files)
    /\ \A p \in PathsOf(wf) : p \notin PathsOf(files)
Once ==
    /\ OnceEach(regexQueue) /\ OncePath(wf) /\ OncePath(files)
    /\ \A v, w \in Holding : worker[v].file = worker[w].file => v = w

\* A worker has the matches of the regexes it has been through, as far as the
\* file could be read; a recorded file has what its reading gave.
Before(n) == {c \in Range(ContentRegexes) : \E i \in 1..(n - 1) : c = ContentRegexes[i]}
MatchesOf(p, C) == UNION {MatchesFor(p, c) : c \in C}
ReadUpTo(p, n) ==
    IF p \in Damaged THEN {MatchesOf(p, C) : C \in SUBSET Before(n)}
    ELSE {MatchesOf(p, {c \in Before(n) : <<p, c>> \in ContentMatch})}
AsRead(s) == \A i \in DOMAIN s : s[i].matches \in Readings[s[i].path]
Contents ==
    /\ walker.pc = "enqueue" => checksContent(walker.file)
    /\ \A p \in Queued \cup Checked : checksContent(p)
    /\ \A w \in Workers :
          /\ worker[w].pc = "check" => worker[w].found \in ReadUpTo(worker[w].file, worker[w].next)
          /\ worker[w].pc = "emit" => worker[w].found \in Readings[worker[w].file]
    /\ AsRead(wf) /\ AsRead(files)

\* The walk keeps to what is visible and ends well only with all of it; the
\* caller stops collecting only when nothing is left.
Extent ==
    /\ visited \subseteq Visible
    /\ walker.pc = "end" /\ walker.err = NoError => Visible \subseteq visited
    /\ caller.pc # "collect" => wf = <<>>
    /\ caller.pc = "returned" /\ caller.err # NoError => files = <<>>

Collecting == Apart /\ Once /\ Contents /\ Extent

\* A file that is not read, or cannot be opened, has no matches.
LEMMA NothingRead == \A p \in Path : {} \in Readings[p]
<1> SUFFICES ASSUME NEW p \in Path PROVE {} \in Readings[p]
  OBVIOUS
<1>1. UNION {MatchesFor(p, c) : c \in {}} = {} /\ {} \in SUBSET Range(ContentRegexes)
  OBVIOUS
<1> QED
  BY <1>1 DEF Readings

\* Sending a file that is in no channel, and receiving one.
LEMMA SendEach ==
    ASSUME NEW S, NEW q \in Seq(S), NEW e \in S
    PROVE  /\ Range(Append(q, e)) = Range(q) \cup {e}
           /\ OnceEach(q) /\ e \notin Range(q) => OnceEach(Append(q, e))
<1>1. /\ Len(q) \in Nat /\ DOMAIN q = 1..Len(q) /\ DOMAIN Append(q, e) = 1..(Len(q) + 1)
      /\ \A i \in 1..Len(q) : Append(q, e)[i] = q[i]
      /\ Append(q, e)[Len(q) + 1] = e
  BY AppendProperties, LenProperties
<1>2. \A i \in 1..(Len(q) + 1) : i \in 1..Len(q) \/ i = Len(q) + 1
  BY <1>1
<1>3. 1..Len(q) \subseteq 1..(Len(q) + 1) /\ Len(q) + 1 \in 1..(Len(q) + 1)
  BY <1>1
<1> QED
  BY <1>1, <1>2, <1>3 DEF Range, OnceEach

LEMMA SendPath ==
    ASSUME NEW q \in Seq(WalkedFile), NEW e \in WalkedFile
    PROVE  /\ PathsOf(Append(q, e)) = PathsOf(q) \cup {e.path}
           /\ OncePath(q) /\ e.path \notin PathsOf(q) => OncePath(Append(q, e))
           /\ AsRead(q) /\ e.matches \in Readings[e.path] => AsRead(Append(q, e))
<1>1. /\ Len(q) \in Nat /\ DOMAIN q = 1..Len(q) /\ DOMAIN Append(q, e) = 1..(Len(q) + 1)
      /\ \A i \in 1..Len(q) : Append(q, e)[i] = q[i]
      /\ Append(q, e)[Len(q) + 1] = e
  BY AppendProperties, LenProperties
<1>2. \A i \in 1..(Len(q) + 1) : i \in 1..Len(q) \/ i = Len(q) + 1
  BY <1>1
<1>3. 1..Len(q) \subseteq 1..(Len(q) + 1) /\ Len(q) + 1 \in 1..(Len(q) + 1)
  BY <1>1
<1> QED
  BY <1>1, <1>2, <1>3 DEF PathsOf, OncePath, AsRead

LEMMA TailShifts ==
    ASSUME NEW S, NEW q \in Seq(S), q # <<>>
    PROVE  /\ Len(q) \in Nat /\ DOMAIN q = 1..Len(q) /\ Len(q) >= 1 /\ Head(q) = q[1]
           /\ DOMAIN Tail(q) = 1..(Len(q) - 1)
           /\ \A i \in 1..(Len(q) - 1) : Tail(q)[i] = q[i + 1] /\ i + 1 \in 1..Len(q) /\ i + 1 # 1
           /\ 1 \in 1..Len(q)
           /\ \A j \in 1..Len(q) : j = 1 \/ \E i \in 1..(Len(q) - 1) : j = i + 1
<1>1. /\ Len(q) \in Nat /\ Len(q) # 0 /\ DOMAIN q = 1..Len(q) /\ Head(q) = q[1]
      /\ Tail(q) \in Seq(S) /\ Len(Tail(q)) = Len(q) - 1
      /\ \A i \in 1..Len(Tail(q)) : Tail(q)[i] = q[i + 1]
  BY HeadTailProperties, LenProperties, EmptySeq
<1>2. DOMAIN Tail(q) = 1..Len(Tail(q))
  BY <1>1, LenProperties
<1>3. \A j \in 1..Len(q) : j # 1 => j - 1 \in 1..(Len(q) - 1) /\ j = (j - 1) + 1
  BY <1>1
<1> QED
  BY <1>1, <1>2, <1>3

LEMMA ReceiveEach ==
    ASSUME NEW S, NEW q \in Seq(S), q # <<>>, OnceEach(q)
    PROVE  /\ Head(q) \in Range(q) /\ Range(Tail(q)) = Range(q) \ {Head(q)} /\ OnceEach(Tail(q))
<1>0. /\ Len(q) \in Nat /\ DOMAIN q = 1..Len(q) /\ Head(q) = q[1] /\ 1 \in 1..Len(q)
      /\ DOMAIN Tail(q) = 1..(Len(q) - 1)
      /\ \A i \in 1..(Len(q) - 1) : Tail(q)[i] = q[i + 1] /\ i + 1 \in 1..Len(q) /\ i + 1 # 1
      /\ \A j \in 1..Len(q) : j = 1 \/ \E i \in 1..(Len(q) - 1) : j = i + 1
  BY TailShifts
<1>1. Range(Tail(q)) = Range(q) \ {Head(q)}
  <2>1. ASSUME NEW x \in Range(Tail(q)) PROVE x \in Range(q) /\ x # Head(q)
    <3>1. PICK i \in 1..(Len(q) - 1) : x = Tail(q)[i]
      BY <1>0 DEF Range
    <3>2. Tail(q)[i] = q[i + 1] /\ i + 1 \in DOMAIN q /\ 1 \in DOMAIN q /\ i + 1 # 1 /\ Head(q) = q[1]
      BY <1>0
    <3> QED
      BY <3>1, <3>2 DEF Range, OnceEach
  <2>2. ASSUME NEW x \in Range(q), x # Head(q) PROVE x \in Range(Tail(q))
    <3>1. PICK j \in 1..Len(q) : x = q[j]
      BY <1>0 DEF Range
    <3>2. PICK i \in 1..(Len(q) - 1) : j = i + 1
      BY <1>0, <2>2, <3>1
    <3> QED
      BY <1>0, <3>1, <3>2 DEF Range
  <2> QED
    BY <2>1, <2>2
<1>2. OnceEach(Tail(q))
  BY <1>0 DEF OnceEach
<1> QED
  BY <1>1, <1>2, <1>0 DEF Range

LEMMA ReceivePath ==
    ASSUME NEW q \in Seq(WalkedFile), q # <<>>, OncePath(q), AsRead(q)
    PROVE  /\ Head(q) \in Range(q) /\ Head(q).path \in PathsOf(q) /\ Head(q) \in WalkedFile
           /\ Head(q).matches \in Readings[Head(q).path]
           /\ PathsOf(Tail(q)) = PathsOf(q) \ {Head(q).path}
           /\ OncePath(Tail(q)) /\ AsRead(Tail(q))
<1>0. /\ Len(q) \in Nat /\ DOMAIN q = 1..Len(q) /\ Head(q) = q[1] /\ 1 \in 1..Len(q)
      /\ DOMAIN Tail(q) = 1..(Len(q) - 1)
      /\ \A i \in 1..(Len(q) - 1) : Tail(q)[i] = q[i + 1] /\ i + 1 \in 1..Len(q) /\ i + 1 # 1
      /\ \A j \in 1..Len(q) : j = 1 \/ \E i \in 1..(Len(q) - 1) : j = i + 1
  BY TailShifts
<1>1. PathsOf(Tail(q)) = PathsOf(q) \ {Head(q).path}
  <2>1. ASSUME NEW x \in PathsOf(Tail(q)) PROVE x \in PathsOf(q) /\ x # Head(q).path
    <3>1. PICK i \in 1..(Len(q) - 1) : x = Tail(q)[i].path
      BY <1>0 DEF PathsOf
    <3>2. Tail(q)[i] = q[i + 1] /\ i + 1 \in DOMAIN q /\ 1 \in DOMAIN q /\ i + 1 # 1 /\ Head(q) = q[1]
      BY <1>0
    <3> QED
      BY <3>1, <3>2 DEF PathsOf, OncePath
  <2>2. ASSUME NEW x \in PathsOf(q), x # Head(q).path PROVE x \in PathsOf(Tail(q))
    <3>1. PICK j \in 1..Len(q) : x = q[j].path
      BY <1>0 DEF PathsOf
    <3>2. PICK i \in 1..(Len(q) - 1) : j = i + 1
      BY <1>0, <2>2, <3>1
    <3> QED
      BY <1>0, <3>1, <3>2 DEF PathsOf
  <2> QED
    BY <2>1, <2>2
<1>2. OncePath(Tail(q)) /\ AsRead(Tail(q))
  BY <1>0 DEF OncePath, AsRead
<1>3. Head(q) \in WalkedFile
  BY HeadTailProperties, EmptySeq
<1> QED
  BY <1>1, <1>2, <1>3, <1>0 DEF Range, PathsOf, AsRead

-----------------------------------------------------------------------------
(* What a walk visits.                                                     *)

LEMMA VisibleClosed ==
    /\ Visible \subseteq Path /\ RootPath \in Visible
    /\ \A d \in (Visible \cap Dir) \ ExcludedPaths : Children[d] \subseteq Visible
BY TreeAssumption DEF Visible

LEMMA LeastNumber ==
    ASSUME NEW T \in SUBSET Nat, T # {}
    PROVE  \E n \in T : \A m \in T : n <= m
<1>1. PICK R : R = OpToRel(<, Nat)
  OBVIOUS
<1>2. \A a, b \in Nat : <<a, b>> \in R <=> a < b
  BY <1>1 DEF OpToRel
<1>3. IsWellFoundedOn(R, Nat)
  BY <1>1, NatLessThanWellFounded
<1>4. PICK n \in T : \A m \in T : ~(<<m, n>> \in R)
  BY <1>3, WFMin
<1>5. \A m \in T : n \in Nat /\ m \in Nat /\ ~(m < n)
  BY <1>2, <1>4
<1>6. \A m \in T : n <= m
  BY <1>5
<1> QED
  BY <1>6

\* Of all that may be visited there is a first in lexical order.
LEMMA FirstOfOpen == Open # {} => ToVisit # {}
<1> SUFFICES ASSUME Open # {} PROVE ToVisit # {}
  OBVIOUS
<1> DEFINE N == {Place[p] : p \in Open}
<1>1. N \subseteq Nat /\ N # {}
  BY TreeAssumption DEF Open
<1>4. PICK n \in N : \A m \in N : n <= m
  BY <1>1, LeastNumber
<1>5. PICK p \in Open : Place[p] = n
  BY DEF N
<1>7. \A q \in Open : Place[p] <= Place[q]
  BY <1>4, <1>5
<1> QED
  BY <1>5, <1>7 DEF ToVisit

LEMMA VisibleSoFar ==
    ASSUME visited \subseteq Visible
    PROVE  /\ ToVisit \subseteq Visible /\ ToVisit \cap visited = {}
           /\ ToVisit = {} => Visible \subseteq visited
<1>1. Open \subseteq Visible /\ Open \cap visited = {} /\ ToVisit \subseteq Open
  BY VisibleClosed DEF Open, ToVisit
<1>2. ASSUME Open = {} PROVE Visible \subseteq visited
  <2>1. visited \in SUBSET Path
    BY VisibleClosed
  <2>2. RootPath \in visited
    BY <1>2, TreeAssumption DEF Open
  <2>3. \A d \in (visited \cap Dir) \ ExcludedPaths : Children[d] \subseteq visited
    BY <1>2, TreeAssumption DEF Open
  <2> QED
    BY <2>1, <2>2, <2>3 DEF Visible
<1> QED
  BY <1>1, <1>2, FirstOfOpen

-----------------------------------------------------------------------------
(* Each step moves at most one file from one place to the next.            *)

\* What the places are follows from the variables they are in.
LEMMA PlacesStay ==
    /\ UNCHANGED walker => InHand' = InHand
    /\ UNCHANGED regexQueue => Queued' = Queued
    /\ UNCHANGED worker => Holding' = Holding /\ Checked' = Checked
    /\ UNCHANGED wf => PathsOf(wf)' = PathsOf(wf) /\ OncePath(wf)' = OncePath(wf) /\ AsRead(wf)' = AsRead(wf)
    /\ UNCHANGED files => PathsOf(files)' = PathsOf(files) /\ OncePath(files)' = OncePath(files) /\ AsRead(files)' = AsRead(files)
BY DEF InHand, Queued, Holding, Checked

LEMMA WalkerCollecting ==
    ASSUME Inv, Collecting, WalkerStep PROVE Collecting'
<1>a. /\ walker \in WalkerState /\ regexQueue \in Seq(Path) /\ wf \in Seq(WalkedFile)
      /\ worker \in [Workers -> WorkerState]
  BY DEF Inv, TypeOK
<1>b. walker.pc # "end" => closer.pc = "receive" /\ "wf" \notin closed
  BY DEF Inv, ClosingOrder
<1>c. walker.pc # "end" => caller.pc = "collect"
  BY <1>a, <1>b DEF Inv, ClosingOrder, TypeOK, CallerState
<1>1. ASSUME NEW p \in Path, VisitFails(p) PROVE Collecting'
  <2>1. /\ walker.pc = "visit" /\ walker'.pc = "visit" /\ walker'.err = AccessError /\ p \in ToVisit
        /\ visited' = visited \cup {p} /\ UNCHANGED <<regexQueue, worker, wf, files, caller>>
    BY <1>1, <1>a DEF VisitFails, WalkerState
  <2>2. InHand' = {} /\ InHand = {}
    BY <2>1 DEF InHand
  <2>3. Apart'
    BY <2>1, <2>2, PlacesStay DEF Collecting, Apart, AccessError, NoError
  <2>4. Once'
    BY <2>1, PlacesStay DEF Collecting, Once
  <2>5. Contents'
    BY <2>1, PlacesStay DEF Collecting, Contents
  <2>6. Extent'
    BY <1>c, <2>1, VisibleSoFar DEF Collecting, Extent
  <2> QED
    BY <2>3, <2>4, <2>5, <2>6 DEF Collecting
<1>2. ASSUME NEW p \in Path, VisitOther(p) PROVE Collecting'
  <2>1. /\ walker.pc = "visit" /\ UNCHANGED walker /\ p \in ToVisit /\ p \notin Regular
        /\ visited' = visited \cup {p} /\ UNCHANGED <<regexQueue, worker, wf, files, caller>>
    BY <1>2 DEF VisitOther
  <2>2. visited' \cap Regular = visited \cap Regular
    BY <2>1
  <2>3. Apart'
    BY <2>1, <2>2, PlacesStay DEF Collecting, Apart
  <2>4. Once'
    BY <2>1, PlacesStay DEF Collecting, Once
  <2>5. Contents'
    BY <2>1, PlacesStay DEF Collecting, Contents
  <2>6. Extent'
    BY <1>c, <2>1, VisibleSoFar DEF Collecting, Extent
  <2> QED
    BY <2>3, <2>4, <2>5, <2>6 DEF Collecting
<1>3. ASSUME NEW p \in Path, VisitFile(p) PROVE Collecting'
  <2>1. /\ walker.pc = "visit" /\ walker'.pc \in {"enqueue", "emit"} /\ walker'.file = p /\ walker'.err = walker.err
        /\ walker'.pc = "enqueue" => checksContent(p)
        /\ p \in ToVisit /\ p \in Regular
        /\ visited' = visited \cup {p} /\ UNCHANGED <<regexQueue, worker, wf, files, caller>>
    BY <1>3, <1>a DEF VisitFile, WalkerState
  <2>2. InHand' = {p} /\ InHand = {}
    BY <2>1 DEF InHand
  <2>3. p \notin visited /\ p \in Visible
    BY <2>1, VisibleSoFar DEF Collecting, Extent
  <2>4. Apart'
    BY <2>1, <2>2, <2>3, PlacesStay DEF Collecting, Apart
  <2>5. Once'
    BY <2>1, PlacesStay DEF Collecting, Once
  <2>6. Contents'
    BY <2>1, PlacesStay DEF Collecting, Contents
  <2>7. Extent'
    BY <1>c, <2>1, <2>3 DEF Collecting, Extent
  <2> QED
    BY <2>4, <2>5, <2>6, <2>7 DEF Collecting
<1>4. CASE Enqueue
  <2>1. /\ walker.pc = "enqueue" /\ walker'.pc = "visit" /\ walker'.err = walker.err /\ walker.file \in Path
        /\ regexQueue' = Append(regexQueue, walker.file)
        /\ UNCHANGED <<visited, worker, wf, files, caller>>
    BY <1>4, <1>a DEF Enqueue, WalkerState
  <2>2. InHand' = {} /\ InHand = {walker.file}
    BY <2>1 DEF InHand
  <2>3. /\ Queued' = Queued \cup {walker.file}
        /\ OnceEach(regexQueue) /\ walker.file \notin Queued => OnceEach(regexQueue')
    BY <1>a, <2>1, SendEach DEF Queued
  <2>4. Apart'
    BY <2>1, <2>2, <2>3, PlacesStay DEF Collecting, Apart
  <2>5. Once'
    BY <2>1, <2>2, <2>3, PlacesStay DEF Collecting, Once, Apart
  <2>6. Contents'
    BY <2>1, <2>3, PlacesStay DEF Collecting, Contents
  <2>7. Extent'
    BY <1>c, <2>1 DEF Collecting, Extent
  <2> QED
    BY <2>4, <2>5, <2>6, <2>7 DEF Collecting
<1>5. CASE EmitUnchecked
  <2> DEFINE f == [path |-> walker.file, matches |-> {}]
  <2>1. /\ walker.pc = "emit" /\ walker'.pc = "visit" /\ walker'.err = walker.err /\ walker.file \in Path
        /\ wf' = Append(wf, f)
        /\ UNCHANGED <<visited, regexQueue, worker, files, caller>>
    BY <1>5, <1>a DEF EmitUnchecked, WalkerState
  <2>2. f \in WalkedFile /\ f.path = walker.file /\ f.matches = {}
    BY <2>1 DEF WalkedFile
  <2> HIDE DEF f
  <2>3. InHand' = {} /\ InHand = {walker.file}
    BY <2>1 DEF InHand
  <2>4. /\ PathsOf(wf)' = PathsOf(wf) \cup {walker.file}
        /\ OncePath(wf) /\ walker.file \notin PathsOf(wf) => OncePath(wf)'
        /\ AsRead(wf) => AsRead(wf)'
    BY <1>a, <2>1, <2>2, SendPath, NothingRead
  <2>5. Apart'
    BY <2>1, <2>3, <2>4, PlacesStay DEF Collecting, Apart
  <2>6. Once'
    BY <2>1, <2>3, <2>4, PlacesStay DEF Collecting, Once, Apart
  <2>7. Contents'
    BY <2>1, <2>4, PlacesStay DEF Collecting, Contents
  <2>8. Extent'
    BY <1>c, <2>1 DEF Collecting, Extent
  <2> QED
    BY <2>5, <2>6, <2>7, <2>8 DEF Collecting
<1>6. CASE WalkEnds
  <2>1. /\ walker.pc = "visit" /\ walker'.pc = "end" /\ walker'.err = walker.err
        /\ walker.err # NoError \/ ToVisit = {}
        /\ UNCHANGED <<visited, regexQueue, worker, wf, files, caller>>
    BY <1>6, <1>a DEF WalkEnds, WalkerState
  <2>2. InHand' = {} /\ InHand = {}
    BY <2>1 DEF InHand
  <2>3. Apart'
    BY <2>1, <2>2, PlacesStay DEF Collecting, Apart
  <2>4. Once'
    BY <2>1, PlacesStay DEF Collecting, Once
  <2>5. Contents'
    BY <2>1, PlacesStay DEF Collecting, Contents
  <2>6. Extent'
    BY <1>c, <2>1, VisibleSoFar DEF Collecting, Extent
  <2> QED
    BY <2>3, <2>4, <2>5, <2>6 DEF Collecting
<1> QED
  BY <1>1, <1>2, <1>3, <1>4, <1>5, <1>6 DEF WalkerStep

\* What one more round of reading gives.
LEMMA MatchesGrow ==
    ASSUME NEW p \in Path, NEW n \in 1..Len(ContentRegexes), checksContent(p),
           NEW found \in ReadUpTo(p, n), NEW hits \in Hits(p, ContentRegexes[n])
    PROVE  /\ found \cup hits \in ReadUpTo(p, n + 1)
           /\ n = Len(ContentRegexes) => found \cup hits \in Readings[p]
<1> DEFINE c == ContentRegexes[n]
<1>1. /\ Len(ContentRegexes) \in Nat /\ DOMAIN ContentRegexes = 1..Len(ContentRegexes)
      /\ c \in Range(ContentRegexes)
  BY MatchAssumption, LenProperties DEF Range
<1>2. Before(n + 1) = Before(n) \cup {c}
  <2>1. \A i : i \in 1..((n + 1) - 1) <=> i \in 1..(n - 1) \/ i = n
    BY <1>1
  <2> QED
    BY <1>1, <2>1 DEF Before
<1>3. n = Len(ContentRegexes) => Before(n + 1) = Range(ContentRegexes)
  <2>1. n = Len(ContentRegexes) => \A r \in Range(ContentRegexes) : \E i \in 1..((n + 1) - 1) : r = ContentRegexes[i]
    BY <1>1 DEF Range
  <2> QED
    BY <2>1 DEF Before
<1> HIDE DEF c
<1>4. ASSUME NEW C PROVE MatchesOf(p, C \cup {c}) = MatchesOf(p, C) \cup MatchesFor(p, c)
  BY DEF MatchesOf
<1>5. hits = {} \/ hits = MatchesFor(p, c)
  BY DEF Hits, c
<1>6. CASE p \in Damaged
  <2>1. PICK C \in SUBSET Before(n) : found = MatchesOf(p, C)
    BY <1>6 DEF ReadUpTo
  <2>2. PICK D \in SUBSET Before(n + 1) : found \cup hits = MatchesOf(p, D)
    <3>1. CASE hits = {}
      BY <1>2, <2>1, <3>1
    <3>2. CASE hits = MatchesFor(p, c)
      BY <1>2, <1>4, <2>1, <3>2
    <3> QED
      BY <1>5, <3>1, <3>2
  <2>3. found \cup hits \in ReadUpTo(p, n + 1)
    BY <1>6, <2>2 DEF ReadUpTo
  <2>4. n = Len(ContentRegexes) => found \cup hits \in Readings[p]
    BY <1>3, <1>6, <2>2 DEF Readings, MatchesOf
  <2> QED
    BY <2>3, <2>4
<1>7. CASE p \notin Damaged
  <2> DEFINE Matched(k) == {r \in Before(k) : <<p, r>> \in ContentMatch}
  <2>1. found = MatchesOf(p, Matched(n))
    BY <1>7 DEF ReadUpTo
  <2>2. hits = IF <<p, c>> \in ContentMatch THEN MatchesFor(p, c) ELSE {}
    BY <1>7 DEF Hits, c
  <2>3. found \cup hits = MatchesOf(p, Matched(n + 1))
    <3>1. CASE <<p, c>> \in ContentMatch
      <4>1. Matched(n + 1) = Matched(n) \cup {c}
        BY <1>2, <3>1
      <4> QED
        BY <1>4, <2>1, <2>2, <3>1, <4>1
    <3>2. CASE <<p, c>> \notin ContentMatch
      <4>1. Matched(n + 1) = Matched(n)
        BY <1>2, <3>2
      <4> QED
        BY <2>1, <2>2, <3>2, <4>1
    <3> QED
      BY <3>1, <3>2
  <2>4. found \cup hits \in ReadUpTo(p, n + 1)
    BY <1>7, <2>3 DEF ReadUpTo
  <2>5. n = Len(ContentRegexes) => found \cup hits \in Readings[p]
    <3>1. n = Len(ContentRegexes) => found \cup hits = AllMatches(p)
      BY <1>3, <2>3 DEF AllMatches, MatchesOf
    <3> QED
      BY <1>7, <3>1 DEF Readings
  <2> QED
    BY <2>4, <2>5
<1> QED
  BY <1>6, <1>7

LEMMA WorkerCollecting ==
    ASSUME Inv, Collecting, NEW w \in Workers, WorkerStep(w) PROVE Collecting'
<1>a. /\ regexQueue \in Seq(Path) /\ wf \in Seq(WalkedFile)
      /\ worker \in [Workers -> WorkerState] /\ worker[w] \in WorkerState
  BY DEF Inv, TypeOK
<1>b. worker[w].pc = "emit" => caller.pc = "collect"
  <2>1. worker[w].pc = "emit" => closer.pc \in {"receive", "wait"}
    BY BusyKeepsWaiting
  <2> QED
    BY <2>1 DEF Inv, ClosingOrder, TypeOK, CallerState
<1>1. CASE ReceiveJob(w)
  <2> DEFINE p == Head(regexQueue)
  <2>1. /\ worker[w].pc = "receive" /\ regexQueue # <<>> /\ regexQueue' = Tail(regexQueue)
        /\ worker' = [worker EXCEPT ![w] = [pc |-> "check", file |-> p, next |-> 1, found |-> {}]]
        /\ UNCHANGED <<visited, walker, wf, files, caller>>
    BY <1>1 DEF ReceiveJob
  <2>2. /\ worker'[w].pc = "check" /\ worker'[w].file = p /\ worker'[w].next = 1 /\ worker'[w].found = {}
        /\ \A v \in Workers : v # w => worker'[v] = worker[v]
    BY <1>a, <2>1
  <2>3. p \in Queued /\ Queued' = Queued \ {p} /\ OnceEach(regexQueue')
    BY <1>a, <2>1, ReceiveEach DEF Queued, Collecting, Once
  <2> HIDE DEF p
  <2>4. w \notin Holding /\ Holding' = Holding \cup {w}
    BY <2>1, <2>2 DEF Holding
  <2>5. Checked' = Checked \cup {p} /\ \A v \in Holding : worker'[v].file = worker[v].file /\ worker[v].file \in Checked
    BY <2>2, <2>4 DEF Checked, Holding
  <2>6. Apart'
    BY <2>1, <2>3, <2>5, PlacesStay DEF Collecting, Apart
  <2>7. Once'
    <3>1. p \notin Checked
      BY <2>3 DEF Collecting, Apart
    <3> QED
      BY <2>1, <2>2, <2>3, <2>4, <2>5, <3>1, PlacesStay DEF Collecting, Once
  <2>8. Contents'
    <3>1. {} \in ReadUpTo(p, 1)
      <4>1. Before(1) = {}
        BY DEF Before
      <4>2. MatchesOf(p, {}) = {} /\ {} \in SUBSET Before(1)
        BY DEF MatchesOf
      <4> QED
        BY <4>1, <4>2 DEF ReadUpTo
    <3> QED
      BY <2>1, <2>2, <2>3, <2>5, <3>1, PlacesStay DEF Collecting, Contents
  <2>9. Extent'
    BY <2>1 DEF Collecting, Extent
  <2> QED
    BY <2>6, <2>7, <2>8, <2>9 DEF Collecting
<1>2. CASE CheckContent(w) \/ CheckFails(w)
  <2>1. UNCHANGED <<visited, walker, regexQueue, wf, files, caller>> /\ worker[w].pc = "check"
    BY <1>2 DEF CheckContent, CheckFails
  <2>2. /\ worker'[w].file = worker[w].file /\ worker'[w].pc \in {"check", "emit"}
        /\ \A v \in Workers : v # w => worker'[v] = worker[v]
    BY <1>2, <1>a DEF CheckContent, CheckFails, WorkerState
  <2>3. Holding' = Holding /\ Checked' = Checked /\ w \in Holding /\ \A v \in Holding : worker'[v].file = worker[v].file
    <3>1. Holding' = Holding /\ w \in Holding
      BY <2>1, <2>2 DEF Holding
    <3> QED
      BY <2>2, <3>1 DEF Checked, Holding
  <2>4. /\ worker'[w].pc = "check" => worker'[w].found \in ReadUpTo(worker'[w].file, worker'[w].next)
        /\ worker'[w].pc = "emit" => worker'[w].found \in Readings[worker'[w].file]
    <3>1. CASE CheckContent(w)
      <4> DEFINE n == worker[w].next
                 q == worker[w].file
      <4>1. /\ \E hits \in Hits(q, ContentRegexes[n]) : worker'[w].found = worker[w].found \cup hits
            /\ worker'[w].pc = IF n = Len(ContentRegexes) THEN "emit" ELSE "check"
            /\ worker'[w].next = IF n = Len(ContentRegexes) THEN n ELSE n + 1
        BY <3>1, <1>a DEF CheckContent, WorkerState
      <4>2. n \in 1..Len(ContentRegexes) /\ checksContent(q) /\ q \in Path
        BY <1>a, <2>3 DEF WorkerState, Collecting, Contents, Checked
      <4>3. worker[w].found \in ReadUpTo(q, n)
        BY <2>1 DEF Collecting, Contents
      <4>4. /\ worker'[w].found \in ReadUpTo(q, n + 1)
            /\ n = Len(ContentRegexes) => worker'[w].found \in Readings[q]
        BY <4>1, <4>2, <4>3, MatchesGrow
      <4> HIDE DEF n, q
      <4>5. worker'[w].file = q
        BY <2>2 DEF q
      <4> QED
        BY <4>1, <4>4, <4>5
    <3>2. CASE CheckFails(w)
      <4>1. worker'[w].pc = "emit" /\ worker'[w].found = {} /\ worker'[w].file \in Path
        BY <3>2, <1>a DEF CheckFails, WorkerState
      <4> QED
        BY <4>1, NothingRead
    <3> QED
      BY <1>2, <3>1, <3>2
  <2>5. Apart'
    BY <2>1, <2>3, PlacesStay DEF Collecting, Apart
  <2>6. Once'
    BY <2>1, <2>3, PlacesStay DEF Collecting, Once
  <2>7. Contents'
    BY <2>1, <2>2, <2>3, <2>4, PlacesStay DEF Collecting, Contents
  <2>8. Extent'
    BY <2>1 DEF Collecting, Extent
  <2> QED
    BY <2>5, <2>6, <2>7, <2>8 DEF Collecting
<1>3. CASE EmitChecked(w)
  <2> DEFINE p == worker[w].file
             f == [path |-> worker[w].file, matches |-> worker[w].found]
  <2>1. /\ worker[w].pc = "emit" /\ wf' = Append(wf, f)
        /\ UNCHANGED <<visited, walker, regexQueue, files, caller>>
    BY <1>3 DEF EmitChecked
  <2>2. worker'[w].pc = "release" /\ \A v \in Workers : v # w => worker'[v] = worker[v]
    BY <1>3, <1>a DEF EmitChecked, WorkerState
  <2>3. f \in WalkedFile /\ f.path = p /\ f.matches \in Readings[p]
    BY <1>a, <2>1 DEF WalkedFile, WorkerState, Collecting, Contents
  <2>4. w \in Holding /\ Holding' = Holding \ {w}
    BY <2>1, <2>2 DEF Holding
  <2>5. /\ p \in Checked /\ Checked' = Checked \ {p}
        /\ \A v \in Holding' : worker'[v].file = worker[v].file
    <3>1. \A v \in Holding' : v \in Holding /\ worker'[v].file = worker[v].file /\ worker[v].file # p
      BY <2>2, <2>4 DEF Holding, Collecting, Once
    <3> QED
      BY <2>4, <3>1 DEF Checked
  <2> HIDE DEF f, p
  <2>6. /\ PathsOf(wf)' = PathsOf(wf) \cup {p}
        /\ OncePath(wf) /\ p \notin PathsOf(wf) => OncePath(wf)'
        /\ AsRead(wf) => AsRead(wf)'
    BY <1>a, <2>1, <2>3, SendPath
  <2>7. Apart'
    BY <2>1, <2>5, <2>6, PlacesStay DEF Collecting, Apart
  <2>8. Once'
    BY <2>1, <2>4, <2>5, <2>6, PlacesStay DEF Collecting, Once, Apart
  <2>9. Contents'
    BY <2>1, <2>2, <2>5, <2>6, PlacesStay DEF Collecting, Contents
  <2>10. Extent'
    BY <1>b, <2>1 DEF Collecting, Extent
  <2> QED
    BY <2>7, <2>8, <2>9, <2>10 DEF Collecting
<1>4. CASE Release(w) \/ WorkerEnds(w)
  <2>1. UNCHANGED <<visited, walker, regexQueue, wf, files, caller>> /\ worker[w].pc \in {"release", "receive"}
    BY <1>4 DEF Release, WorkerEnds
  <2>2. worker'[w].pc \in {"receive", "end"} /\ \A v \in Workers : v # w => worker'[v] = worker[v]
    BY <1>4, <1>a DEF Release, WorkerEnds, WorkerState
  <2>3. Holding' = Holding /\ w \notin Holding
    BY <2>1, <2>2 DEF Holding
  <2>4. Checked' = Checked /\ \A v \in Holding : worker'[v].file = worker[v].file
    BY <2>2, <2>3 DEF Checked, Holding
  <2>5. Apart'
    BY <2>1, <2>4, PlacesStay DEF Collecting, Apart
  <2>6. Once'
    BY <2>1, <2>3, <2>4, PlacesStay DEF Collecting, Once
  <2>7. Contents'
    BY <2>1, <2>2, <2>4, PlacesStay DEF Collecting, Contents
  <2>8. Extent'
    BY <2>1 DEF Collecting, Extent
  <2> QED
    BY <2>5, <2>6, <2>7, <2>8 DEF Collecting
<1> QED
  BY <1>1, <1>2, <1>3, <1>4 DEF WorkerStep

LEMMA CallerCollecting ==
    ASSUME Inv, Inv', Collecting, CallerStep PROVE Collecting'
<1>a. wf \in Seq(WalkedFile) /\ files \in Seq(WalkedFile) /\ caller \in CallerState
  BY DEF Inv, TypeOK
<1>1. CASE Collect
  <2> DEFINE f == Head(wf)
  <2>1. /\ wf # <<>> /\ wf' = Tail(wf) /\ files' = Append(files, f) /\ caller.pc = "collect"
        /\ UNCHANGED <<visited, walker, regexQueue, worker, caller>>
    BY <1>1 DEF Collect
  <2>2. /\ f \in WalkedFile /\ f.path \in PathsOf(wf) /\ f.matches \in Readings[f.path]
        /\ PathsOf(wf)' = PathsOf(wf) \ {f.path} /\ OncePath(wf)' /\ AsRead(wf)'
    BY <1>a, <2>1, ReceivePath DEF Collecting, Once, Contents
  <2> HIDE DEF f
  <2>3. /\ PathsOf(files)' = PathsOf(files) \cup {f.path}
        /\ OncePath(files) /\ f.path \notin PathsOf(files) => OncePath(files)'
        /\ AsRead(files) => AsRead(files)'
    BY <1>a, <2>1, <2>2, SendPath
  <2>4. Apart'
    BY <2>1, <2>2, <2>3, PlacesStay DEF Collecting, Apart
  <2>5. Once'
    BY <2>1, <2>2, <2>3, PlacesStay DEF Collecting, Once, Apart
  <2>6. Contents'
    BY <2>1, <2>2, <2>3, PlacesStay DEF Collecting, Contents
  <2>7. Extent'
    BY <2>1 DEF Collecting, Extent
  <2> QED
    BY <2>4, <2>5, <2>6, <2>7 DEF Collecting
<1>2. CASE CollectEnds
  <2>1. /\ wf = <<>> /\ caller'.pc = "take error"
        /\ UNCHANGED <<visited, walker, regexQueue, worker, wf, files>>
    BY <1>2, <1>a DEF CollectEnds, CallerState
  <2>2. Apart' /\ Once' /\ Contents'
    BY <2>1, PlacesStay DEF Collecting, Apart, Once, Contents
  <2>3. Extent'
    BY <2>1 DEF Collecting, Extent
  <2> QED
    BY <2>2, <2>3 DEF Collecting
<1>3. CASE Return
  <2>1. /\ caller.pc = "take error" /\ caller'.pc = "returned"
        /\ files' = IF caller'.err = NoError THEN files ELSE <<>>
        /\ UNCHANGED <<visited, walker, regexQueue, worker, wf>>
    BY <1>3 DEF Return
  <2>2. caller'.err = walker.err
    BY <2>1 DEF Inv, ClosingOrder
  <2>3. CASE caller'.err = NoError
    <3>1. Apart' /\ Once' /\ Contents'
      BY <2>1, <2>3, PlacesStay DEF Collecting, Apart, Once, Contents
    <3>2. Extent'
      BY <2>1, <2>3 DEF Collecting, Extent
    <3> QED
      BY <3>1, <3>2 DEF Collecting
  <2>4. CASE caller'.err # NoError
    <3>1. files' = <<>> /\ walker.err # NoError
      BY <2>1, <2>2, <2>4
    <3>2. PathsOf(files)' = {} /\ OncePath(files)' /\ AsRead(files)'
      BY <3>1 DEF PathsOf, OncePath, AsRead
    <3>3. Apart' /\ Once' /\ Contents'
      BY <2>1, <3>1, <3>2, PlacesStay DEF Collecting, Apart, Once, Contents
    <3>4. Extent'
      BY <2>1, <3>1 DEF Collecting, Extent
    <3> QED
      BY <3>3, <3>4 DEF Collecting
  <2> QED
    BY <2>3, <2>4
<1> QED
  BY <1>1, <1>2, <1>3 DEF CallerStep

LEMMA CollectingInit == Init => Collecting
<1> SUFFICES ASSUME Init PROVE Collecting
  OBVIOUS
<1>1. /\ visited = {} /\ walker.pc = "visit" /\ regexQueue = <<>> /\ wf = <<>> /\ files = <<>>
      /\ caller.pc = "collect" /\ \A w \in Workers : worker[w].pc = "receive"
  BY DEF Init
<1>2. /\ InHand = {} /\ Queued = {} /\ Holding = {} /\ Checked = {} /\ PathsOf(wf) = {} /\ PathsOf(files) = {}
      /\ OnceEach(regexQueue) /\ OncePath(wf) /\ OncePath(files) /\ AsRead(wf) /\ AsRead(files)
  BY <1>1 DEF InHand, Queued, Holding, Checked, PathsOf, OnceEach, OncePath, AsRead, Range
<1> QED
  BY <1>1, <1>2 DEF Collecting, Apart, Once, Contents, Extent

LEMMA CollectingStep ==
    ASSUME Inv, Inv', Collecting, [Next]_vars PROVE Collecting'
<1>1. CASE CloserStep \/ UNCHANGED vars
  <2>1. UNCHANGED <<visited, walker, regexQueue, worker, wf, files, caller>>
    BY <1>1 DEF CloserStep, CloserReceives, CloserWaits, CloseFiles, CloseQueue, ForwardError, vars
  <2> QED
    BY <2>1, PlacesStay DEF Collecting, Apart, Once, Contents, Extent
<1> QED
  BY <1>1, WalkerCollecting, WorkerCollecting, CallerCollecting DEF Next, Terminated

THEOREM Collected == Spec => [](Inv /\ Collecting)
<1>1. Inv /\ [Next]_vars => Inv'
  BY TypeStep, CountStep, OrderStep DEF Inv
<1> QED
  BY InitInv, CollectingInit, CollectingStep, <1>1, PTL DEF Spec

-----------------------------------------------------------------------------
(* What Walk() returns.                                                    *)

\* When the caller has its result, nothing is on its way any more.
LEMMA NothingOnItsWay ==
    ASSUME Inv, Collecting, caller.pc # "collect"
    PROVE  /\ walker.pc = "end" /\ wf = <<>>
           /\ walker.err = NoError => PathsOf(files) = Visible \cap Regular
<1>1. wf = <<>> /\ "wf" \in closed
  BY DEF Collecting, Extent, Inv, ClosingOrder, TypeOK, CallerState
<1>2. walker.pc = "end" /\ wg = 0
  BY <1>1 DEF Inv, ClosingOrder
<1>3. regexQueue \in Seq(Path) /\ Len(regexQueue) = 0 /\ Cardinality(Busy) = 0
  BY <1>2, BusyFinite, LenProperties DEF Inv, TypeOK, WaitGroupCounts
<1>4. regexQueue = <<>> /\ Busy = {}
  BY <1>3, EmptySeq, BusyFinite, FS_EmptySet
<1>5. InHand = {} /\ Queued = {} /\ Holding = {} /\ PathsOf(wf) = {}
  BY <1>1, <1>2, <1>4 DEF InHand, Queued, Holding, Busy, PathsOf, Range
<1>6. Checked = {}
  BY <1>5 DEF Checked
<1> QED
  BY <1>1, <1>2, <1>5, <1>6 DEF Collecting, Apart, Extent

\* As many files as paths, where every path is there once.
LEMMA PathsCounted ==
    ASSUME NEW s \in Seq(WalkedFile), OncePath(s)
    PROVE  Len(s) = Cardinality(PathsOf(s))
<1> DEFINE g == [i \in 1..Len(s) |-> s[i].path]
<1>1. Len(s) \in Nat /\ DOMAIN s = 1..Len(s)
  BY LenProperties
<1>2. g \in Bijection(1..Len(s), PathsOf(s))
  BY <1>1 DEF PathsOf, OncePath, Bijection, Injection, Surjection, IsInjective
<1>3. ExistsBijection(1..Len(s), PathsOf(s))
  BY <1>2 DEF ExistsBijection
<1>4. IsFiniteSet(1..Len(s)) /\ Cardinality(1..Len(s)) = Len(s)
  BY <1>1, FS_Interval
<1> QED
  BY <1>3, <1>4, FS_Bijection

\* For any tree, regexes and pool size, and whatever order the goroutines run
\* in: without an error Walk() returns every visible regular file once, with
\* all of its matches, with none if it could not be opened, or with those of
\* some regexes if a read of it may break off; and with an error no file.
THEOREM NothingIsMissed == Spec => []ResultComplete
<1>1. Inv /\ Collecting => ResultComplete
  <2> SUFFICES ASSUME Inv, Collecting, caller.pc = "returned"
               PROVE  IF caller.err = NoError
                      THEN /\ {f.path : f \in Range(files)} = DueFiles
                           /\ Len(files) = Cardinality(DueFiles)
                           /\ \A f \in Range(files) : f.matches \in Readings[f.path]
                      ELSE files = <<>>
    BY DEF ResultComplete
  <2>1. CASE caller.err # NoError
    BY <2>1 DEF Collecting, Extent
  <2>2. CASE caller.err = NoError
    <3>1. caller.err = walker.err
      BY DEF Inv, ClosingOrder
    <3>2. PathsOf(files) = Visible \cap Regular
      BY <2>2, <3>1, NothingOnItsWay
    <3>3. {f.path : f \in Range(files)} = PathsOf(files)
      BY DEF PathsOf, Range
    <3>4. Len(files) = Cardinality(PathsOf(files))
      BY PathsCounted DEF Inv, TypeOK, Collecting, Once
    <3>5. \A f \in Range(files) : f.matches \in Readings[f.path]
      BY DEF Range, Collecting, Contents, AsRead
    <3> QED
      BY <2>2, <3>2, <3>3, <3>4, <3>5 DEF DueFiles
  <2> QED
    BY <2>1, <2>2
<1> QED
  BY Collected, <1>1, PTL

-----------------------------------------------------------------------------
(* The walk as FileInventory.tla has it.                                   *)

LEMMA InventoryVars ==
    ASSUME UNCHANGED <<files, caller>> PROVE UNCHANGED Inventory!vars
BY DEF Inventory!vars

\* Collecting a walked file is recording it.
LEMMA CollectRecords ==
    ASSUME Inv, Collecting, Collect
    PROVE  \E f \in Visible \cap Regular : Inventory!Record(f)
<1> DEFINE r == Head(wf)
<1>1. /\ wf \in Seq(WalkedFile) /\ wf # <<>> /\ files' = Append(files, r) /\ caller.pc = "collect"
      /\ UNCHANGED caller /\ files \in Seq(WalkedFile)
  BY DEF Collect, Inv, TypeOK
<1>2. r \in WalkedFile /\ r.path \in PathsOf(wf) /\ r.matches \in Readings[r.path]
  BY <1>1, ReceivePath DEF Collecting, Once, Contents
<1> HIDE DEF r
<1>3. Range(files') = Range(files) \cup {r}
  BY <1>1, <1>2, SendEach
<1>4. r.path \in Visible \cap Regular /\ r.path \notin PathsOf(files) /\ r.path \in Path
  BY <1>2, VisibleClosed DEF Collecting, Apart, Extent
<1>5. \A x \in Range(files) : x.path # r.path
  BY <1>4 DEF Range, PathsOf
<1>6. r = [path |-> r.path, matches |-> r.matches]
  BY <1>2 DEF WalkedFile
<1>7. \E m \in Readings[r.path] : Range(files') = Range(files) \cup {[path |-> r.path, matches |-> m]}
  BY <1>2, <1>3, <1>6
<1> QED
  BY <1>1, <1>4, <1>5, <1>7 DEF Inventory!Record

\* Returning is completing with all that is due, or failing with nothing.
LEMMA ReturnEnds ==
    ASSUME Inv, Inv', Collecting, Return
    PROVE  Inventory!Complete \/ Inventory!Fail
<1>1. /\ caller.pc = "take error" /\ caller'.pc = "returned"
      /\ files' = IF caller'.err = NoError THEN files ELSE <<>>
      /\ UNCHANGED <<walker>>
  BY DEF Return
<1>2. caller'.err = walker.err
  BY <1>1 DEF Inv, ClosingOrder
<1>3. CASE caller'.err = NoError
  <2>1. PathsOf(files) = Visible \cap Regular
    BY <1>1, <1>2, <1>3, NothingOnItsWay
  <2>2. {x.path : x \in Range(files)} = PathsOf(files)
    BY DEF Range, PathsOf
  <2> QED
    BY <1>1, <1>3, <2>1, <2>2 DEF Inventory!Complete, DueFiles
<1>4. CASE caller'.err # NoError
  <2>1. files' = <<>>
    BY <1>1, <1>4
  <2>2. Range(<<>>) = {}
    BY DEF Range
  <2> QED
    BY <1>1, <1>4, <2>1, <2>2 DEF Inventory!Fail
<1> QED
  BY <1>3, <1>4

\* Walk() takes only the steps of FileInventory: whatever the goroutines do is
\* a stutter, recording one more file that is due, the completion or the failure.
THEOREM ImplementsSteps == Spec => Inventory!Init /\ [][Inventory!Next]_(Inventory!vars)
<1>1. Init => Inventory!Init
  BY DEF Init, Inventory!Init, Range
<1>2. ASSUME Inv, Inv', Collecting, [Next]_vars PROVE [Inventory!Next]_(Inventory!vars)
  <2>1. CASE Collect
    BY <1>2, <2>1, CollectRecords DEF Inventory!Next, DueFiles
  <2>2. CASE Return
    BY <1>2, <2>2, ReturnEnds DEF Inventory!Next
  <2>3. CASE CollectEnds
    <3>1. /\ UNCHANGED files /\ caller.pc = "collect" /\ caller'.pc = "take error"
      BY <1>2, <2>3 DEF CollectEnds, Inv, TypeOK, CallerState
    <3> QED
      BY <3>1 DEF Inventory!vars
  <2>4. CASE ~CallerStep
    <3>1. UNCHANGED <<files, caller>>
      BY <1>2, <2>4
      DEF Next, Terminated, vars, WalkerStep, VisitFails, VisitOther, VisitFile, Enqueue, EmitUnchecked, WalkEnds,
          WorkerStep, ReceiveJob, CheckContent, CheckFails, EmitChecked, Release, WorkerEnds,
          CloserStep, CloserReceives, CloserWaits, CloseFiles, CloseQueue, ForwardError
    <3> QED
      BY <3>1, InventoryVars
  <2> QED
    BY <2>1, <2>2, <2>3, <2>4 DEF CallerStep
<1> QED
  BY <1>1, <1>2, Collected, PTL DEF Spec

-----------------------------------------------------------------------------
(* Nobody waits for ever: at every moment all goroutines have ended or one *)
(* of them can take a step, and every step taken leaves less to do.  With  *)
(* that, AllEnd needs no more of the scheduler than that the process goes  *)
(* on while it can.                                                        *)

\* The guards of the actions, one for each that can be waited for.
WalkerCanGo ==
    \/ walker.pc = "visit" /\ (Len(done) < 1 \/ (walker.err = NoError /\ ToVisit # {}))
    \/ walker.pc = "enqueue" /\ Len(regexQueue) < MaxInFlight
    \/ walker.pc = "emit" /\ Len(wf) < MaxInFlight
CheckerCanGo(w) ==
    \/ worker[w].pc = "receive" /\ (regexQueue # <<>> \/ "regexQueue" \in closed)
    \/ worker[w].pc \in {"check", "release"}
    \/ worker[w].pc = "emit" /\ Len(wf) < MaxInFlight
CloserCanGo ==
    \/ closer.pc = "receive" /\ done # <<>>
    \/ closer.pc = "wait" /\ wg = 0
    \/ closer.pc \in {"close wf", "close regexQueue"}
    \/ closer.pc = "forward" /\ Len(done) < 1
CallerCanGo ==
    \/ caller.pc = "collect" /\ (wf # <<>> \/ "wf" \in closed)
    \/ caller.pc = "take error" /\ done # <<>>
CanGo == WalkerCanGo \/ (\E w \in Workers : CheckerCanGo(w)) \/ CloserCanGo \/ CallerCanGo

Ended ==
    /\ caller.pc = "returned" /\ closer.pc = "end" /\ walker.pc = "end"
    /\ \A w \in Workers : worker[w].pc = "end"

\* A checker leaves only a closed queue.
CheckersStay == \A w \in Workers : worker[w].pc = "end" => "regexQueue" \in closed

LEMMA CheckersInvariant == Spec => [](Inv /\ Collecting /\ CheckersStay)
<1>1. Init => CheckersStay
  BY DEF Init, CheckersStay
<1>2. Inv /\ CheckersStay /\ [Next]_vars => CheckersStay'
  <2> SUFFICES ASSUME Inv, CheckersStay, [Next]_vars PROVE CheckersStay'
    OBVIOUS
  <2>1. CASE WalkerStep
    BY <2>1 DEF CheckersStay, WalkerStep, VisitFails, VisitOther, VisitFile, Enqueue, EmitUnchecked, WalkEnds
  <2>2. ASSUME NEW v \in Workers, WorkerStep(v) PROVE CheckersStay'
    <3>1. /\ UNCHANGED closed /\ DOMAIN worker = Workers
          /\ \A w \in Workers \ {v} : worker'[w] = worker[w]
          /\ worker'[v].pc = "end" => "regexQueue" \in closed
      BY <2>2 DEF Inv, TypeOK, WorkerState, WorkerStep, ReceiveJob, CheckContent, CheckFails,
         EmitChecked, Release, WorkerEnds
    <3> QED
      BY <3>1 DEF CheckersStay
  <2>3. CASE CloserStep
    BY <2>3 DEF CheckersStay, CloserStep, CloserReceives, CloserWaits, CloseFiles, CloseQueue, ForwardError
  <2>4. CASE CallerStep
    BY <2>4 DEF CheckersStay, CallerStep, Collect, CollectEnds, Return
  <2>5. CASE Terminated \/ UNCHANGED vars
    BY <2>5 DEF CheckersStay, Terminated, vars
  <2> QED
    BY <2>1, <2>2, <2>3, <2>4, <2>5 DEF Next
<1> QED
  BY <1>1, <1>2, Collected, PTL DEF Spec

\* While the queue holds a file there is a checker that has not ended.
LEMMA CheckersThere ==
    ASSUME Inv, Contents, CheckersStay, "regexQueue" \notin closed,
           regexQueue # <<>> \/ walker.pc = "enqueue"
    PROVE  \E w \in Workers : worker[w].pc # "end"
<1>1. ContentRegexes # <<>>
  <2>1. CASE walker.pc = "enqueue"
    BY <2>1 DEF Contents, checksContent
  <2>2. CASE regexQueue # <<>>
    <3>1. 1 \in DOMAIN regexQueue
      BY <2>2, EmptySeq, LenProperties DEF Inv, TypeOK
    <3>2. regexQueue[1] \in Queued
      BY <3>1 DEF Queued, Range
    <3> QED
      BY <3>2 DEF Contents, checksContent
  <2> QED
    BY <2>1, <2>2
<1>2. 1 \in Workers
  BY <1>1, MaxInFlightAssumption DEF Workers
<1> QED
  BY <1>2 DEF CheckersStay

\* For any tree, regexes and pool size: Walk() and its goroutines are at their
\* end or one of them can go on.  The checkers wait for the caller, the walker
\* for both, the closer for all of them and the caller for the closer, but
\* never in a circle.
THEOREM NeverStuck == Spec => [](Ended \/ CanGo)
<1>1. Inv /\ Collecting /\ CheckersStay => Ended \/ CanGo
  <2> SUFFICES ASSUME Inv, Collecting, CheckersStay, ~CanGo PROVE Ended
    OBVIOUS
  <2>0. /\ walker.pc \in {"visit", "enqueue", "emit", "end"}
        /\ \A w \in Workers : worker[w].pc \in {"receive", "check", "emit", "release", "end"}
        /\ closer.pc \in {"receive", "wait", "close wf", "close regexQueue", "forward", "end"}
        /\ caller.pc \in {"collect", "take error", "returned"}
    BY DEF Inv, TypeOK, WalkerState, WorkerState, CloserState, CallerState
  <2>1. /\ done = <<>> => Len(done) = 0
        /\ done = <<walker.err>> => done # <<>>
        /\ wf = <<>> => Len(wf) = 0
        /\ regexQueue = <<>> => Len(regexQueue) = 0
    OBVIOUS
  <2>2. ~WalkerCanGo /\ (\A w \in Workers : ~CheckerCanGo(w)) /\ ~CloserCanGo /\ ~CallerCanGo
    BY DEF CanGo
  <2>3. wf = <<>>
    BY <2>2 DEF Collecting, Extent, CallerCanGo
  <2>4. walker.pc \notin {"visit", "emit"} /\ \A w \in Workers : worker[w].pc \in {"receive", "end"}
    <3>1. Len(wf) < MaxInFlight
      BY <2>1, <2>3, MaxInFlightAssumption
    <3>2. walker.pc = "visit" => Len(done) < 1
      <4>1. walker.pc = "visit" => done = <<>>
        BY DEF Inv, ClosingOrder
      <4> QED
        BY <4>1
    <3>3. walker.pc \notin {"visit", "emit"}
      BY <2>2, <3>1, <3>2 DEF WalkerCanGo
    <3> QED
      BY <2>0, <2>2, <3>1, <3>3 DEF CheckerCanGo
  <2>5. regexQueue = <<>> /\ walker.pc # "enqueue"
    <3>1. regexQueue # <<>> \/ walker.pc = "enqueue" => "regexQueue" \notin closed
      <4>1. walker.pc = "enqueue" => "regexQueue" \notin closed
        BY DEF Inv, ClosingOrder
      <4>2. ASSUME regexQueue # <<>> PROVE "regexQueue" \notin closed
        <5>1. Len(regexQueue) # 0
          BY <4>2, EmptySeq DEF Inv, TypeOK
        <5>2. wg = (IF walker.pc = "enqueue" THEN 1 ELSE 0) + Len(regexQueue) + Cardinality(Busy)
          BY DEF Inv, WaitGroupCounts
        <5>3. Len(regexQueue) \in Nat /\ Cardinality(Busy) \in Nat
          BY BusyFinite, LenProperties DEF Inv, TypeOK
        <5>4. wg # 0
          BY <5>1, <5>2, <5>3
        <5> QED
          BY <5>4 DEF Inv, ClosingOrder
      <4> QED
        BY <4>1, <4>2
    <3>2. ASSUME regexQueue # <<>> PROVE FALSE
      <4>1. PICK w \in Workers : worker[w].pc # "end"
        BY <3>1, <3>2, CheckersThere DEF Collecting
      <4>2. worker[w].pc = "receive"
        BY <2>4, <4>1
      <4> QED
        BY <2>2, <3>2, <4>2 DEF CheckerCanGo
    <3>3. Len(regexQueue) < MaxInFlight
      BY <2>1, <3>2, MaxInFlightAssumption
    <3> QED
      BY <2>2, <3>2, <3>3 DEF WalkerCanGo
  <2>6. walker.pc = "end"
    BY <2>0, <2>4, <2>5
  <2>7. wg = 0
    <3>1. Busy = {}
      BY <2>4 DEF Busy
    <3> QED
      BY <2>1, <2>5, <2>6, <3>1, FS_EmptySet DEF Inv, WaitGroupCounts
  <2>8. closer.pc = "end"
    <3>1. closer.pc # "receive"
      <4>1. closer.pc = "receive" => done = <<walker.err>>
        BY <2>6 DEF Inv, ClosingOrder
      <4> QED
        BY <2>1, <2>2, <4>1 DEF CloserCanGo
    <3>2. closer.pc = "forward" => Len(done) < 1
      <4>1. closer.pc = "forward" => done = <<>>
        BY DEF Inv, ClosingOrder
      <4> QED
        BY <4>1
    <3>3. closer.pc \notin {"wait", "close wf", "close regexQueue", "forward"}
      BY <2>2, <2>7, <3>2 DEF CloserCanGo
    <3> QED
      BY <2>0, <3>1, <3>3
  <2>9. {"wf", "regexQueue"} \subseteq closed
    BY <2>8 DEF Inv, ClosingOrder
  <2>10. \A w \in Workers : worker[w].pc = "end"
    BY <2>2, <2>4, <2>9 DEF CheckerCanGo
  <2>11. caller.pc = "returned"
    <3>1. caller.pc # "returned" => done = <<walker.err>>
      BY <2>8 DEF Inv, ClosingOrder
    <3> QED
      BY <2>0, <2>1, <2>2, <2>9, <3>1 DEF CallerCanGo
  <2> QED
    BY <2>6, <2>8, <2>10, <2>11 DEF Ended
<1> QED
  BY <1>1, CheckersInvariant, PTL

\* What is left to do: each entry not yet visited, each file in the walker's
\* hand or in the queue costs as many steps as there may be until it has been
\* checked against every content regex, recorded and collected; the rounds are
\* counted as pairs of a checker and one of the steps it has before it.
Regexes == Len(ContentRegexes)
QueueCost == 2 * Regexes + 5
VisitCost == 2 * Regexes + 7
WalkerLeft ==
    IF walker.pc = "enqueue" THEN 2 * Regexes + 7
    ELSE IF walker.pc = "emit" THEN 3 ELSE IF walker.pc = "visit" THEN 1 ELSE 0
CheckerLeft(w) ==
    IF worker[w].pc = "check" THEN Regexes - worker[w].next + 4
    ELSE IF worker[w].pc = "emit" THEN 3 ELSE IF worker[w].pc = "release" THEN 2
    ELSE IF worker[w].pc = "receive" THEN 1 ELSE 0
Rounds == {r \in Workers \X (1..(Regexes + 3)) : r[2] <= CheckerLeft(r[1])}
CloserLeft ==
    IF closer.pc = "receive" THEN 5 ELSE IF closer.pc = "wait" THEN 4
    ELSE IF closer.pc = "close wf" THEN 3 ELSE IF closer.pc = "close regexQueue" THEN 2
    ELSE IF closer.pc = "forward" THEN 1 ELSE 0
CallerLeft == IF caller.pc = "collect" THEN 2 ELSE IF caller.pc = "take error" THEN 1 ELSE 0
StepsLeft ==
    VisitCost * Cardinality(Path \ visited) + WalkerLeft + QueueCost * Len(regexQueue)
    + 2 * Cardinality(Rounds) + Len(wf) + CloserLeft + CallerLeft

LEMMA RegexesType == Regexes \in Nat /\ QueueCost \in Nat /\ VisitCost \in Nat
<1>1. Regexes \in Nat
  BY MatchAssumption, LenProperties DEF Regexes
<1> QED
  BY <1>1 DEF QueueCost, VisitCost

LEMMA OneMore ==
    ASSUME NEW k \in Nat, NEW n \in Nat
    PROVE  k * n \in Nat /\ k * (n + 1) = k * n + k /\ (n > 0 => k * (n - 1) = k * n - k)
OBVIOUS

LEMMA CheckerLeftType ==
    ASSUME Inv, NEW w \in Workers
    PROVE  /\ CheckerLeft(w) \in 0..(Regexes + 3)
           /\ worker[w].pc = "check" => worker[w].next \in 1..Regexes /\ CheckerLeft(w) > 3
<1>1. worker[w] \in WorkerState
  BY DEF Inv, TypeOK
<1>2. worker[w].next \in 1..Regexes
  BY <1>1 DEF WorkerState, Regexes
<1> QED
  BY <1>2, RegexesType DEF CheckerLeft

LEMMA RoundsFinite == IsFiniteSet(Rounds) /\ Cardinality(Rounds) \in Nat
<1>1. IsFiniteSet(Workers) /\ IsFiniteSet(1..(Regexes + 3))
  BY BusyFinite, RegexesType, FS_Interval
<1>2. IsFiniteSet(Workers \X (1..(Regexes + 3)))
  BY <1>1, FS_Product
<1>3. Rounds \subseteq Workers \X (1..(Regexes + 3))
  BY DEF Rounds
<1> QED
  BY <1>2, <1>3, FS_Subset, FS_CardinalityType

\* The rounds of one checker apart from those of the others.
RoundsBut(w) == {r \in Workers \X (1..(Regexes + 3)) : r[1] # w /\ r[2] <= CheckerLeft(r[1])}
LEMMA RoundsApart ==
    ASSUME NEW w \in Workers, CheckerLeft(w) \in 0..(Regexes + 3)
    PROVE  /\ Cardinality(Rounds) = Cardinality(RoundsBut(w)) + CheckerLeft(w)
           /\ Cardinality(RoundsBut(w)) \in Nat
<1> DEFINE mine == {w} \X (1..CheckerLeft(w))
<1>1. IsFiniteSet({w}) /\ Cardinality({w}) = 1
  BY FS_Singleton
<1>2. IsFiniteSet(1..CheckerLeft(w)) /\ Cardinality(1..CheckerLeft(w)) = CheckerLeft(w)
  BY FS_Interval, RegexesType
<1>3. IsFiniteSet(mine) /\ Cardinality(mine) = 1 * CheckerLeft(w)
  BY <1>1, <1>2, FS_Product
<1>4. RoundsBut(w) \subseteq Rounds
  BY DEF Rounds, RoundsBut
<1>5. IsFiniteSet(RoundsBut(w)) /\ Cardinality(RoundsBut(w)) \in Nat
  BY <1>4, RoundsFinite, FS_Subset, FS_CardinalityType
<1>6. Rounds = RoundsBut(w) \cup mine
  BY RegexesType DEF Rounds, RoundsBut
<1>7. RoundsBut(w) \cap mine = {}
  BY DEF RoundsBut
<1>8. Cardinality(Rounds) = Cardinality(RoundsBut(w)) + Cardinality(mine) - Cardinality(RoundsBut(w) \cap mine)
  BY <1>3, <1>5, <1>6, FS_Union
<1>9. Cardinality(RoundsBut(w) \cap mine) = 0
  BY <1>7, FS_EmptySet
<1> QED
  BY <1>3, <1>5, <1>8, <1>9

\* The step of one checker changes the rounds by its own.
LEMMA CheckerGoesOn ==
    ASSUME Inv, Inv', NEW w \in Workers, \A v \in Workers \ {w} : worker'[v] = worker[v]
    PROVE  Cardinality(Rounds)' = Cardinality(Rounds) + CheckerLeft(w)' - CheckerLeft(w)
<1>1. CheckerLeft(w) \in 0..(Regexes + 3)
  BY CheckerLeftType
<1>2. CheckerLeft(w)' \in 0..(Regexes + 3)
  <2>1. Inv' => CheckerLeft(w)' \in 0..(Regexes + 3)
    <3>1. worker'[w] \in WorkerState
      BY DEF Inv, TypeOK
    <3>2. worker'[w].next \in 1..Regexes
      BY <3>1 DEF WorkerState, Regexes
    <3> QED
      BY <3>2, RegexesType DEF CheckerLeft, Regexes
  <2> QED
    BY <2>1
<1>3. \A v \in Workers \ {w} : CheckerLeft(v)' = CheckerLeft(v)
  BY DEF CheckerLeft, Regexes
<1>4. RoundsBut(w)' = RoundsBut(w)
  BY <1>3 DEF RoundsBut, Regexes
<1>5. Cardinality(Rounds) = Cardinality(RoundsBut(w)) + CheckerLeft(w) /\ Cardinality(RoundsBut(w)) \in Nat
  BY <1>1, RoundsApart
<1>6. Cardinality(Rounds)' = Cardinality(RoundsBut(w))' + CheckerLeft(w)'
  <2>1. (CheckerLeft(w) \in 0..(Regexes + 3) =>
            Cardinality(Rounds) = Cardinality(RoundsBut(w)) + CheckerLeft(w))'
    BY RoundsApart, PTL
  <2> QED
    BY <1>2, <2>1 DEF Regexes
<1> QED
  BY <1>1, <1>2, <1>4, <1>5, <1>6, RegexesType

LEMMA StepsLeftType ==
    ASSUME Inv
    PROVE  /\ Cardinality(Path \ visited) \in Nat /\ Len(regexQueue) \in Nat /\ Len(wf) \in Nat
           /\ WalkerLeft \in Nat /\ CloserLeft \in 0..5 /\ CallerLeft \in 0..2 /\ StepsLeft \in Nat
<1>1. IsFiniteSet(Path \ visited)
  BY TreeAssumption, FS_Subset
<1>2. Cardinality(Path \ visited) \in Nat
  BY <1>1, FS_CardinalityType
<1>3. Len(regexQueue) \in Nat /\ Len(wf) \in Nat
  BY LenProperties DEF Inv, TypeOK
<1>4. WalkerLeft \in Nat
  BY RegexesType DEF WalkerLeft
<1>5. CloserLeft \in 0..5 /\ CallerLeft \in 0..2
  BY DEF CloserLeft, CallerLeft
<1>6. VisitCost * Cardinality(Path \ visited) \in Nat /\ QueueCost * Len(regexQueue) \in Nat
  BY <1>2, <1>3, RegexesType, OneMore
<1>7. StepsLeft \in Nat
  <2>1. PICK u, q, n, o, r :
           /\ u = VisitCost * Cardinality(Path \ visited) /\ q = QueueCost * Len(regexQueue)
           /\ n = CloserLeft /\ o = CallerLeft /\ r = Cardinality(Rounds)
    OBVIOUS
  <2>2. StepsLeft = u + WalkerLeft + q + 2 * r + Len(wf) + n + o
    BY <2>1 DEF StepsLeft
  <2>3. u \in Nat /\ q \in Nat /\ n \in Nat /\ o \in Nat /\ r \in Nat
    BY <1>5, <1>6, <2>1, RoundsFinite
  <2> QED
    BY <1>3, <1>4, <2>2, <2>3
<1> QED
  BY <1>2, <1>3, <1>4, <1>5, <1>7

LEMMA StepCounts == ASSUME Inv, Inv', Next, ~Terminated PROVE StepsLeft' < StepsLeft
<1>1. PICK u, m, q, r, f, n, o :
         /\ u = Cardinality(Path \ visited) /\ m = WalkerLeft /\ q = Len(regexQueue)
         /\ r = Cardinality(Rounds) /\ f = Len(wf) /\ n = CloserLeft /\ o = CallerLeft
  OBVIOUS
<1>2. PICK u1, m1, q1, r1, f1, n1, o1 :
         /\ u1 = Cardinality(Path \ visited') /\ m1 = WalkerLeft' /\ q1 = Len(regexQueue')
         /\ r1 = Cardinality(Rounds)' /\ f1 = Len(wf') /\ n1 = CloserLeft' /\ o1 = CallerLeft'
  OBVIOUS
<1>3. /\ StepsLeft = VisitCost * u + m + QueueCost * q + 2 * r + f + n + o
      /\ StepsLeft' = VisitCost * u1 + m1 + QueueCost * q1 + 2 * r1 + f1 + n1 + o1
  BY <1>1, <1>2 DEF StepsLeft, VisitCost, QueueCost, Regexes
<1>4. /\ u \in Nat /\ m \in Nat /\ q \in Nat /\ r \in Nat /\ f \in Nat /\ n \in 0..5 /\ o \in 0..2
      /\ VisitCost \in Nat /\ QueueCost \in Nat
  BY <1>1, StepsLeftType, RoundsFinite, RegexesType
<1>5. PICK uu, qq, uu1, qq1 :
         uu = VisitCost * u /\ qq = QueueCost * q /\ uu1 = VisitCost * u1 /\ qq1 = QueueCost * q1
  OBVIOUS
<1>6. /\ StepsLeft = uu + m + qq + 2 * r + f + n + o /\ uu \in Nat /\ qq \in Nat
      /\ StepsLeft' = uu1 + m1 + qq1 + 2 * r1 + f1 + n1 + o1
  BY <1>3, <1>4, <1>5, OneMore
<1>7. /\ UNCHANGED visited => uu1 = uu
      /\ UNCHANGED regexQueue => qq1 = qq
      /\ UNCHANGED walker => m1 = m
      /\ UNCHANGED worker => r1 = r
      /\ UNCHANGED wf => f1 = f
      /\ UNCHANGED closer => n1 = n
      /\ UNCHANGED caller => o1 = o
  BY <1>1, <1>2, <1>5 DEF WalkerLeft, Rounds, CheckerLeft, CloserLeft, CallerLeft, Regexes
<1>8. /\ q > 0 /\ q1 = q - 1 => qq1 = qq - QueueCost
      /\ q1 = q + 1 => qq1 = qq + QueueCost
  BY <1>4, <1>5, OneMore
<1>9. ASSUME NEW p \in Path, VisitFails(p) \/ VisitOther(p) \/ VisitFile(p) PROVE StepsLeft' < StepsLeft
  <2>1. /\ p \notin visited /\ visited' = visited \cup {p} /\ walker.pc = "visit"
        /\ walker'.pc \in {"visit", "enqueue", "emit"}
        /\ UNCHANGED <<regexQueue, worker, wf, closer, caller>>
    BY <1>9 DEF VisitFails, VisitOther, VisitFile, ToVisit, Open, Inv, TypeOK, WalkerState
  <2>2. IsFiniteSet(Path \ visited) /\ p \in Path \ visited /\ Path \ visited' = (Path \ visited) \ {p}
    BY <2>1, TreeAssumption, FS_Subset
  <2>3. u1 = u - 1 /\ u > 0
    <3>1. u1 = u - 1
      BY <1>1, <1>2, <2>2, FS_RemoveElement
    <3>2. u # 0
      BY <1>1, <2>2, FS_EmptySet
    <3> QED
      BY <1>4, <3>1, <3>2
  <2>4. uu1 = uu - VisitCost
    BY <1>4, <1>5, <2>3, OneMore
  <2>5. m = 1 /\ m1 \in Nat /\ m1 <= VisitCost
    BY <1>1, <1>2, <2>1, RegexesType DEF WalkerLeft, VisitCost, Regexes
  <2> QED
    BY <1>4, <1>6, <1>7, <2>1, <2>4, <2>5
<1>10. CASE Enqueue
  <2>1. /\ UNCHANGED <<visited, worker, wf, closer, caller>>
        /\ regexQueue' = Append(regexQueue, walker.file) /\ walker.pc = "enqueue" /\ walker'.pc = "visit"
        /\ walker.file \in Path /\ regexQueue \in Seq(Path)
    BY <1>10 DEF Enqueue, Inv, TypeOK, WalkerState
  <2>2. q1 = q + 1
    BY <1>1, <1>2, <2>1, ChannelOps
  <2>3. m = QueueCost + 2 /\ m1 = 1
    BY <1>1, <1>2, <2>1, RegexesType DEF WalkerLeft, QueueCost, Regexes
  <2> QED
    BY <1>4, <1>6, <1>7, <1>8, <2>1, <2>2, <2>3
<1>11. CASE EmitUnchecked
  <2>1. /\ UNCHANGED <<visited, regexQueue, worker, closer, caller>>
        /\ wf' = Append(wf, [path |-> walker.file, matches |-> {}])
        /\ walker.pc = "emit" /\ walker'.pc = "visit"
        /\ [path |-> walker.file, matches |-> {}] \in WalkedFile /\ wf \in Seq(WalkedFile)
    BY <1>11 DEF EmitUnchecked, Inv, TypeOK, WalkerState, WalkedFile
  <2>2. f1 = f + 1
    BY <1>1, <1>2, <2>1, ChannelOps
  <2>3. m = 3 /\ m1 = 1
    BY <1>1, <1>2, <2>1 DEF WalkerLeft
  <2> QED
    BY <1>4, <1>6, <1>7, <2>1, <2>2, <2>3
<1>12. CASE WalkEnds
  <2>1. /\ UNCHANGED <<visited, regexQueue, worker, wf, closer, caller>>
        /\ walker.pc = "visit" /\ walker'.pc = "end"
    BY <1>12 DEF WalkEnds, Inv, TypeOK, WalkerState
  <2>2. m = 1 /\ m1 = 0
    BY <1>1, <1>2, <2>1 DEF WalkerLeft
  <2> QED
    BY <1>4, <1>6, <1>7, <2>1, <2>2
<1>13. ASSUME NEW w \in Workers, WorkerStep(w) PROVE StepsLeft' < StepsLeft
  <2>1. /\ UNCHANGED <<visited, walker, closer, caller>>
        /\ \A v \in Workers \ {w} : worker'[v] = worker[v]
        /\ worker[w] \in WorkerState /\ DOMAIN worker = Workers
    BY <1>13 DEF WorkerStep, ReceiveJob, CheckContent, CheckFails, EmitChecked, Release, WorkerEnds, Inv, TypeOK
  <2>2. PICK a, b : a = CheckerLeft(w) /\ b = CheckerLeft(w)'
    OBVIOUS
  <2>3. r1 = r + b - a /\ a \in Nat /\ b \in Nat /\ r1 \in Nat
    <3>1. r1 = r + b - a /\ a \in Nat
      BY <1>1, <1>2, <2>1, <2>2, CheckerGoesOn, CheckerLeftType, RegexesType
    <3>2. b \in Nat
      <4>1. (Inv => CheckerLeft(w) \in 0..(Regexes + 3))'
        BY CheckerLeftType, PTL
      <4> QED
        BY <2>2, <4>1, RegexesType DEF Regexes
    <3>3. r1 \in Nat
      <4>1. (Cardinality(Rounds) \in Nat)'
        BY RoundsFinite, PTL
      <4> QED
        BY <1>2, <4>1
    <3> QED
      BY <3>1, <3>2, <3>3
  <2>4. CASE ReceiveJob(w)
    <3>1. /\ worker[w].pc = "receive" /\ worker'[w].pc = "check" /\ worker'[w].next = 1
          /\ regexQueue # <<>> /\ regexQueue' = Tail(regexQueue) /\ UNCHANGED wf
      BY <2>1, <2>4 DEF ReceiveJob
    <3>2. q > 0 /\ q1 = q - 1
      BY <1>1, <1>2, <3>1, ChannelOps DEF Inv, TypeOK
    <3>3. a = 1 /\ b = Regexes + 3
      BY <2>2, <3>1, RegexesType DEF CheckerLeft, Regexes
    <3> QED
      BY <1>4, <1>6, <1>7, <1>8, <2>1, <2>3, <3>1, <3>2, <3>3, RegexesType DEF QueueCost
  <2>5. CASE CheckContent(w) \/ CheckFails(w) \/ Release(w) \/ WorkerEnds(w)
    <3>1. UNCHANGED <<regexQueue, wf>>
      BY <2>5 DEF CheckContent, CheckFails, Release, WorkerEnds
    <3>2. b < a
      <4>1. CASE CheckContent(w)
        <5>1. worker[w].next \in 1..Regexes
          BY <2>1 DEF WorkerState, Regexes
        <5>2. worker[w].pc = "check"
          BY <4>1 DEF CheckContent
        <5>3. \/ worker'[w].pc = "emit"
              \/ worker'[w].pc = "check" /\ worker'[w].next = worker[w].next + 1
          BY <2>1, <4>1 DEF CheckContent, WorkerState
        <5> QED
          BY <2>2, <5>1, <5>2, <5>3, RegexesType DEF CheckerLeft, Regexes
      <4>2. CASE CheckFails(w)
        <5>1. worker[w].next \in 1..Regexes
          BY <2>1 DEF WorkerState, Regexes
        <5>2. worker[w].pc = "check" /\ worker'[w].pc = "emit"
          BY <2>1, <4>2 DEF CheckFails, WorkerState
        <5> QED
          BY <2>2, <5>1, <5>2, RegexesType DEF CheckerLeft, Regexes
      <4>3. CASE Release(w)
        <5>1. worker[w].pc = "release" /\ worker'[w].pc = "receive"
          BY <2>1, <4>3 DEF Release, WorkerState
        <5> QED
          BY <2>2, <5>1 DEF CheckerLeft
      <4>4. CASE WorkerEnds(w)
        <5>1. worker[w].pc = "receive" /\ worker'[w].pc = "end"
          BY <2>1, <4>4 DEF WorkerEnds, WorkerState
        <5> QED
          BY <2>2, <5>1 DEF CheckerLeft
      <4> QED
        BY <2>5, <4>1, <4>2, <4>3, <4>4
    <3> QED
      BY <1>4, <1>6, <1>7, <2>1, <2>3, <3>1, <3>2
  <2>6. CASE EmitChecked(w)
    <3>1. /\ worker[w].pc = "emit" /\ worker'[w].pc = "release" /\ UNCHANGED regexQueue
          /\ wf' = Append(wf, [path |-> worker[w].file, matches |-> worker[w].found])
          /\ [path |-> worker[w].file, matches |-> worker[w].found] \in WalkedFile
          /\ wf \in Seq(WalkedFile)
      BY <2>1, <2>6 DEF EmitChecked, WorkerState, WalkedFile, Inv, TypeOK
    <3>2. f1 = f + 1
      BY <1>1, <1>2, <3>1, ChannelOps
    <3>3. a = 3 /\ b = 2
      BY <2>2, <3>1 DEF CheckerLeft
    <3> QED
      BY <1>4, <1>6, <1>7, <2>1, <2>3, <3>1, <3>2, <3>3
  <2> QED
    BY <1>13, <2>4, <2>5, <2>6 DEF WorkerStep
<1>14. CASE CloserStep
  <2>1. UNCHANGED <<visited, walker, regexQueue, worker, wf, caller>>
    BY <1>14 DEF CloserStep, CloserReceives, CloserWaits, CloseFiles, CloseQueue, ForwardError
  <2>2. closer \in CloserState
    BY DEF Inv, TypeOK
  <2>3. CASE CloserReceives
    <3>1. closer.pc = "receive" /\ closer'.pc = "wait"
      BY <2>2, <2>3 DEF CloserReceives, CloserState
    <3>2. n = 5 /\ n1 = 4
      BY <1>1, <1>2, <3>1 DEF CloserLeft
    <3> QED
      BY <1>4, <1>6, <1>7, <2>1, <3>2
  <2>4. CASE CloserWaits
    <3>1. closer.pc = "wait" /\ closer'.pc = "close wf"
      BY <2>2, <2>4 DEF CloserWaits, CloserState
    <3>2. n = 4 /\ n1 = 3
      BY <1>1, <1>2, <3>1 DEF CloserLeft
    <3> QED
      BY <1>4, <1>6, <1>7, <2>1, <3>2
  <2>5. CASE CloseFiles
    <3>1. closer.pc = "close wf" /\ closer'.pc = "close regexQueue"
      BY <2>2, <2>5 DEF CloseFiles, CloserState
    <3>2. n = 3 /\ n1 = 2
      BY <1>1, <1>2, <3>1 DEF CloserLeft
    <3> QED
      BY <1>4, <1>6, <1>7, <2>1, <3>2
  <2>6. CASE CloseQueue
    <3>1. closer.pc = "close regexQueue" /\ closer'.pc = "forward"
      BY <2>2, <2>6 DEF CloseQueue, CloserState
    <3>2. n = 2 /\ n1 = 1
      BY <1>1, <1>2, <3>1 DEF CloserLeft
    <3> QED
      BY <1>4, <1>6, <1>7, <2>1, <3>2
  <2>7. CASE ForwardError
    <3>1. closer.pc = "forward" /\ closer'.pc = "end"
      BY <2>2, <2>7 DEF ForwardError, CloserState
    <3>2. n = 1 /\ n1 = 0
      BY <1>1, <1>2, <3>1 DEF CloserLeft
    <3> QED
      BY <1>4, <1>6, <1>7, <2>1, <3>2
  <2> QED
    BY <1>14, <2>3, <2>4, <2>5, <2>6, <2>7 DEF CloserStep
<1>15. CASE Collect
  <2>1. /\ UNCHANGED <<visited, walker, regexQueue, worker, closer, caller>>
        /\ wf # <<>> /\ wf' = Tail(wf)
    BY <1>15 DEF Collect
  <2>2. f1 = f - 1
    BY <1>1, <1>2, <2>1, ChannelOps DEF Inv, TypeOK
  <2> QED
    BY <1>4, <1>6, <1>7, <2>1, <2>2
<1>16. CASE CollectEnds \/ Return
  <2>1. UNCHANGED <<visited, walker, regexQueue, worker, wf, closer>>
    BY <1>16 DEF CollectEnds, Return
  <2>2. caller \in CallerState
    BY DEF Inv, TypeOK
  <2>3. CASE CollectEnds
    <3>1. caller.pc = "collect" /\ caller'.pc = "take error"
      BY <2>2, <2>3 DEF CollectEnds, CallerState
    <3>2. o = 2 /\ o1 = 1
      BY <1>1, <1>2, <3>1 DEF CallerLeft
    <3> QED
      BY <1>4, <1>6, <1>7, <2>1, <3>2
  <2>4. CASE Return
    <3>1. caller.pc = "take error" /\ caller'.pc = "returned"
      BY <2>2, <2>4 DEF Return, CallerState
    <3>2. o = 1 /\ o1 = 0
      BY <1>1, <1>2, <3>1 DEF CallerLeft
    <3> QED
      BY <1>4, <1>6, <1>7, <2>1, <3>2
  <2> QED
    BY <1>16, <2>3, <2>4
<1> QED
  BY <1>9, <1>10, <1>11, <1>12, <1>13, <1>14, <1>15, <1>16 DEF Next, WalkerStep, CallerStep

\* Every step of any of the goroutines leaves less to do, so that no walk of a
\* finite tree goes on for ever.
THEOREM EveryStepCounts == Spec => [](StepsLeft \in Nat) /\ [][StepsLeft' < StepsLeft]_vars
<1>1. Inv => StepsLeft \in Nat
  BY StepsLeftType
<1>2. Inv /\ Inv' /\ [Next]_vars => [StepsLeft' < StepsLeft]_vars
  BY StepCounts DEF Terminated
<1> QED
  BY <1>1, <1>2, Invariance, PTL DEF Spec
=============================================================================
