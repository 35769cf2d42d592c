--------------------------- MODULE TlsScanProofs ----------------------------
(***************************************************************************)
(* Proofs about the cipher scan, for every set of versions and suites,     *)
(* every service and every weight of the semaphore.                        *)
(*                                                                         *)
(* Two counters are kept in step with sets of tasks: what is left of the   *)
(* semaphore with the tasks holding it, and the WaitGroup with the tasks   *)
(* that have not ended.  A task that is about to send has not ended, so    *)
(* the WaitGroup is not zero and the closer still waits.                   *)
(*                                                                         *)
(* At the end: Scan never gets stuck, and every step leaves less to do.    *)
(***************************************************************************)
EXTENDS TlsScan, FiniteSetTheorems, SequenceTheorems, TLAPS

Inv == TypeOK /\ SemaphoreCounts /\ WaitGroupCounts /\ CloseIsLast

Live == {"handshake", "send", "release"}

LEMMA JobsFinite ==
    /\ IsFiniteSet(Job)
    /\ \A S : S \subseteq Job => IsFiniteSet(S) /\ Cardinality(S) \in Nat
BY ScanAssumption, FS_Product, FS_Subset, FS_CardinalityType DEF Job

\* Adding or removing one job changes the size of a set of jobs by one.
LEMMA OneJob ==
    ASSUME NEW j \in Job, NEW S \in SUBSET Job
    PROVE  /\ j \notin S => Cardinality(S \cup {j}) = Cardinality(S) + 1
           /\ j \in S => /\ Cardinality(S \ {j}) = Cardinality(S) - 1
                         /\ Cardinality(S) > 0
<1>1. IsFiniteSet(S) /\ Cardinality(S) \in Nat
  BY JobsFinite
<1>2. j \in S => Cardinality(S) # 0
  BY <1>1, FS_EmptySet
<1>3. j \notin S => Cardinality(S \cup {j}) = Cardinality(S) + 1
  BY <1>1, FS_AddElement
<1>4. j \in S => Cardinality(S \ {j}) = Cardinality(S) - 1
  BY <1>1, FS_RemoveElement
<1> QED
  BY <1>1, <1>2, <1>3, <1>4

\* A task that has been started keeps the closer waiting, and one that has
\* the semaphore keeps it below its weight.
LEMMA LiveTask ==
    ASSUME Inv, NEW j \in Job
    PROVE  /\ task[j].pc \notin {"idle", "end"} =>
                 /\ j \in Unfinished /\ wg > 0 /\ closer = "wait" /\ ~resultClosed
           /\ task[j].pc \in Live => j \in Holding /\ free < MaxInFlight
<1>1. Holding \in SUBSET Job /\ Unfinished \in SUBSET Job
  BY DEF Holding, Unfinished, Job, Inv, TypeOK
<1>2. ASSUME task[j].pc \notin {"idle", "end"}
      PROVE  j \in Unfinished /\ wg > 0 /\ closer = "wait" /\ ~resultClosed
  <2>1. j \in supported \X Suite /\ closer # "off"
    BY <1>2 DEF Inv, CloseIsLast
  <2>2. j \in Unfinished
    BY <1>2, <2>1 DEF Unfinished
  <2>3. wg = Cardinality(Unfinished) /\ Cardinality(Unfinished) > 0
    BY <1>1, <2>1, <2>2, OneJob DEF Inv, WaitGroupCounts
  <2>4. closer \notin {"close", "end"}
    BY <2>3 DEF Inv, CloseIsLast
  <2>5. closer \in {"off", "wait", "close", "end"}
    BY DEF Inv, TypeOK
  <2>6. closer = "wait"
    BY <2>1, <2>4, <2>5
  <2> QED
    BY <2>2, <2>3, <2>6 DEF Inv, CloseIsLast
<1>3. ASSUME task[j].pc \in Live PROVE j \in Holding /\ free < MaxInFlight
  <2>1. j \in Holding
    BY <1>3 DEF Holding, Live
  <2>2. Cardinality(Holding) > 0 /\ Cardinality(Holding) \in Nat
    BY <1>1, <2>1, OneJob, JobsFinite
  <2>3. free \in Nat /\ free + Cardinality(Holding) = MaxInFlight
    BY DEF Inv, TypeOK, SemaphoreCounts
  <2> QED
    BY <2>1, <2>2, <2>3
<1> QED
  BY <1>2, <1>3

LEMMA InitInv == Init => Inv
<1> SUFFICES ASSUME Init PROVE Inv
  OBVIOUS
<1> USE DEF Init
<1>1. TypeOK
  <2>1. task \in [Job -> TaskState]
    BY DEF TaskState
  <2>2. resultChan \in Seq(Job) /\ Len(resultChan) <= MaxInFlight
    BY ScanAssumption, EmptySeq
  <2>3. results \in [Version -> Seq(Suite)]
    BY EmptySeq
  <2> QED
    BY <2>1, <2>2, <2>3, ScanAssumption DEF TypeOK
<1>2. SemaphoreCounts
  <2>1. Holding = {}
    BY DEF Holding
  <2> QED
    BY <2>1, ScanAssumption, FS_EmptySet DEF SemaphoreCounts
<1>3. WaitGroupCounts /\ CloseIsLast
  BY DEF WaitGroupCounts, CloseIsLast
<1> QED
  BY <1>1, <1>2, <1>3 DEF Inv

\* What a step of task j does to the two sets of tasks: it only concerns j.
LEMMA TaskChange ==
    ASSUME Inv, NEW j \in Job, NEW t \in TaskState, task' = [task EXCEPT ![j] = t],
           supported' = supported
    PROVE  /\ task' \in [Job -> TaskState] /\ task'[j] = t
           /\ \A i \in Job \ {j} : task'[i] = task[i]
           /\ Holding' = IF t.pc \in Live THEN Holding \cup {j} ELSE Holding \ {j}
           /\ Unfinished' = IF t.pc # "end" /\ j \in supported \X Suite
                            THEN Unfinished \cup {j} ELSE Unfinished \ {j}
<1>1. task \in [Job -> TaskState] /\ supported \subseteq Version
  BY DEF Inv, TypeOK
<1>2. /\ task' \in [Job -> TaskState] /\ task'[j] = t
      /\ \A i \in Job \ {j} : task'[i] = task[i]
  BY <1>1
<1>3. Holding' = IF t.pc \in Live THEN Holding \cup {j} ELSE Holding \ {j}
  BY <1>2 DEF Holding, Live
<1>4. Unfinished' = IF t.pc # "end" /\ j \in supported \X Suite
                    THEN Unfinished \cup {j} ELSE Unfinished \ {j}
  BY <1>1, <1>2 DEF Unfinished, Job
<1> QED
  BY <1>2, <1>3, <1>4

\* Every step keeps the invariant.
LEMMA NextInv == Inv /\ [Next]_vars => Inv'
<1> SUFFICES ASSUME Inv, [Next]_vars PROVE Inv'
  OBVIOUS
<1>a. /\ probed \subseteq Version /\ supported \subseteq probed
      /\ task \in [Job -> TaskState] /\ free \in Nat /\ wg \in Nat
      /\ resultChan \in Seq(Job) /\ Len(resultChan) <= MaxInFlight
      /\ resultClosed \in BOOLEAN /\ closer \in {"off", "wait", "close", "end"}
      /\ caller \in {"probe", "collect", "returned"}
      /\ results \in [Version -> Seq(Suite)]
  BY DEF Inv, TypeOK
<1>b. /\ free + Cardinality(Holding) = MaxInFlight /\ Cardinality(Holding) \in Nat
      /\ closer = "off" => wg = 0
      /\ closer # "off" => wg = Cardinality(Unfinished)
      /\ Cardinality(Unfinished) \in Nat /\ MaxInFlight \in Nat \ {0}
      /\ Holding \in SUBSET Job /\ Unfinished \in SUBSET Job
  <2>1. Holding \in SUBSET Job /\ Unfinished \in SUBSET Job
    BY <1>a DEF Holding, Unfinished, Job
  <2> QED
    BY <2>1, JobsFinite, ScanAssumption DEF Inv, SemaphoreCounts, WaitGroupCounts
<1>c. CloseIsLast
  BY DEF Inv
<1>1. ASSUME NEW v \in Version, Probe(v) PROVE Inv'
  <2>1. /\ closer = "off" /\ closer' = "off"
        /\ UNCHANGED <<task, free, wg, resultChan, resultClosed, caller, results>>
        /\ probed' = probed \cup {v} /\ supported' \subseteq supported \cup {v}
    BY <1>1, <1>c DEF Probe, CloseIsLast
  <2>2. TypeOK'
    BY <1>a, <2>1 DEF TypeOK
  <2>3. SemaphoreCounts' /\ WaitGroupCounts'
    BY <1>b, <2>1 DEF SemaphoreCounts, WaitGroupCounts, Holding
  <2>4. CloseIsLast'
    BY <1>c, <2>1 DEF CloseIsLast
  <2> QED
    BY <2>2, <2>3, <2>4 DEF Inv
<1>2. CASE Start
  <2>1. /\ closer = "off" /\ closer' = "wait" /\ caller' = "collect"
        /\ wg' = Cardinality(supported) * Cardinality(Suite)
        /\ UNCHANGED <<probed, supported, task, free, resultChan, resultClosed, results>>
    BY <1>2, <1>c DEF Start, CloseIsLast
  <2>2. Unfinished = supported \X Suite
    BY <1>a, <1>c, <2>1 DEF Unfinished, CloseIsLast, Job
  <2>3. wg' = Cardinality(Unfinished)
    <3>1. IsFiniteSet(supported) /\ IsFiniteSet(Suite)
      BY <1>a, ScanAssumption, FS_Subset
    <3> QED
      BY <2>1, <2>2, <3>1, FS_Product
  <2>4. Unfinished' = Unfinished /\ Holding' = Holding
    BY <2>1 DEF Unfinished, Holding
  <2>5. TypeOK'
    BY <1>a, <1>b, <2>1, <2>3 DEF TypeOK
  <2>6. SemaphoreCounts' /\ WaitGroupCounts'
    BY <1>b, <2>1, <2>3, <2>4 DEF SemaphoreCounts, WaitGroupCounts
  <2>7. CloseIsLast'
    BY <1>c, <2>1 DEF CloseIsLast
  <2> QED
    BY <2>5, <2>6, <2>7 DEF Inv
<1>3. CASE ReturnEarly \/ Collect \/ Return
  <2>1. /\ UNCHANGED <<probed, supported, task, free, wg, resultClosed, closer>>
        /\ caller' \in {caller, "returned"}
    BY <1>3 DEF ReturnEarly, Collect, Return
  <2>2. /\ resultChan' \in Seq(Job) /\ Len(resultChan') <= MaxInFlight
        /\ results' \in [Version -> Seq(Suite)]
    <3>1. CASE Collect
      <4>1. /\ Head(resultChan) \in Job /\ Tail(resultChan) \in Seq(Job)
            /\ Len(Tail(resultChan)) <= MaxInFlight
        BY <1>a, <1>b, <3>1, HeadTailProperties, LenProperties DEF Collect
      <4>2. Head(resultChan)[1] \in Version /\ Head(resultChan)[2] \in Suite
        BY <4>1 DEF Job
      <4>3. Append(results[Head(resultChan)[1]], Head(resultChan)[2]) \in Seq(Suite)
        BY <1>a, <4>2, AppendProperties
      <4> QED
        BY <1>a, <3>1, <4>1, <4>3 DEF Collect
    <3>2. CASE ReturnEarly \/ Return
      BY <1>a, <3>2 DEF ReturnEarly, Return
    <3> QED
      BY <1>3, <3>1, <3>2
  <2>3. TypeOK'
    BY <1>a, <2>1, <2>2 DEF TypeOK
  <2>4. SemaphoreCounts' /\ WaitGroupCounts'
    BY <1>b, <2>1 DEF SemaphoreCounts, WaitGroupCounts, Holding, Unfinished
  <2>5. CloseIsLast'
    BY <1>c, <2>1 DEF CloseIsLast
  <2> QED
    BY <2>3, <2>4, <2>5 DEF Inv
<1>4. ASSUME NEW j \in Job, Spawn(j) PROVE Inv'
  <2> DEFINE t == [task[j] EXCEPT !.pc = "handshake"]
  <2>1. /\ t \in TaskState /\ t.pc = "handshake" /\ task[j].pc = "idle"
        /\ task' = [task EXCEPT ![j] = t]
        /\ free > 0 /\ free' = free - 1 /\ j \in supported \X Suite /\ closer # "off"
        /\ UNCHANGED <<probed, supported, wg, resultChan, resultClosed, closer, caller, results>>
    BY <1>a, <1>4 DEF Spawn, TaskState
  <2> HIDE DEF t
  <2>2. /\ task' \in [Job -> TaskState] /\ \A i \in Job \ {j} : task'[i] = task[i]
        /\ Holding' = Holding \cup {j} /\ Unfinished' = Unfinished \cup {j}
    BY <2>1, TaskChange DEF Live
  <2>3. j \notin Holding /\ j \in Unfinished
    BY <2>1 DEF Holding, Unfinished
  <2>4. Unfinished' = Unfinished /\ Cardinality(Holding') = Cardinality(Holding) + 1
    BY <1>b, <2>2, <2>3, OneJob
  <2>5. TypeOK'
    BY <1>a, <2>1, <2>2 DEF TypeOK
  <2>6. SemaphoreCounts' /\ WaitGroupCounts'
    BY <1>a, <1>b, <2>1, <2>4 DEF SemaphoreCounts, WaitGroupCounts
  <2>7. CloseIsLast'
    BY <1>c, <2>1, <2>2 DEF CloseIsLast
  <2> QED
    BY <2>5, <2>6, <2>7 DEF Inv
<1>5. ASSUME NEW j \in Job, Found(j) \/ NotFound(j) \/ SendResult(j) PROVE Inv'
  <2>1. PICK t \in TaskState : t.pc \in Live /\ task' = [task EXCEPT ![j] = t]
    <3>1. CASE Found(j)
      BY <3>1 DEF Found, TaskState, Live
    <3>2. CASE NotFound(j) \/ SendResult(j)
      <4>1. [task[j] EXCEPT !.pc = "release"] \in TaskState
        BY <1>a DEF TaskState
      <4>2. [task[j] EXCEPT !.pc = "release"].pc = "release"
        BY <1>a DEF TaskState
      <4>3. task' = [task EXCEPT ![j] = [task[j] EXCEPT !.pc = "release"]]
        BY <3>2 DEF NotFound, SendResult
      <4> QED
        BY <4>1, <4>2, <4>3 DEF Live
    <3> QED
      BY <1>5, <3>1, <3>2
  <2>2. /\ task[j].pc \in Live
        /\ UNCHANGED <<probed, supported, free, wg, resultClosed, closer, caller, results>>
    BY <1>5 DEF Found, NotFound, SendResult, Live
  <2>3. resultChan' \in Seq(Job) /\ Len(resultChan') <= MaxInFlight
    <3>1. CASE SendResult(j)
      <4>1. resultChan' = Append(resultChan, j) /\ Len(resultChan) < MaxInFlight
        BY <3>1 DEF SendResult
      <4>2. /\ Append(resultChan, j) \in Seq(Job)
            /\ Len(Append(resultChan, j)) = Len(resultChan) + 1
            /\ Len(resultChan) \in Nat
        BY <1>a, AppendProperties, LenProperties
      <4> QED
        BY <1>b, <4>1, <4>2
    <3>2. CASE Found(j) \/ NotFound(j)
      BY <1>a, <3>2 DEF Found, NotFound
    <3> QED
      BY <1>5, <3>1, <3>2
  <2>4. j \in Holding /\ j \in Unfinished /\ j \in supported \X Suite
    BY <2>2, LiveTask DEF Live, Unfinished
  <2>5. /\ task' \in [Job -> TaskState] /\ \A i \in Job \ {j} : task'[i] = task[i]
        /\ Holding' = Holding /\ Unfinished' = Unfinished
    <3>1. t.pc # "end" /\ supported' = supported
      BY <2>1, <2>2 DEF Live
    <3>2. /\ task' \in [Job -> TaskState] /\ \A i \in Job \ {j} : task'[i] = task[i]
          /\ Holding' = Holding \cup {j} /\ Unfinished' = Unfinished \cup {j}
      BY <2>1, <2>4, <3>1, TaskChange
    <3> QED
      BY <2>4, <3>2
  <2>6. TypeOK'
    BY <1>a, <2>2, <2>3, <2>5 DEF TypeOK
  <2>7. SemaphoreCounts' /\ WaitGroupCounts'
    BY <1>b, <2>2, <2>5 DEF SemaphoreCounts, WaitGroupCounts
  <2>8. closer = "wait"
    BY <2>2, LiveTask DEF Live
  <2>9. CloseIsLast'
    BY <1>c, <2>2, <2>4, <2>5, <2>8 DEF CloseIsLast
  <2> QED
    BY <2>6, <2>7, <2>9 DEF Inv
<1>6. ASSUME NEW j \in Job, ReleaseSemaphore(j) PROVE Inv'
  <2> DEFINE t == [task[j] EXCEPT !.pc = "done"]
  <2>1. /\ t \in TaskState /\ t.pc = "done" /\ task[j].pc = "release"
        /\ task' = [task EXCEPT ![j] = t] /\ free' = free + 1
        /\ UNCHANGED <<probed, supported, wg, resultChan, resultClosed, closer, caller, results>>
    BY <1>a, <1>6 DEF ReleaseSemaphore, TaskState
  <2> HIDE DEF t
  <2>2. j \in Holding /\ j \in Unfinished /\ j \in supported \X Suite /\ closer = "wait"
    BY <2>1, LiveTask DEF Live, Unfinished
  <2>3. /\ task' \in [Job -> TaskState] /\ \A i \in Job \ {j} : task'[i] = task[i]
        /\ Holding' = Holding \ {j} /\ Unfinished' = Unfinished
    <3>1. t.pc \notin Live /\ t.pc # "end"
      BY <2>1 DEF Live
    <3>2. /\ task' \in [Job -> TaskState] /\ \A i \in Job \ {j} : task'[i] = task[i]
          /\ Holding' = Holding \ {j} /\ Unfinished' = Unfinished \cup {j}
      BY <2>1, <2>2, <3>1, TaskChange
    <3> QED
      BY <2>2, <3>2
  <2>4. Cardinality(Holding') = Cardinality(Holding) - 1
    BY <1>b, <2>2, <2>3, OneJob
  <2>5. TypeOK'
    BY <1>a, <2>1, <2>3 DEF TypeOK
  <2>6. SemaphoreCounts' /\ WaitGroupCounts'
    BY <1>a, <1>b, <2>1, <2>3, <2>4 DEF SemaphoreCounts, WaitGroupCounts
  <2>7. CloseIsLast'
    BY <1>c, <2>1, <2>2, <2>3 DEF CloseIsLast
  <2> QED
    BY <2>5, <2>6, <2>7 DEF Inv
<1>7. ASSUME NEW j \in Job, ReleaseWaitGroup(j) PROVE Inv'
  <2> DEFINE t == [task[j] EXCEPT !.pc = "end"]
  <2>1. /\ t \in TaskState /\ t.pc = "end" /\ task[j].pc = "done"
        /\ task' = [task EXCEPT ![j] = t] /\ wg' = wg - 1
        /\ UNCHANGED <<probed, supported, free, resultChan, resultClosed, closer, caller, results>>
    BY <1>a, <1>7 DEF ReleaseWaitGroup, TaskState
  <2> HIDE DEF t
  <2>2. /\ j \notin Holding /\ j \in Unfinished /\ j \in supported \X Suite
        /\ wg > 0 /\ closer = "wait"
    BY <2>1, LiveTask DEF Holding, Unfinished
  <2>3. /\ task' \in [Job -> TaskState] /\ \A i \in Job \ {j} : task'[i] = task[i]
        /\ Holding' = Holding /\ Unfinished' = Unfinished \ {j}
    <3>1. t.pc \notin Live
      BY <2>1 DEF Live
    <3>2. /\ task' \in [Job -> TaskState] /\ \A i \in Job \ {j} : task'[i] = task[i]
          /\ Holding' = Holding \ {j} /\ Unfinished' = Unfinished \ {j}
      BY <2>1, <2>2, <3>1, TaskChange
    <3> QED
      BY <2>2, <3>2
  <2>4. Cardinality(Unfinished') = Cardinality(Unfinished) - 1
    BY <1>b, <2>2, <2>3, OneJob
  <2>5. TypeOK'
    BY <1>a, <2>1, <2>2, <2>3 DEF TypeOK
  <2>6. SemaphoreCounts' /\ WaitGroupCounts'
    BY <1>a, <1>b, <2>1, <2>2, <2>3, <2>4 DEF SemaphoreCounts, WaitGroupCounts
  <2>7. CloseIsLast'
    BY <1>c, <2>1, <2>2, <2>3 DEF CloseIsLast
  <2> QED
    BY <2>5, <2>6, <2>7 DEF Inv
<1>8. CASE CloserStep
  <2>1. /\ UNCHANGED <<probed, supported, task, free, wg, resultChan, caller, results>>
        /\ closer # "off" /\ caller # "probe" /\ wg = 0
        /\ \/ closer' = "close" /\ resultClosed' = resultClosed /\ closer = "wait"
           \/ closer' = "end" /\ resultClosed' = TRUE
    BY <1>8, <1>c DEF CloserStep, CloserWaits, CloseResults, CloseIsLast
  <2>2. TypeOK'
    BY <1>a, <2>1 DEF TypeOK
  <2>3. SemaphoreCounts' /\ WaitGroupCounts'
    BY <1>b, <2>1 DEF SemaphoreCounts, WaitGroupCounts, Holding, Unfinished
  <2>4. CloseIsLast'
    BY <1>c, <2>1 DEF CloseIsLast
  <2> QED
    BY <2>2, <2>3, <2>4 DEF Inv
<1>9. CASE UNCHANGED vars
  <2>1. UNCHANGED <<probed, supported, task, free, wg, resultChan, resultClosed, closer,
                    caller, results>>
    BY <1>9 DEF vars
  <2>2. TypeOK'
    BY <1>a, <2>1 DEF TypeOK
  <2>3. SemaphoreCounts' /\ WaitGroupCounts' /\ CloseIsLast'
    BY <1>b, <1>c, <2>1
    DEF SemaphoreCounts, WaitGroupCounts, CloseIsLast, Holding, Unfinished
  <2> QED
    BY <2>2, <2>3 DEF Inv
<1> QED
  BY <1>1, <1>2, <1>3, <1>4, <1>5, <1>6, <1>7, <1>8, <1>9
  DEF Next, CallerStep, TaskStep, Terminated

\* The inductive invariant holds of every reachable state.
THEOREM Invariance == Spec => []Inv
BY InitInv, NextInv, PTL DEF Spec

\* The variables keep their types and resultChan its capacity.
THEOREM TypeCorrect == Spec => []TypeOK
BY Invariance, PTL DEF Inv

\* For every number of versions and suites, the semaphore, the WaitGroup and the
\* closing of the channel agree with the tasks.
THEOREM TasksInStep == Spec => []TasksAccounted
BY Invariance, PTL DEF Inv, TasksAccounted

\* For every number of versions and suites, no task sends on the closed result
\* channel or releases more than it acquired: all tasks are counted before the
\* first is started, so the closer cannot see zero too early.
THEOREM NeverPanics == Spec => []NoPanic
<1>1. Inv => NoPanic
  <2> SUFFICES ASSUME Inv PROVE NoPanic
    OBVIOUS
  <2>1. ASSUME NEW j \in Job
        PROVE  /\ task[j].pc = "send" => ~resultClosed
               /\ task[j].pc = "release" => free < MaxInFlight
               /\ task[j].pc = "done" => wg > 0
    BY LiveTask DEF Live
  <2>2. closer = "close" => ~resultClosed
    BY DEF Inv, CloseIsLast
  <2> QED
    BY <2>1, <2>2 DEF NoPanic
<1> QED
  BY Invariance, <1>1, PTL

\* Never more than MaxInFlight tasks hold the semaphore, so at most so many
\* connections to the scanned service are open at a time.
THEOREM ConnectionsBounded == Spec => [](Cardinality(Holding) <= MaxInFlight)
<1>1. Inv => Cardinality(Holding) <= MaxInFlight
  <2> SUFFICES ASSUME Inv PROVE Cardinality(Holding) <= MaxInFlight
    OBVIOUS
  <2>1. free \in Nat /\ free + Cardinality(Holding) = MaxInFlight
    BY DEF Inv, TypeOK, SemaphoreCounts
  <2>2. Holding \subseteq Job
    BY DEF Holding
  <2>3. Cardinality(Holding) \in Nat /\ MaxInFlight \in Nat
    BY <2>2, JobsFinite, ScanAssumption
  <2> QED
    BY <2>1, <2>3
<1> QED
  BY Invariance, <1>1, PTL

-----------------------------------------------------------------------------
(* The cipher scan returns exactly what its tasks have found, for every    *)
(* set of versions and suites and every weight of the semaphore.           *)
(*                                                                         *)
(* A result is in one place at a time: with its task until it is sent,     *)
(* then in resultChan, then among the results of its version.  When Scan   *)
(* returns, the channel is empty and no task is left that could send.      *)

NoTwice(s) == \A i, k \in DOMAIN s : s[i] = s[k] => i = k

Sent(j) == task[j].found /\ task[j].pc # "send"

\* A task has found its suite only once its handshake is over, and it has
\* something to send only if it has.
FoundLate ==
    \A j \in Job : /\ task[j].found => task[j].pc \in {"send", "release", "done", "end"}
                   /\ task[j].pc = "send" => task[j].found

\* Each result that was sent is in the channel or collected, and not both; the
\* channel holds it once, and the results of a version have it once.
InOnePlace ==
    /\ \A v \in Version, s \in Suite :
          /\ Sent(<<v, s>>) <=> s \in Range(results[v]) \/ <<v, s>> \in Range(resultChan)
          /\ ~(s \in Range(results[v]) /\ <<v, s>> \in Range(resultChan))
    /\ NoTwice(resultChan)
    /\ \A v \in Version : /\ IsFiniteSet(Range(results[v]))
                          /\ Len(results[v]) = Cardinality(Range(results[v]))

\* Scan returns with an empty channel, to which nothing is added any more.
ReturnedLast ==
    caller = "returned" => resultChan = <<>> /\ closer \in {"off", "end"}

Filed == FoundLate /\ InOnePlace /\ ReturnedLast

-----------------------------------------------------------------------------
(* Sequences.                                                              *)

LEMMA RangeOfAppend ==
    ASSUME NEW S, NEW s \in Seq(S), NEW x \in S
    PROVE  /\ Append(s, x) \in Seq(S) /\ Len(Append(s, x)) = Len(s) + 1
           /\ Range(Append(s, x)) = Range(s) \cup {x}
           /\ NoTwice(s) /\ x \notin Range(s) => NoTwice(Append(s, x))
<1>1. /\ Append(s, x) \in Seq(S) /\ Len(Append(s, x)) = Len(s) + 1 /\ Len(s) \in Nat
      /\ DOMAIN s = 1..Len(s) /\ DOMAIN Append(s, x) = 1..(Len(s) + 1)
      /\ \A i \in 1..Len(s) : Append(s, x)[i] = s[i]
      /\ Append(s, x)[Len(s) + 1] = x
  BY AppendProperties, LenProperties
<1>2. Range(Append(s, x)) = Range(s) \cup {x}
  BY <1>1 DEF Range
<1>3. ASSUME NoTwice(s), x \notin Range(s) PROVE NoTwice(Append(s, x))
  BY <1>1, <1>3 DEF NoTwice, Range
<1> QED
  BY <1>1, <1>2, <1>3

LEMMA RangeOfTail ==
    ASSUME NEW S, NEW s \in Seq(S), s # <<>>
    PROVE  /\ Head(s) \in Range(s) /\ Head(s) \in S /\ Tail(s) \in Seq(S)
           /\ NoTwice(s) => NoTwice(Tail(s)) /\ Range(Tail(s)) = Range(s) \ {Head(s)}
<1>1. /\ Head(s) = s[1] /\ Head(s) \in S /\ Tail(s) \in Seq(S)
      /\ Len(s) \in Nat \ {0} /\ DOMAIN s = 1..Len(s)
      /\ DOMAIN Tail(s) = 1..(Len(s) - 1)
      /\ \A i \in 1..(Len(s) - 1) : Tail(s)[i] = s[i + 1]
  BY HeadTailProperties, LenProperties, EmptySeq
<1>2. Head(s) \in Range(s)
  BY <1>1 DEF Range
<1>3. ASSUME NoTwice(s)
      PROVE  NoTwice(Tail(s)) /\ Range(Tail(s)) = Range(s) \ {Head(s)}
  <2>1. NoTwice(Tail(s))
    BY <1>1, <1>3 DEF NoTwice
  <2>2. Range(Tail(s)) \subseteq Range(s) \ {Head(s)}
    BY <1>1, <1>3 DEF NoTwice, Range
  <2>3. ASSUME NEW i \in DOMAIN s, s[i] # Head(s) PROVE s[i] \in Range(Tail(s))
    <3>1. i # 1 /\ i - 1 \in DOMAIN Tail(s) /\ Tail(s)[i - 1] = s[i]
      BY <1>1, <2>3
    <3> QED
      BY <3>1 DEF Range
  <2> QED
    BY <2>1, <2>2, <2>3 DEF Range
<1> QED
  BY <1>1, <1>2, <1>3

-----------------------------------------------------------------------------

LEMMA InitFiled == Init => Filed
<1> SUFFICES ASSUME Init PROVE Filed
  OBVIOUS
<1> USE DEF Init
<1>1. Range(<<>>) = {} /\ Len(<<>>) = 0
  BY DEF Range
<1>2. FoundLate
  BY DEF FoundLate
<1>3. InOnePlace
  <2>1. \A v \in Version, s \in Suite : ~Sent(<<v, s>>)
    BY DEF Sent, Job
  <2>2. \A v \in Version : Range(results[v]) = {} /\ Len(results[v]) = 0
    BY <1>1
  <2>3. Range(resultChan) = {} /\ NoTwice(resultChan)
    BY <1>1 DEF NoTwice
  <2>4. IsFiniteSet({}) /\ Cardinality({}) = 0
    BY FS_EmptySet
  <2> QED
    BY <2>1, <2>2, <2>3, <2>4 DEF InOnePlace
<1>4. ReturnedLast
  BY DEF ReturnedLast
<1> QED
  BY <1>2, <1>3, <1>4 DEF Filed

\* A step of task j that neither sends nor finds anything leaves all results
\* where they are.
LEMMA QuietTask ==
    ASSUME Inv, Filed, NEW j \in Job, NEW t \in TaskState,
           task' = [task EXCEPT ![j] = t],
           t.found = task[j].found, task[j].pc # "send", t.pc # "send",
           t.found => t.pc \in {"release", "done", "end"},
           UNCHANGED <<resultChan, results>>
    PROVE  FoundLate' /\ InOnePlace'
<1>1. /\ task \in [Job -> TaskState] /\ task'[j] = t
      /\ \A i \in Job \ {j} : task'[i] = task[i]
  BY DEF Inv, TypeOK
<1>2. FoundLate'
  BY <1>1 DEF Filed, FoundLate
<1>3. \A i \in Job : Sent(i)' <=> Sent(i)
  BY <1>1 DEF Sent
<1>4. \A v \in Version, s \in Suite : <<v, s>> \in Job
  BY DEF Job
<1>5. InOnePlace'
  BY <1>3, <1>4 DEF Filed, InOnePlace
<1> QED
  BY <1>2, <1>5

LEMMA NextFiled == Inv /\ Filed /\ [Next]_vars => Filed'
<1> SUFFICES ASSUME Inv, Filed, [Next]_vars PROVE Filed'
  OBVIOUS
<1>a. /\ task \in [Job -> TaskState] /\ resultChan \in Seq(Job)
      /\ results \in [Version -> Seq(Suite)]
      /\ closer \in {"off", "wait", "close", "end"}
      /\ caller \in {"probe", "collect", "returned"} /\ CloseIsLast
  BY DEF Inv, TypeOK
<1>b. FoundLate /\ InOnePlace /\ ReturnedLast
  BY DEF Filed
<1>1. CASE (\E v \in Version : Probe(v)) \/ Start \/ ReturnEarly \/ Return \/ CloserStep
           \/ UNCHANGED vars
  <2>1. UNCHANGED <<task, resultChan, results>>
    BY <1>1 DEF Probe, Start, ReturnEarly, Return, CloserStep, CloserWaits, CloseResults, vars
  <2>2. FoundLate' /\ InOnePlace'
    BY <1>b, <2>1 DEF FoundLate, InOnePlace, Sent
  <2>3. ReturnedLast'
    <3>1. CASE ReturnEarly
      <4>1. closer' = "off" /\ caller = "probe" /\ UNCHANGED <<task, resultChan, results>>
        BY <1>a, <3>1, <2>1 DEF ReturnEarly, CloseIsLast
      <4>2. ASSUME NEW j \in DOMAIN resultChan PROVE FALSE
        <5>1. resultChan[j] \in Job /\ resultChan[j] \in Range(resultChan)
          BY <1>a, <4>2, ElementOfSeq, LenProperties DEF Range
        <5>2. PICK v \in Version, s \in Suite : resultChan[j] = <<v, s>>
          BY <5>1 DEF Job
        <5>3. Sent(<<v, s>>)
          BY <1>b, <5>1, <5>2 DEF InOnePlace
        <5>4. task[<<v, s>>].pc = "idle"
          BY <1>a, <3>1, <5>1, <5>2 DEF ReturnEarly, CloseIsLast
        <5> QED
          BY <1>b, <5>1, <5>2, <5>3, <5>4 DEF FoundLate, Sent
      <4>3. resultChan = <<>>
        <5>1. DOMAIN resultChan = 1..Len(resultChan) /\ Len(resultChan) \in Nat
          BY <1>a, LenProperties
        <5>2. Len(resultChan) = 0
          BY <4>2, <5>1
        <5> QED
          BY <1>a, <5>2, EmptySeq
      <4> QED
        BY <4>1, <4>3 DEF ReturnedLast
    <3>2. CASE Return
      BY <1>a, <3>2 DEF Return, ReturnedLast, CloseIsLast
    <3>3. CASE (\E v \in Version : Probe(v)) \/ Start
      BY <3>3 DEF Probe, Start, ReturnedLast
    <3>4. CASE CloserStep
      BY <1>b, <3>4 DEF CloserStep, CloserWaits, CloseResults, ReturnedLast
    <3>5. CASE UNCHANGED vars
      BY <1>b, <3>5 DEF vars, ReturnedLast
    <3> QED
      BY <1>1, <3>1, <3>2, <3>3, <3>4, <3>5
  <2> QED
    BY <2>2, <2>3 DEF Filed
<1>2. CASE Collect
  <2> DEFINE v == Head(resultChan)[1]
             s == Head(resultChan)[2]
  <2>1. /\ Head(resultChan) \in Range(resultChan) /\ Head(resultChan) \in Job
        /\ Tail(resultChan) \in Seq(Job) /\ NoTwice(Tail(resultChan))
        /\ Range(Tail(resultChan)) = Range(resultChan) \ {Head(resultChan)}
    BY <1>a, <1>b, <1>2, RangeOfTail DEF Collect, InOnePlace
  <2>2. v \in Version /\ s \in Suite /\ Head(resultChan) = <<v, s>>
    BY <2>1 DEF Job
  <2>3. /\ results' = [results EXCEPT ![v] = Append(results[v], s)]
        /\ resultChan' = Tail(resultChan) /\ UNCHANGED <<task, closer, caller>>
        /\ caller = "collect"
    BY <1>2 DEF Collect
  <2> HIDE DEF v, s
  <2>4. /\ results'[v] = Append(results[v], s)
        /\ \A w \in Version \ {v} : results'[w] = results[w]
    BY <1>a, <2>2, <2>3
  <2>5. /\ Range(results'[v]) = Range(results[v]) \cup {s}
        /\ Len(results'[v]) = Len(results[v]) + 1
    BY <1>a, <2>2, <2>4, RangeOfAppend
  <2>6. s \notin Range(results[v])
    BY <1>b, <2>1, <2>2 DEF InOnePlace
  <2>7. ASSUME NEW w \in Version
        PROVE  /\ IsFiniteSet(Range(results'[w]))
               /\ Len(results'[w]) = Cardinality(Range(results'[w]))
    <3>1. CASE w = v
      BY <1>b, <2>2, <2>5, <2>6, <3>1, FS_AddElement DEF InOnePlace
    <3>2. CASE w # v
      BY <1>b, <2>4, <3>2 DEF InOnePlace
    <3> QED
      BY <3>1, <3>2
  <2>8. ASSUME NEW w \in Version, NEW u \in Suite
        PROVE  /\ Sent(<<w, u>>)' <=> u \in Range(results'[w]) \/ <<w, u>> \in Range(resultChan')
               /\ ~(u \in Range(results'[w]) /\ <<w, u>> \in Range(resultChan'))
    <3>1. Sent(<<w, u>>)' <=> Sent(<<w, u>>)
      BY <2>3 DEF Sent
    <3>2. <<w, u>> \in Range(resultChan') <=>
             <<w, u>> \in Range(resultChan) /\ ~(w = v /\ u = s)
      BY <2>1, <2>2, <2>3
    <3>3. u \in Range(results'[w]) <=> u \in Range(results[w]) \/ (w = v /\ u = s)
      BY <2>4, <2>5
    <3>4. <<v, s>> \in Range(resultChan)
      BY <2>1, <2>2
    <3> QED
      BY <1>b, <3>1, <3>2, <3>3, <3>4 DEF InOnePlace
  <2>9. InOnePlace'
    BY <2>1, <2>3, <2>7, <2>8 DEF InOnePlace
  <2>10. FoundLate' /\ ReturnedLast'
    BY <1>b, <2>3 DEF FoundLate, ReturnedLast
  <2> QED
    BY <2>9, <2>10 DEF Filed
<1>3. ASSUME NEW j \in Job,
             Spawn(j) \/ NotFound(j) \/ ReleaseSemaphore(j) \/ ReleaseWaitGroup(j)
      PROVE  Filed'
  <2>1. PICK pc \in {"handshake", "release", "done", "end"} :
           /\ task' = [task EXCEPT ![j].pc = pc]
           /\ task[j].pc # "send"
           /\ task[j].pc \in {"idle", "handshake"} \/ pc \in {"done", "end"}
    BY <1>3 DEF Spawn, NotFound, ReleaseSemaphore, ReleaseWaitGroup
  <2>2. UNCHANGED <<resultChan, results, closer, caller>>
    BY <1>3 DEF Spawn, NotFound, ReleaseSemaphore, ReleaseWaitGroup
  <2> DEFINE t == [task[j] EXCEPT !.pc = pc]
  <2>3. t \in TaskState /\ t.pc = pc /\ t.found = task[j].found
    BY <1>a DEF TaskState
  <2>4. task' = [task EXCEPT ![j] = t]
    BY <2>1
  <2>5. t.found => t.pc \in {"release", "done", "end"}
    BY <1>b, <2>1, <2>3 DEF FoundLate
  <2> HIDE DEF t
  <2>6. FoundLate' /\ InOnePlace'
    BY <2>1, <2>2, <2>3, <2>4, <2>5, QuietTask
  <2>7. ReturnedLast'
    BY <1>b, <2>2 DEF ReturnedLast
  <2> QED
    BY <2>6, <2>7 DEF Filed
<1>4. ASSUME NEW j \in Job, Found(j) PROVE Filed'
  <2>1. /\ task' = [task EXCEPT ![j] = [pc |-> "send", found |-> TRUE]]
        /\ task[j].pc = "handshake" /\ UNCHANGED <<resultChan, results, closer, caller>>
    BY <1>4 DEF Found
  <2>2. /\ task'[j] = [pc |-> "send", found |-> TRUE]
        /\ \A i \in Job \ {j} : task'[i] = task[i]
    BY <1>a, <2>1
  <2>3. FoundLate'
    BY <1>b, <2>2 DEF FoundLate
  <2>4. \A i \in Job : Sent(i)' <=> Sent(i)
    BY <1>b, <2>1, <2>2 DEF Sent, FoundLate
  <2>5. \A v \in Version, s \in Suite : <<v, s>> \in Job
    BY DEF Job
  <2>6. InOnePlace'
    BY <1>b, <2>1, <2>4, <2>5 DEF InOnePlace
  <2>7. ReturnedLast'
    BY <1>b, <2>1 DEF ReturnedLast
  <2> QED
    BY <2>3, <2>6, <2>7 DEF Filed
<1>5. ASSUME NEW j \in Job, SendResult(j) PROVE Filed'
  <2>1. /\ task' = [task EXCEPT ![j].pc = "release"] /\ task[j].pc = "send"
        /\ resultChan' = Append(resultChan, j) /\ UNCHANGED <<results, closer, caller>>
    BY <1>5 DEF SendResult
  <2>2. /\ task'[j].pc = "release" /\ task'[j].found = task[j].found
        /\ \A i \in Job \ {j} : task'[i] = task[i]
    BY <1>a, <2>1 DEF TaskState
  <2>3. task[j].found
    BY <1>b, <2>1 DEF FoundLate
  <2>4. PICK v \in Version, s \in Suite : j = <<v, s>>
    BY DEF Job
  <2>5. j \notin Range(resultChan) /\ s \notin Range(results[v])
    BY <1>b, <2>1, <2>4 DEF InOnePlace, Sent
  <2>6. Range(resultChan') = Range(resultChan) \cup {j} /\ NoTwice(resultChan')
    BY <1>a, <1>b, <2>1, <2>5, RangeOfAppend DEF InOnePlace
  <2>7. FoundLate'
    BY <1>b, <2>2 DEF FoundLate
  <2>8. ASSUME NEW w \in Version, NEW u \in Suite
        PROVE  /\ Sent(<<w, u>>)' <=> u \in Range(results[w]) \/ <<w, u>> \in Range(resultChan')
               /\ ~(u \in Range(results[w]) /\ <<w, u>> \in Range(resultChan'))
    <3>1. CASE <<w, u>> = j
      <4>1. w = v /\ u = s
        BY <2>4, <3>1
      <4>2. Sent(<<w, u>>)'
        BY <2>2, <2>3, <3>1 DEF Sent
      <4> QED
        BY <2>5, <2>6, <3>1, <4>1, <4>2
    <3>2. CASE <<w, u>> # j
      <4>1. Sent(<<w, u>>)' <=> Sent(<<w, u>>)
        BY <2>2, <3>2 DEF Sent, Job
      <4> QED
        BY <1>b, <2>6, <3>2, <4>1 DEF InOnePlace
    <3> QED
      BY <3>1, <3>2
  <2>9. InOnePlace'
    BY <1>b, <2>1, <2>6, <2>8 DEF InOnePlace
  <2>10. ReturnedLast'
    <3>1. closer = "wait"
      BY <2>1, LiveTask DEF Live
    <3> QED
      BY <1>b, <2>1, <3>1 DEF ReturnedLast
  <2> QED
    BY <2>7, <2>9, <2>10 DEF Filed
<1> QED
  BY <1>1, <1>2, <1>3, <1>4, <1>5 DEF Next, CallerStep, TaskStep, Terminated

\* For every number of versions and suites, Scan returns the suites that were
\* found under each version, each once, however the tasks, the closing of the
\* channel and the collecting interleave.
THEOREM ResultsAreExact == Spec => []ResultsExact
<1>1. Inv /\ Filed => ResultsExact
  <2> SUFFICES ASSUME Inv, Filed, caller = "returned", NEW v \in Version
               PROVE  /\ Range(results[v]) = {s \in Suite : task[<<v, s>>].found}
                      /\ Len(results[v]) = Cardinality({s \in Suite : task[<<v, s>>].found})
    BY DEF ResultsExact
  <2>1. Range(resultChan) = {} /\ closer # "wait"
    BY DEF Filed, ReturnedLast, Range
  <2>2. ASSUME NEW s \in Suite PROVE task[<<v, s>>].found <=> s \in Range(results[v])
    <3>1. <<v, s>> \in Job
      BY DEF Job
    <3>2. task[<<v, s>>].pc # "send"
      BY <2>1, <3>1, LiveTask
    <3> QED
      BY <2>1, <3>2 DEF Filed, InOnePlace, Sent
  <2>3. Range(results[v]) \subseteq Suite
    <3>1. results[v] \in Seq(Suite)
      BY DEF Inv, TypeOK
    <3> QED
      BY <3>1, ElementOfSeq, LenProperties DEF Range
  <2>4. Range(results[v]) = {s \in Suite : task[<<v, s>>].found}
    BY <2>2, <2>3
  <2> QED
    BY <2>4 DEF Filed, InOnePlace
<1>2. Inv /\ Filed /\ [Next]_vars => (Inv /\ Filed)'
  BY NextInv, NextFiled
<1>3. Init => Inv /\ Filed
  BY InitInv, InitFiled
<1> QED
  BY <1>1, <1>2, <1>3, PTL DEF Spec

-----------------------------------------------------------------------------
(* Scan gets stuck with no number of tasks, whatever the semaphore and the *)
(* channel let through, and does not go on for ever: at every moment all   *)
(* has ended or somebody can take a step, and every step taken leaves less *)
(* to do.  With that, AllEnd needs no more of the scheduler than that the  *)
(* process goes on while it can.                                           *)

\* The guards of the actions, one for each that can be waited for.
CanGo ==
    \/ caller = "probe"
    \/ caller = "collect" /\ (resultChan # <<>> \/ resultClosed)
    \/ closer = "wait" /\ wg = 0
    \/ closer = "close"
    \/ \E j \in Job :
          \/ closer # "off" /\ j \in supported \X Suite /\ task[j].pc = "idle" /\ free > 0
          \/ task[j].pc \in {"handshake", "release", "done"}
          \/ task[j].pc = "send" /\ Len(resultChan) < MaxInFlight

\* The caller collects, and leaves only what has been closed or never opened.
CallerStays ==
    /\ caller = "collect" => closer # "off"
    /\ caller = "returned" => closer \in {"off", "end"}

LEMMA CallerInvariant == Spec => []CallerStays
<1>1. Init => CallerStays
  BY DEF Init, CallerStays
<1>2. Inv /\ CallerStays /\ [Next]_vars => CallerStays'
  <2> SUFFICES ASSUME Inv, CallerStays, [Next]_vars PROVE CallerStays'
    OBVIOUS
  <2>1. (resultClosed => closer = "end") /\ (caller = "probe" => closer = "off")
    BY DEF Inv, CloseIsLast
  <2>2. CASE CallerStep
    BY <2>1, <2>2 DEF CallerStays, CallerStep, Probe, ReturnEarly, Start, Collect, Return
  <2>3. ASSUME NEW j \in Job, Spawn(j) \/ TaskStep(j) PROVE UNCHANGED <<caller, closer>>
    BY <2>3 DEF Spawn, TaskStep, Found, NotFound, SendResult, ReleaseSemaphore, ReleaseWaitGroup
  <2>4. CASE CloserStep
    BY <2>4 DEF CallerStays, CloserStep, CloserWaits, CloseResults
  <2>5. CASE Terminated \/ UNCHANGED vars
    BY <2>5 DEF CallerStays, Terminated, vars
  <2> QED
    BY <2>2, <2>3, <2>4, <2>5 DEF Next, CallerStays
<1> QED
  BY <1>1, <1>2, Invariance, PTL DEF Spec

\* For every number of versions and suites and every weight of the semaphore,
\* the scan is at its end or some goroutine can go on: never does the spawner
\* wait for tasks, the tasks for the caller, the caller for the closer and the
\* closer for the spawner.
THEOREM NeverStuck == Spec => [](AllDone \/ CanGo)
<1>1. Inv /\ CallerStays => AllDone \/ CanGo
  <2> SUFFICES ASSUME Inv, CallerStays, ~CanGo PROVE AllDone
    OBVIOUS
  <2>1. /\ caller \in {"collect", "returned"} /\ closer \in {"off", "wait", "end"}
        /\ \A j \in Job : task[j].pc \in {"idle", "send", "end"}
        /\ supported \subseteq Version
    BY DEF CanGo, Inv, TypeOK, TaskState
  <2>2. CASE closer = "off"
    BY <2>1, <2>2 DEF AllDone, CallerStays, Inv, CloseIsLast
  <2>3. CASE closer # "off"
    <3>1. \A j \in Job : task[j].pc # "send"
      <4> SUFFICES ASSUME NEW j \in Job, task[j].pc = "send" PROVE FALSE
        OBVIOUS
      <4>1. Len(resultChan) # 0
        BY ScanAssumption DEF CanGo, Inv, TypeOK
      <4>2. resultChan # <<>>
        BY <4>1
      <4>3. caller = "returned"
        BY <2>1, <4>2 DEF CanGo
      <4>4. closer = "wait"
        BY LiveTask
      <4> QED
        BY <4>3, <4>4 DEF CallerStays
    <3>2. Holding = {}
      BY <2>1, <3>1 DEF Holding
    <3>3. free > 0
      BY <3>2, ScanAssumption, FS_EmptySet DEF Inv, SemaphoreCounts, TypeOK
    <3>4. \A j \in supported \X Suite : task[j].pc = "end"
      <4>1. \A j \in supported \X Suite : j \in Job
        BY <2>1 DEF Job
      <4> QED
        BY <2>1, <2>3, <3>1, <3>3, <4>1 DEF CanGo
    <3>5. Unfinished = {}
      BY <3>4 DEF Unfinished
    <3>6. wg = 0
      BY <2>3, <3>5, FS_EmptySet DEF Inv, WaitGroupCounts
    <3>7. closer = "end"
      BY <2>1, <2>3, <3>6 DEF CanGo
    <3>8. caller = "returned"
      BY <2>1, <3>7 DEF CanGo, Inv, CloseIsLast
    <3> QED
      BY <2>1, <3>1, <3>7, <3>8 DEF AllDone
  <2> QED
    BY <2>2, <2>3
<1> QED
  BY <1>1, Invariance, CallerInvariant, PTL

\* What is left to do: the versions to probe, the steps of each task, of the
\* caller and of the closer, and the results to collect.
Behind(pcs) == {j \in Job : task[j].pc \in pcs}
TasksLeft ==
    Cardinality(Behind({"idle"})) + Cardinality(Behind({"idle", "handshake"}))
    + Cardinality(Behind({"idle", "handshake", "send"}))
    + Cardinality(Behind({"idle", "handshake", "send", "release"}))
    + Cardinality(Behind({"idle", "handshake", "send", "release", "done"}))
CallerLeft == IF caller = "probe" THEN 2 ELSE IF caller = "collect" THEN 1 ELSE 0
CloserLeft ==
    IF closer = "off" THEN 3 ELSE IF closer = "wait" THEN 2 ELSE IF closer = "close" THEN 1 ELSE 0
StepsLeft ==
    Cardinality(Version \ probed) + 2 * TasksLeft + Len(resultChan) + CallerLeft + CloserLeft

LEMMA BehindType ==
    /\ \A pcs : Cardinality(Behind(pcs)) \in Nat
    /\ TasksLeft \in Nat
<1>1. ASSUME NEW pcs PROVE Cardinality(Behind(pcs)) \in Nat
  <2>1. Behind(pcs) \subseteq Job
    BY DEF Behind
  <2> QED
    BY <2>1, JobsFinite
<1> QED
  BY <1>1 DEF TasksLeft

\* A task goes on: it is behind fewer of the marks.
LEMMA TaskGoesOn ==
    ASSUME Inv, NEW j \in Job, NEW t \in TaskState, task' = [task EXCEPT ![j] = t],
           <<task[j].pc, t.pc>> \in {<<"idle", "handshake">>, <<"handshake", "send">>, <<"handshake", "release">>,
                                     <<"send", "release">>, <<"release", "done">>, <<"done", "end">>}
    PROVE  TasksLeft' < TasksLeft /\ TasksLeft' \in Nat
<1>1. task'[j] = t /\ \A i \in Job \ {j} : task'[i] = task[i]
  BY DEF Inv, TypeOK
<1>2. ASSUME NEW pcs, t.pc \in pcs => task[j].pc \in pcs
      PROVE  /\ Cardinality(Behind(pcs)') <= Cardinality(Behind(pcs))
             /\ Cardinality(Behind(pcs)') \in Nat /\ Cardinality(Behind(pcs)) \in Nat
             /\ t.pc \notin pcs /\ task[j].pc \in pcs =>
                   Cardinality(Behind(pcs)') < Cardinality(Behind(pcs))
  <2>1. Behind(pcs) \in SUBSET Job
    BY DEF Behind
  <2>2. CASE t.pc \in pcs \/ task[j].pc \notin pcs
    <3>1. Behind(pcs)' = Behind(pcs)
      BY <1>1, <1>2, <2>2 DEF Behind
    <3> QED
      BY <2>1, <2>2, <3>1, BehindType
  <2>3. CASE t.pc \notin pcs /\ task[j].pc \in pcs
    <3>1. Behind(pcs)' = Behind(pcs) \ {j} /\ j \in Behind(pcs)
      BY <1>1, <2>3 DEF Behind
    <3>2. Cardinality(Behind(pcs) \ {j}) = Cardinality(Behind(pcs)) - 1 /\ Cardinality(Behind(pcs)) > 0
      BY <2>1, <3>1, OneJob
    <3> QED
      BY <3>1, <3>2, BehindType
  <2> QED
    BY <2>2, <2>3
<1>3. PICK a, b : a = task[j].pc /\ b = t.pc
  OBVIOUS
<1>4. /\ \A pcs \in {{"idle"}, {"idle", "handshake"}, {"idle", "handshake", "send"},
                     {"idle", "handshake", "send", "release"},
                     {"idle", "handshake", "send", "release", "done"}} : b \in pcs => a \in pcs
      /\ \E pcs \in {{"idle"}, {"idle", "handshake"}, {"idle", "handshake", "send"},
                     {"idle", "handshake", "send", "release"},
                     {"idle", "handshake", "send", "release", "done"}} : b \notin pcs /\ a \in pcs
  BY <1>3
<1> QED
  BY <1>2, <1>3, <1>4 DEF TasksLeft

LEMMA StepsLeftType ==
    ASSUME Inv
    PROVE  /\ Cardinality(Version \ probed) \in Nat /\ TasksLeft \in Nat /\ Len(resultChan) \in Nat
           /\ CallerLeft \in 0..2 /\ CloserLeft \in 0..3 /\ StepsLeft \in Nat
<1>1. IsFiniteSet(Version \ probed)
  BY ScanAssumption, FS_Subset
<1>2. Cardinality(Version \ probed) \in Nat
  BY <1>1, FS_CardinalityType
<1>3. Len(resultChan) \in Nat
  BY LenProperties DEF Inv, TypeOK
<1>4. CallerLeft \in 0..2 /\ CloserLeft \in 0..3
  BY DEF CallerLeft, CloserLeft
<1> QED
  BY <1>2, <1>3, <1>4, BehindType DEF StepsLeft

LEMMA StepCounts == ASSUME Inv, Inv', Next, ~Terminated PROVE StepsLeft' < StepsLeft
<1>1. PICK p, q, m, n, o : /\ p = Cardinality(Version \ probed) /\ q = TasksLeft /\ m = Len(resultChan)
                           /\ n = CallerLeft /\ o = CloserLeft
  OBVIOUS
<1>2. PICK p1, q1, m1, n1, o1 :
         /\ p1 = Cardinality(Version \ probed') /\ q1 = TasksLeft' /\ m1 = Len(resultChan')
         /\ n1 = CallerLeft' /\ o1 = CloserLeft'
  OBVIOUS
<1>3. StepsLeft = p + 2 * q + m + n + o /\ StepsLeft' = p1 + 2 * q1 + m1 + n1 + o1
  BY <1>1, <1>2 DEF StepsLeft
<1>4. p \in Nat /\ q \in Nat /\ m \in Nat /\ n \in 0..2 /\ o \in 0..3
  BY <1>1, StepsLeftType
<1>5. UNCHANGED probed => p1 = p
  BY <1>1, <1>2
<1>6. UNCHANGED task => q1 = q
  BY <1>1, <1>2 DEF TasksLeft, Behind
<1>7. UNCHANGED resultChan => m1 = m
  BY <1>1, <1>2
<1>8. (UNCHANGED caller => n1 = n) /\ (UNCHANGED closer => o1 = o)
  BY <1>1, <1>2 DEF CallerLeft, CloserLeft
<1>9. ASSUME NEW v \in Version, Probe(v) PROVE StepsLeft' < StepsLeft
  <2>1. v \notin probed /\ probed' = probed \cup {v} /\ UNCHANGED <<task, resultChan, caller, closer>>
    BY <1>9 DEF Probe
  <2>2. IsFiniteSet(Version \ probed) /\ v \in Version \ probed /\ Version \ probed' = (Version \ probed) \ {v}
    BY <2>1, ScanAssumption, FS_Subset
  <2>3. p1 = p - 1
    BY <1>1, <1>2, <2>2, FS_RemoveElement
  <2> QED
    BY <1>3, <1>4, <1>6, <1>7, <1>8, <2>1, <2>3
<1>10. CASE ReturnEarly \/ Start \/ Return
  <2>1. UNCHANGED <<probed, task, resultChan>>
    BY <1>10 DEF ReturnEarly, Start, Return
  <2>2. n1 < n /\ n1 \in 0..2
    BY <1>1, <1>2, <1>10 DEF ReturnEarly, Start, Return, CallerLeft
  <2>3. closer = "off" \/ UNCHANGED closer
    BY <1>10 DEF ReturnEarly, Start, Return, Inv, CloseIsLast
  <2>4. o1 <= o /\ o1 \in 0..3
    BY <1>1, <1>2, <2>3 DEF CloserLeft
  <2> QED
    BY <1>3, <1>4, <1>5, <1>6, <1>7, <2>1, <2>2, <2>4
<1>11. CASE Collect
  <2>1. resultChan # <<>> /\ resultChan' = Tail(resultChan) /\ UNCHANGED <<probed, task, caller, closer>>
    BY <1>11 DEF Collect
  <2>2. m1 = m - 1
    BY <1>1, <1>2, <2>1, HeadTailProperties DEF Inv, TypeOK
  <2> QED
    BY <1>3, <1>4, <1>5, <1>6, <1>8, <2>1, <2>2
<1>12. CASE CloserStep
  <2>1. UNCHANGED <<probed, task, resultChan, caller>>
    BY <1>12 DEF CloserStep, CloserWaits, CloseResults
  <2>2. o1 < o /\ o1 \in 0..3
    BY <1>1, <1>2, <1>12 DEF CloserStep, CloserWaits, CloseResults, CloserLeft
  <2> QED
    BY <1>3, <1>4, <1>5, <1>6, <1>7, <1>8, <2>1, <2>2
<1>13. ASSUME NEW j \in Job, Spawn(j) \/ TaskStep(j) PROVE StepsLeft' < StepsLeft
  <2>1. UNCHANGED <<probed, caller, closer>>
    BY <1>13 DEF Spawn, TaskStep, Found, NotFound, SendResult, ReleaseSemaphore, ReleaseWaitGroup
  <2>2. task[j] = [pc |-> task[j].pc, found |-> task[j].found] /\ task[j] \in TaskState
    BY DEF Inv, TypeOK, TaskState
  <2>3. PICK t \in TaskState :
           /\ task' = [task EXCEPT ![j] = t]
           /\ <<task[j].pc, t.pc>> \in {<<"idle", "handshake">>, <<"handshake", "send">>, <<"handshake", "release">>,
                                        <<"send", "release">>, <<"release", "done">>, <<"done", "end">>}
    <3>1. ASSUME NEW pc, task' = [task EXCEPT ![j].pc = pc],
                 <<task[j].pc, pc>> \in {<<"idle", "handshake">>, <<"handshake", "release">>,
                                         <<"send", "release">>, <<"release", "done">>, <<"done", "end">>}
          PROVE  \E t \in TaskState :
                    /\ task' = [task EXCEPT ![j] = t] /\ t.pc = pc
      <4>1. PICK t : t = [task[j] EXCEPT !.pc = pc]
        OBVIOUS
      <4>2. t = [pc |-> pc, found |-> task[j].found]
        BY <2>2, <4>1
      <4>3. t \in TaskState /\ t.pc = pc
        BY <2>2, <3>1, <4>2 DEF TaskState
      <4>4. task' = [task EXCEPT ![j] = t]
        BY <3>1, <4>1
      <4> QED
        BY <4>3, <4>4
    <3>2. CASE Found(j)
      <4>1. PICK t \in TaskState : t = [pc |-> "send", found |-> TRUE]
        BY DEF TaskState
      <4> QED
        BY <3>2, <4>1 DEF Found
    <3>3. CASE Spawn(j) \/ NotFound(j) \/ SendResult(j) \/ ReleaseSemaphore(j) \/ ReleaseWaitGroup(j)
      BY <3>1, <3>3 DEF Spawn, NotFound, SendResult, ReleaseSemaphore, ReleaseWaitGroup
    <3> QED
      BY <1>13, <3>2, <3>3 DEF TaskStep
  <2>4. q1 < q /\ q1 \in Nat
    BY <1>1, <1>2, <2>3, TaskGoesOn
  <2>5. resultChan' = Append(resultChan, j) \/ UNCHANGED resultChan
    BY <1>13 DEF Spawn, TaskStep, Found, NotFound, SendResult, ReleaseSemaphore, ReleaseWaitGroup
  <2>6. m1 = m + 1 \/ m1 = m
    BY <1>1, <1>2, <2>5, AppendProperties DEF Inv, TypeOK
  <2> QED
    BY <1>3, <1>4, <1>5, <1>8, <2>1, <2>4, <2>6
<1> QED
  BY <1>9, <1>10, <1>11, <1>12, <1>13 DEF Next, CallerStep

\* Every step leaves less to do, so that no scan goes on for ever.
THEOREM EveryStepCounts == Spec => [](StepsLeft \in Nat) /\ [][StepsLeft' < StepsLeft]_vars
<1>1. Inv => StepsLeft \in Nat
  BY StepsLeftType
<1>2. Inv /\ Inv' /\ [Next]_vars => [StepsLeft' < StepsLeft]_vars
  BY StepCounts DEF Terminated
<1> QED
  BY <1>1, <1>2, Invariance, PTL DEF Spec
=============================================================================
