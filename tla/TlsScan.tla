------------------------------ MODULE TlsScan -------------------------------
(***************************************************************************)
(* The cipher scan of one port in tlsscan/tls_scan.go.                     *)
(*                                                                         *)
(* Scan first finds the protocol versions the service supports.  Then it   *)
(* tries every cipher suite under every supported version in a goroutine   *)
(* of its own (a task).  A spawner starts the tasks, a semaphore keeps at  *)
(* most MaxInFlight of them alive, a WaitGroup counts those not finished,  *)
(* a closer closes the result channel when there are none, and the caller  *)
(* collects the results.  The order in which versions and suites are taken *)
(* is left open: nothing below depends on it.                              *)
(***************************************************************************)
EXTENDS Naturals, Sequences, FiniteSets, Functions

CONSTANTS
    Version,      \* ProtocolVersions
    Suite,        \* the cipher suites that BuildCipherSuites returns
    Serves,       \* the versions under which the service shows a certificate
    Accepts,      \* <<v, s>>: the service negotiates suite s under version v
    MaxInFlight   \* maxInFlight: the semaphore's weight, the channel's capacity

ASSUME ScanAssumption ==
    /\ IsFiniteSet(Version) /\ IsFiniteSet(Suite)
    /\ MaxInFlight \in Nat \ {0}

VARIABLES
    probed,       \* the versions getSupportedProtocols has tried
    supported,    \* supportedProtocols
    task,         \* testCipher of each version and suite: pc and found
    free,         \* what is left of the semaphore
    wg,           \* the WaitGroup's counter
    resultChan,   \* the channel of results
    resultClosed, \* whether resultChan has been closed
    closer,       \* pc of the goroutine that closes resultChan
    caller,       \* pc of Scan itself
    results       \* the suites collected for each version

vars == <<probed, supported, task, free, wg, resultChan, resultClosed, closer,
          caller, results>>

Job == Version \X Suite

Init ==
    /\ probed = {} /\ supported = {}
    /\ task = [j \in Job |-> [pc |-> "idle", found |-> FALSE]]
    /\ free = MaxInFlight /\ wg = 0
    /\ resultChan = <<>> /\ resultClosed = FALSE
    /\ closer = "off" /\ caller = "probe"
    /\ results = [v \in Version |-> <<>>]

-----------------------------------------------------------------------------
(* Scan, up to the point where it collects results.                        *)

\* getSupportedProtocols tries one version, as Handshake.tla has it in detail:
\* a service that is slow or fails is taken not to support it.
Probe(v) ==
    /\ caller = "probe" /\ v \notin probed
    /\ probed' = probed \cup {v}
    /\ supported' \in {supported} \cup {supported \cup ({v} \cap Serves)}
    /\ UNCHANGED <<task, free, wg, resultChan, resultClosed, closer, caller, results>>

\* Nothing is supported, or the list of cipher suites cannot be built.
ReturnEarly ==
    /\ caller = "probe" /\ probed = Version
    /\ caller' = "returned"
    /\ UNCHANGED <<probed, supported, task, free, wg, resultChan, resultClosed,
                   closer, results>>

\* Fault: wg.Add counts the suites of one version only.
StartUndercounted ==
    /\ caller = "probe" /\ probed = Version /\ supported # {}
    /\ wg' = Cardinality(Suite)
    /\ caller' = "collect" /\ closer' = "wait"
    /\ UNCHANGED <<probed, supported, task, free, resultChan, resultClosed, results>>

Start ==
    /\ caller = "probe" /\ probed = Version /\ supported # {}
    /\ wg' = Cardinality(supported) * Cardinality(Suite)
    /\ caller' = "collect" /\ closer' = "wait"
    /\ UNCHANGED <<probed, supported, task, free, resultChan, resultClosed, results>>

-----------------------------------------------------------------------------
(* The spawner and the tasks.                                              *)

\* Fault: the task is started without waiting for the semaphore.
SpawnUnlimited(j) ==
    /\ closer # "off" /\ j \in supported \X Suite
    /\ task[j].pc = "idle"
    /\ free' = free - 1
    /\ task' = [task EXCEPT ![j].pc = "handshake"]
    /\ UNCHANGED <<probed, supported, wg, resultChan, resultClosed, closer,
                   caller, results>>

\* sem.Acquire, then go testCipher.
Spawn(j) ==
    /\ closer # "off" /\ j \in supported \X Suite
    /\ task[j].pc = "idle"
    /\ free > 0
    /\ free' = free - 1
    /\ task' = [task EXCEPT ![j].pc = "handshake"]
    /\ UNCHANGED <<probed, supported, wg, resultChan, resultClosed, closer,
                   caller, results>>

\* tryHandshakeWithCipher; it may fail whatever the service accepts.
Found(j) ==
    /\ task[j].pc = "handshake" /\ j \in Accepts
    /\ task' = [task EXCEPT ![j] = [pc |-> "send", found |-> TRUE]]
    /\ UNCHANGED <<probed, supported, free, wg, resultChan, resultClosed, closer,
                   caller, results>>

\* Fault: on this path the semaphore is not released.
NotFoundLeaks(j) ==
    /\ task[j].pc = "handshake"
    /\ task' = [task EXCEPT ![j].pc = "done"]
    /\ UNCHANGED <<probed, supported, free, wg, resultChan, resultClosed, closer,
                   caller, results>>

NotFound(j) ==
    /\ task[j].pc = "handshake"
    /\ task' = [task EXCEPT ![j].pc = "release"]
    /\ UNCHANGED <<probed, supported, free, wg, resultChan, resultClosed, closer,
                   caller, results>>

SendResult(j) ==
    /\ task[j].pc = "send"
    /\ Len(resultChan) < MaxInFlight
    /\ resultChan' = Append(resultChan, j)
    /\ task' = [task EXCEPT ![j].pc = "release"]
    /\ UNCHANGED <<probed, supported, free, wg, resultClosed, closer, caller, results>>

\* release: first the semaphore, then the WaitGroup.
ReleaseSemaphore(j) ==
    /\ task[j].pc = "release"
    /\ free' = free + 1
    /\ task' = [task EXCEPT ![j].pc = "done"]
    /\ UNCHANGED <<probed, supported, wg, resultChan, resultClosed, closer,
                   caller, results>>

ReleaseWaitGroup(j) ==
    /\ task[j].pc = "done"
    /\ wg' = wg - 1
    /\ task' = [task EXCEPT ![j].pc = "end"]
    /\ UNCHANGED <<probed, supported, free, resultChan, resultClosed, closer,
                   caller, results>>

TaskStep(j) ==
    \/ Found(j) \/ NotFound(j) \/ SendResult(j)
    \/ ReleaseSemaphore(j) \/ ReleaseWaitGroup(j)

-----------------------------------------------------------------------------
(* The closer and the collecting caller.                                   *)

\* Fault: the closer does not wait for the WaitGroup.
CloserHurries ==
    /\ closer = "wait"
    /\ closer' = "close"
    /\ UNCHANGED <<probed, supported, task, free, wg, resultChan, resultClosed,
                   caller, results>>

CloserWaits ==
    /\ closer = "wait" /\ wg = 0
    /\ closer' = "close"
    /\ UNCHANGED <<probed, supported, task, free, wg, resultChan, resultClosed,
                   caller, results>>

CloseResults ==
    /\ closer = "close"
    /\ closer' = "end" /\ resultClosed' = TRUE
    /\ UNCHANGED <<probed, supported, task, free, wg, resultChan, caller, results>>

CloserStep == CloserWaits \/ CloseResults

Collect ==
    /\ caller = "collect" /\ resultChan # <<>>
    /\ LET v == Head(resultChan)[1]
           s == Head(resultChan)[2]
       IN  results' = [results EXCEPT ![v] = Append(@, s)]
    /\ resultChan' = Tail(resultChan)
    /\ UNCHANGED <<probed, supported, task, free, wg, resultClosed, closer, caller>>

Return ==
    /\ caller = "collect" /\ resultChan = <<>> /\ resultClosed
    /\ caller' = "returned"
    /\ UNCHANGED <<probed, supported, task, free, wg, resultChan, resultClosed,
                   closer, results>>

CallerStep == (\E v \in Version : Probe(v)) \/ ReturnEarly \/ Start \/ Collect \/ Return

AllDone ==
    /\ caller = "returned" /\ closer \in {"off", "end"}
    /\ \A j \in Job : task[j].pc \in {"idle", "end"}
Terminated == AllDone /\ UNCHANGED vars

Next ==
    \/ CallerStep
    \/ \E j \in Job : Spawn(j) \/ TaskStep(j)
    \/ CloserStep
    \/ Terminated

\* Goroutines are scheduled fairly, and every attempt ends: AttemptHandshake
\* gives up after the dialer's timeout.
Fairness ==
    /\ WF_vars(CallerStep)
    /\ WF_vars(\E j \in Job : Spawn(j))
    /\ \A j \in Job : WF_vars(TaskStep(j))
    /\ WF_vars(CloserStep)

Spec == Init /\ [][Next]_vars /\ Fairness

-----------------------------------------------------------------------------
(* Properties.                                                             *)

TaskState == [pc : {"idle", "handshake", "send", "release", "done", "end"},
              found : BOOLEAN]

\* The types of the variables; the result channel within its capacity.
TypeOK ==
    /\ probed \subseteq Version /\ supported \subseteq probed
    /\ task \in [Job -> TaskState]
    /\ free \in Nat /\ wg \in Nat
    /\ resultChan \in Seq(Job) /\ Len(resultChan) <= MaxInFlight
    /\ resultClosed \in BOOLEAN
    /\ closer \in {"off", "wait", "close", "end"}
    /\ caller \in {"probe", "collect", "returned"}
    /\ results \in [Version -> Seq(Suite)]

Holding == {j \in Job : task[j].pc \in {"handshake", "send", "release"}}
Unfinished == {j \in supported \X Suite : task[j].pc # "end"}

\* The semaphore and the tasks that hold it always add up to its weight, so
\* that at most MaxInFlight connections to the service are open at a time.
SemaphoreCounts == free + Cardinality(Holding) = MaxInFlight

\* The WaitGroup counts the tasks that have not finished, those still to be
\* started included: it cannot reach zero while the spawner waits for the
\* semaphore.
WaitGroupCounts ==
    wg = IF closer = "off" THEN 0 ELSE Cardinality(Unfinished)

\* The closer is past wg.Wait only when no task is left, and resultChan is
\* closed only by it.
CloseIsLast ==
    /\ closer \in {"close", "end"} => wg = 0
    /\ resultClosed <=> closer = "end"
    /\ closer = "off" => \A j \in Job : task[j].pc = "idle"
    /\ \A j \in Job \ (supported \X Suite) : task[j].pc = "idle"
    /\ caller = "probe" => closer = "off"

\* The semaphore, the WaitGroup and the closer agree with the tasks: each task
\* gives back what it took on every path, once, and the channel is closed when
\* no task is left, those still waiting for the semaphore included.
TasksAccounted == SemaphoreCounts /\ WaitGroupCounts /\ CloseIsLast

\* No task is about to send on the closed result channel, to release the
\* semaphore above its weight or to take the WaitGroup below zero, and
\* resultChan is closed once: each would panic and end proc_scan.
NoPanic ==
    /\ \A j \in Job :
          /\ task[j].pc = "send" => ~resultClosed
          /\ task[j].pc = "release" => free < MaxInFlight
          /\ task[j].pc = "done" => wg > 0
    /\ closer = "close" => ~resultClosed

\* When Scan returns, the suites reported under each version are exactly those
\* whose handshake was found to succeed, each once: none is lost with the
\* closing of the channel and none is filed under another version.
ResultsExact ==
    caller = "returned" => \A v \in Version :
        /\ Range(results[v]) = {s \in Suite : task[<<v, s>>].found}
        /\ Len(results[v]) = Cardinality({s \in Suite : task[<<v, s>>].found})

\* Scan returns and all its goroutines end, also with more tasks than the
\* semaphore and the channel let through at a time.
AllEnd == <>AllDone
=============================================================================
