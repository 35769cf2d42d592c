----------------------------- MODULE FileWalker -----------------------------
(***************************************************************************)
(* The concurrent file walk of filesystem/file_walker.go.                  *)
(*                                                                         *)
(* One call of Walk() starts a walker goroutine (filepath.Walk), a pool of *)
(* content checkers when content regexes are given, and a closer that ends *)
(* the channels; the caller itself collects the walked files.  They meet   *)
(* in three buffered channels and one WaitGroup.  A channel is a sequence, *)
(* a goroutine is a program counter and its local variables; the content   *)
(* of files and paths is reduced to which regexes they match.              *)
(***************************************************************************)
EXTENDS Naturals, Sequences, FiniteSets, Functions

CONSTANTS
    Path,            \* everything below the root, directories and files
    RootPath,        \* FileConfig.RootPath
    Dir,             \* the directories among Path
    Regular,         \* the regular files; the rest is sockets, links, ...
    Children,        \* Children[d]: the entries of directory d
    Place,           \* Place[p]: where filepath.Walk's lexical order has p
    ExcludedPaths,   \* FileConfig.ExcludedPaths
    PathRegexes,     \* the path regexes of the FileMatch
    ContentRegexes,  \* the content regexes of the FileMatch, in order
    PathMatch,       \* <<p, r>>: path p matches path regex r
    ContentMatch,    \* <<p, r>>: the content of p matches content regex r
    TooLarge,        \* the files above MaxRegexFileSize
    Damaged,         \* the files a read of which may break off half way
    MaxInFlight,     \* maxInFlight: pool size and channel capacity
    AnyPath          \* the "" recorded as PathRegex when no path regex is set

ASSUME TreeAssumption ==
    /\ Dir \subseteq Path /\ Regular \subseteq Path /\ Dir \cap Regular = {}
    /\ RootPath \in Path
    /\ Children \in [Dir -> SUBSET Path]
    /\ Place \in [Path -> Nat]
    /\ IsFiniteSet(Path)

ASSUME MatchAssumption ==
    /\ ContentRegexes \in Seq(Range(ContentRegexes))
    /\ PathMatch \subseteq Path \X PathRegexes
    /\ AnyPath \notin PathRegexes

ASSUME MaxInFlightAssumption == MaxInFlight \in Nat \ {0}

VARIABLES
    visited,     \* entries filepath.Walk has called the walk function for
    walker,      \* the walker goroutine: pc, the file in hand, Walk's error
    regexQueue,  \* channel of files whose content is to be checked
    worker,      \* the content checkers
    wf,          \* channel of walked files
    wg,          \* the WaitGroup's counter: files queued but not yet recorded
    done,        \* channel of capacity 1 that carries Walk's error, twice
    closer,      \* the goroutine that closes the channels: pc and error
    closed,      \* the channels that have been closed
    caller,      \* the caller's pc and the error it returns
    files        \* the files collected so far

vars == <<visited, walker, regexQueue, worker, wf, wg, done, closer, closed,
          caller, files>>

(***************************************************************************)
(* What Walk() reports of a file: its path and the pairs of a content and  *)
(* a path regex that matched.                                              *)
(***************************************************************************)
RegexMatch == Range(ContentRegexes) \X (PathRegexes \cup {AnyPath})
WalkedFile == [path : Path, matches : SUBSET RegexMatch]

matchPath(p) == {r \in PathRegexes : <<p, r>> \in PathMatch}
checksContent(p) ==
    /\ PathRegexes = {} \/ matchPath(p) # {}
    /\ p \notin TooLarge
    /\ ContentRegexes # <<>>

\* The RegexMatches that one matching content regex c adds for file p.
MatchesFor(p, c) ==
    {c} \X (IF matchPath(p) = {} THEN {AnyPath} ELSE matchPath(p))

\* What one round of reading p for the content regex c may add.  A read that
\* breaks off is the end of the text for MatchReader, and not an error: what
\* matches may then be missed, or match although the whole text does not.
Hits(p, c) ==
    {IF <<p, c>> \in ContentMatch THEN MatchesFor(p, c) ELSE {}}
    \cup (IF p \in Damaged THEN {{}, MatchesFor(p, c)} ELSE {})

Workers == IF ContentRegexes = <<>> THEN {} ELSE 1..MaxInFlight
NoError == "nil"
AccessError == "access error"
Error == {NoError, AccessError}

\* What filepath.Walk may visit: it enters a directory once the walk function
\* returned nil for it, and never the excluded ones.
Open == {p \in Path \ visited :
            \/ p = RootPath
            \/ \E d \in (visited \cap Dir) \ ExcludedPaths : p \in Children[d]}

\* What it visits next: the first of them in lexical order.
ToVisit == {p \in Open : \A q \in Open : Place[p] <= Place[q]}

Init ==
    /\ visited = {}
    /\ walker = [pc |-> "visit", file |-> RootPath, err |-> NoError]
    /\ regexQueue = <<>> /\ wf = <<>> /\ done = <<>>
    /\ worker = [w \in Workers |->
                    [pc |-> "receive", file |-> RootPath, next |-> 1, found |-> {}]]
    /\ wg = 0
    /\ closer = [pc |-> "receive", err |-> NoError]
    /\ closed = {}
    /\ caller = [pc |-> "collect", err |-> NoError]
    /\ files = <<>>

-----------------------------------------------------------------------------
(* The walker goroutine: filepath.Walk with the walk function.             *)

\* Fault: the walk function returns nil for an entry it cannot access.
VisitFailsSilently(p) ==
    /\ walker.pc = "visit" /\ walker.err = NoError
    /\ p \in ToVisit
    /\ visited' = visited \cup {p}
    /\ UNCHANGED <<walker, regexQueue, worker, wf, wg, done, closer, closed, caller, files>>

\* The entry (or the listing of the directory) cannot be read: the walk
\* function returns the error before it looks at the exclusions.
VisitFails(p) ==
    /\ walker.pc = "visit" /\ walker.err = NoError
    /\ p \in ToVisit
    /\ visited' = visited \cup {p}
    /\ walker' = [walker EXCEPT !.err = AccessError]
    /\ UNCHANGED <<regexQueue, worker, wf, wg, done, closer, closed, caller, files>>

\* A directory (excluded or not) or an irregular file records nothing.
VisitOther(p) ==
    /\ walker.pc = "visit" /\ walker.err = NoError
    /\ p \in ToVisit \ Regular
    /\ visited' = visited \cup {p}
    /\ UNCHANGED <<walker, regexQueue, worker, wf, wg, done, closer, closed,
                   caller, files>>

\* Fault: wg.Add is forgotten.
VisitFileUncounted(p) ==
    /\ walker.pc = "visit" /\ walker.err = NoError
    /\ p \in ToVisit \cap Regular
    /\ visited' = visited \cup {p}
    /\ walker' = [walker EXCEPT !.pc = IF checksContent(p) THEN "enqueue" ELSE "emit",
                                !.file = p]
    /\ UNCHANGED <<regexQueue, worker, wf, wg, done, closer, closed, caller, files>>

VisitFile(p) ==
    /\ walker.pc = "visit" /\ walker.err = NoError
    /\ p \in ToVisit \cap Regular
    /\ visited' = visited \cup {p}
    /\ IF checksContent(p)
       THEN /\ wg' = wg + 1
            /\ walker' = [walker EXCEPT !.pc = "enqueue", !.file = p]
       ELSE /\ wg' = wg
            /\ walker' = [walker EXCEPT !.pc = "emit", !.file = p]
    /\ UNCHANGED <<regexQueue, worker, wf, done, closer, closed, caller, files>>

Enqueue ==
    /\ walker.pc = "enqueue"
    /\ Len(regexQueue) < MaxInFlight
    /\ regexQueue' = Append(regexQueue, walker.file)
    /\ walker' = [walker EXCEPT !.pc = "visit"]
    /\ UNCHANGED <<visited, worker, wf, wg, done, closer, closed, caller, files>>

EmitUnchecked ==
    /\ walker.pc = "emit"
    /\ Len(wf) < MaxInFlight
    /\ wf' = Append(wf, [path |-> walker.file, matches |-> {}])
    /\ walker' = [walker EXCEPT !.pc = "visit"]
    /\ UNCHANGED <<visited, regexQueue, worker, wg, done, closer, closed, caller, files>>

WalkEnds ==
    /\ walker.pc = "visit"
    /\ walker.err # NoError \/ ToVisit = {}
    /\ Len(done) < 1
    /\ done' = Append(done, walker.err)
    /\ walker' = [walker EXCEPT !.pc = "end"]
    /\ UNCHANGED <<visited, regexQueue, worker, wf, wg, closer, closed, caller, files>>

WalkerStep ==
    \/ \E p \in Path : VisitFails(p) \/ VisitOther(p) \/ VisitFile(p)
    \/ Enqueue \/ EmitUnchecked \/ WalkEnds

-----------------------------------------------------------------------------
(* The content checkers.                                                   *)

ReceiveJob(w) ==
    /\ worker[w].pc = "receive"
    /\ regexQueue # <<>>
    /\ worker' = [worker EXCEPT ![w] = [pc |-> "check", file |-> Head(regexQueue),
                                        next |-> 1, found |-> {}]]
    /\ regexQueue' = Tail(regexQueue)
    /\ UNCHANGED <<visited, walker, wf, wg, done, closer, closed, caller, files>>

\* One round of the loop of matchContent: the file is opened anew for every
\* content regex and read as far as it can be.
CheckContent(w) ==
    LET last == worker[w].next = Len(ContentRegexes)
    IN  /\ worker[w].pc = "check"
        /\ \E hits \in Hits(worker[w].file, ContentRegexes[worker[w].next]) :
              worker' = [worker EXCEPT
                 ![w].pc = IF last THEN "emit" ELSE "check",
                 ![w].next = IF last THEN @ ELSE @ + 1,
                 ![w].found = @ \cup hits]
        /\ UNCHANGED <<visited, walker, regexQueue, wf, wg, done, closer, closed,
                       caller, files>>

\* Fault: the matches found before the failure are returned with the error.
CheckFailsPartially(w) ==
    /\ worker[w].pc = "check"
    /\ worker' = [worker EXCEPT ![w].pc = "emit"]
    /\ UNCHANGED <<visited, walker, regexQueue, wf, wg, done, closer, closed,
                   caller, files>>

\* The file cannot be opened: what the earlier regexes matched is dropped.
CheckFails(w) ==
    /\ worker[w].pc = "check"
    /\ worker' = [worker EXCEPT ![w].pc = "emit", ![w].found = {}]
    /\ UNCHANGED <<visited, walker, regexQueue, wf, wg, done, closer, closed,
                   caller, files>>

EmitChecked(w) ==
    /\ worker[w].pc = "emit"
    /\ Len(wf) < MaxInFlight
    /\ wf' = Append(wf, [path |-> worker[w].file, matches |-> worker[w].found])
    /\ worker' = [worker EXCEPT ![w].pc = "release"]
    /\ UNCHANGED <<visited, walker, regexQueue, wg, done, closer, closed, caller, files>>

Release(w) ==
    /\ worker[w].pc = "release"
    /\ wg' = wg - 1
    /\ worker' = [worker EXCEPT ![w].pc = "receive"]
    /\ UNCHANGED <<visited, walker, regexQueue, wf, done, closer, closed, caller, files>>

WorkerEnds(w) ==
    /\ worker[w].pc = "receive"
    /\ regexQueue = <<>> /\ "regexQueue" \in closed
    /\ worker' = [worker EXCEPT ![w].pc = "end"]
    /\ UNCHANGED <<visited, walker, regexQueue, wf, wg, done, closer, closed,
                   caller, files>>

WorkerStep(w) ==
    \/ ReceiveJob(w) \/ CheckContent(w) \/ CheckFails(w)
    \/ EmitChecked(w) \/ Release(w) \/ WorkerEnds(w)

-----------------------------------------------------------------------------
(* The closer: <-done, wg.Wait, close(wf), close(regexQueue), done <- err. *)

CloserReceives ==
    /\ closer.pc = "receive"
    /\ done # <<>>
    /\ closer' = [pc |-> "wait", err |-> Head(done)]
    /\ done' = Tail(done)
    /\ UNCHANGED <<visited, walker, regexQueue, worker, wf, wg, closed, caller, files>>

\* Fault: the closer does not wait for the WaitGroup.
CloserHurries ==
    /\ closer.pc = "wait"
    /\ closer' = [closer EXCEPT !.pc = "close wf"]
    /\ UNCHANGED <<visited, walker, regexQueue, worker, wf, wg, done, closed,
                   caller, files>>

CloserWaits ==
    /\ closer.pc = "wait"
    /\ wg = 0
    /\ closer' = [closer EXCEPT !.pc = "close wf"]
    /\ UNCHANGED <<visited, walker, regexQueue, worker, wf, wg, done, closed,
                   caller, files>>

CloseFiles ==
    /\ closer.pc = "close wf"
    /\ closed' = closed \cup {"wf"}
    /\ closer' = [closer EXCEPT !.pc = "close regexQueue"]
    /\ UNCHANGED <<visited, walker, regexQueue, worker, wf, wg, done, caller, files>>

\* Fault: regexQueue is never closed.
CloseQueueForgotten ==
    /\ closer.pc = "close regexQueue"
    /\ closer' = [closer EXCEPT !.pc = "forward"]
    /\ UNCHANGED <<visited, walker, regexQueue, worker, wf, wg, done, closed, caller, files>>

CloseQueue ==
    /\ closer.pc = "close regexQueue"
    /\ closed' = closed \cup {"regexQueue"}
    /\ closer' = [closer EXCEPT !.pc = "forward"]
    /\ UNCHANGED <<visited, walker, regexQueue, worker, wf, wg, done, caller, files>>

\* Fault: the closer forwards nil.
ForwardNil ==
    /\ closer.pc = "forward"
    /\ Len(done) < 1
    /\ done' = Append(done, NoError)
    /\ closer' = [closer EXCEPT !.pc = "end"]
    /\ UNCHANGED <<visited, walker, regexQueue, worker, wf, wg, closed, caller, files>>

ForwardError ==
    /\ closer.pc = "forward"
    /\ Len(done) < 1
    /\ done' = Append(done, closer.err)
    /\ closer' = [closer EXCEPT !.pc = "end"]
    /\ UNCHANGED <<visited, walker, regexQueue, worker, wf, wg, closed, caller, files>>

CloserStep == CloserReceives \/ CloserWaits \/ CloseFiles \/ CloseQueue \/ ForwardError

-----------------------------------------------------------------------------
(* The caller: collects wf until it is closed, then takes the error.       *)

Collect ==
    /\ caller.pc = "collect"
    /\ wf # <<>>
    /\ files' = Append(files, Head(wf))
    /\ wf' = Tail(wf)
    /\ UNCHANGED <<visited, walker, regexQueue, worker, wg, done, closer, closed, caller>>

CollectEnds ==
    /\ caller.pc = "collect"
    /\ wf = <<>> /\ "wf" \in closed
    /\ caller' = [caller EXCEPT !.pc = "take error"]
    /\ UNCHANGED <<visited, walker, regexQueue, worker, wf, wg, done, closer, closed, files>>

\* Walk() returns: (nil, err) or (files, nil), and its defer closes done.
Return ==
    /\ caller.pc = "take error"
    /\ done # <<>>
    /\ caller' = [pc |-> "returned", err |-> Head(done)]
    /\ done' = Tail(done)
    /\ files' = IF Head(done) = NoError THEN files ELSE <<>>
    /\ closed' = closed \cup {"done"}
    /\ UNCHANGED <<visited, walker, regexQueue, worker, wf, wg, closer>>

CallerStep == Collect \/ CollectEnds \/ Return

\* Nothing is left to run.
Terminated ==
    /\ caller.pc = "returned" /\ closer.pc = "end" /\ walker.pc = "end"
    /\ \A w \in Workers : worker[w].pc = "end"
    /\ UNCHANGED vars

Next ==
    \/ WalkerStep
    \/ \E w \in Workers : WorkerStep(w)
    \/ CloserStep
    \/ CallerStep
    \/ Terminated

\* Every goroutine that can run is eventually scheduled.
Fairness ==
    /\ WF_vars(WalkerStep)
    /\ \A w \in Workers : WF_vars(WorkerStep(w))
    /\ WF_vars(CloserStep)
    /\ WF_vars(CallerStep)

Spec == Init /\ [][Next]_vars /\ Fairness

-----------------------------------------------------------------------------
(* Properties.                                                             *)

Channel == {"wf", "regexQueue", "done"}

WalkerState == [pc : {"visit", "enqueue", "emit", "end"}, file : Path, err : Error]
WorkerState == [pc : {"receive", "check", "emit", "release", "end"}, file : Path,
                next : 1..Len(ContentRegexes), found : SUBSET RegexMatch]
CloserState == [pc : {"receive", "wait", "close wf", "close regexQueue", "forward", "end"},
                err : Error]
CallerState == [pc : {"collect", "take error", "returned"}, err : Error]

\* The types of the variables and the capacities of the three channels.
TypeOK ==
    /\ visited \subseteq Path
    /\ walker \in WalkerState
    /\ regexQueue \in Seq(Path) /\ Len(regexQueue) <= MaxInFlight
    /\ worker \in [Workers -> WorkerState]
    /\ wf \in Seq(WalkedFile) /\ Len(wf) <= MaxInFlight
    /\ wg \in Nat
    /\ done \in Seq(Error) /\ Len(done) <= 1
    /\ closer \in CloserState
    /\ closed \subseteq Channel
    /\ caller \in CallerState
    /\ files \in Seq(WalkedFile)

\* No goroutine is ever about to send on a closed channel, to close a closed
\* channel or to take the WaitGroup below zero: each would panic and end
\* proc_scan, and with it the scan of the whole host.  The closer decides
\* alone when wf and regexQueue are closed, from done and the WaitGroup.
NoPanic ==
    /\ walker.pc = "enqueue" => "regexQueue" \notin closed
    /\ walker.pc = "emit" => "wf" \notin closed
    /\ walker.pc = "visit" => "done" \notin closed
    /\ \A w \in Workers :
          /\ worker[w].pc = "emit" => "wf" \notin closed
          /\ worker[w].pc = "release" => wg > 0
    /\ closer.pc = "close wf" => "wf" \notin closed
    /\ closer.pc = "close regexQueue" => "regexQueue" \notin closed
    /\ closer.pc = "forward" => "done" \notin closed

\* The counter of the WaitGroup is the number of files that were queued for a
\* content check and are not recorded yet: in the walker's hand, in the queue
\* or with a worker.
Busy == {w \in Workers : worker[w].pc \in {"check", "emit", "release"}}
WaitGroupCounts ==
    wg = (IF walker.pc = "enqueue" THEN 1 ELSE 0) + Len(regexQueue) + Cardinality(Busy)

\* The paths that a complete walk visits: the root and the entries of every
\* visited directory that is not excluded.
Visible == {p \in Path : \A S \in SUBSET Path :
              (/\ RootPath \in S
               /\ \A d \in (S \cap Dir) \ ExcludedPaths : Children[d] \subseteq S) => p \in S}

AllMatches(p) ==
    IF checksContent(p)
    THEN UNION {MatchesFor(p, c) : c \in {c \in Range(ContentRegexes) : <<p, c>> \in ContentMatch}}
    ELSE {}

\* The sets of matches that may be recorded of p: all, or none if p could not
\* be opened for one of the regexes, never those found before the failure.
\* Of a damaged file, those of some of the regexes.
Readings ==
    [p \in Path |-> IF p \in Damaged /\ checksContent(p)
                    THEN {UNION {MatchesFor(p, c) : c \in C} : C \in SUBSET Range(ContentRegexes)}
                    ELSE {{}, AllMatches(p)}]

\* The files that a complete walk reports.
DueFiles == Visible \cap Regular

\* Walk() returns no error only with every visible regular file in the result
\* and each of them once, whatever order the walker and the workers recorded
\* them in.  A file's regex matches are then all of its matches or, when it
\* could not be opened for one of the regexes, none: never those found before
\* the failure, unless a read of it breaks off half way, which nobody notices.
\* An error is never returned together with files.
ResultComplete ==
    caller.pc = "returned" =>
        IF caller.err = NoError
        THEN /\ {f.path : f \in Range(files)} = DueFiles
             /\ Len(files) = Cardinality(DueFiles)
             /\ \A f \in Range(files) : f.matches \in Readings[f.path]
        ELSE files = <<>>

\* The error Walk() returns is the walker's own, although it passes twice
\* through the same channel, from the walker to the closer and from the closer
\* to the caller: no receiver takes a value meant for the other.
ErrorHandedOver ==
    /\ caller.pc = "returned" => walker.pc = "end" /\ caller.err = walker.err
    /\ closer.pc \notin {"receive"} => walker.pc = "end" /\ closer.err = walker.err

\* How far each goroutine is tells what is in done and which channels are
\* closed: nothing is closed before the walker has ended and the WaitGroup has
\* come to zero for good, and done holds the walker's error exactly while its
\* next receiver has not taken it.
ClosingOrder ==
    /\ walker.pc # "end" => closer.pc = "receive" /\ done = <<>>
    /\ walker.pc = "end" /\ closer.pc = "receive" => done = <<walker.err>>
    /\ closer.pc # "receive" => closer.err = walker.err
    /\ closer.pc \notin {"receive", "end"} => done = <<>>
    /\ closer.pc \notin {"receive", "wait"} => wg = 0
    /\ closer.pc = "end" =>
          IF caller.pc = "returned" THEN caller.err = walker.err /\ done = <<>>
                                    ELSE done = <<walker.err>>
    /\ caller.pc = "returned" => closer.pc = "end"
    /\ caller.pc = "take error" => "wf" \in closed
    /\ "wf" \in closed <=> closer.pc \in {"close regexQueue", "forward", "end"}
    /\ "regexQueue" \in closed <=> closer.pc \in {"forward", "end"}
    /\ "done" \in closed <=> caller.pc = "returned"

\* The WaitGroup, the channels and the goroutines agree at any time on how far
\* the walk is: what nobody has to wait for any more is exactly what was closed.
GoroutinesAgree == WaitGroupCounts /\ ClosingOrder

\* What ScanFiles may rely on: Walk() implements FileInventory, where files are
\* recorded one by one, each with what its reading gave, and the walk then
\* succeeds with every file due or fails with none.
Inventory == INSTANCE FileInventory WITH
    Due <- DueFiles,
    Outcomes <- Readings,
    recorded <- Range(files),
    outcome <- IF caller.pc # "returned" THEN "walking"
               ELSE IF caller.err = NoError THEN "complete" ELSE "failed"
ImplementsInventory == Inventory!Spec

\* Walk() returns and all its goroutines end: none stays blocked on a full
\* channel, an empty queue or the WaitGroup, whatever fails.
AllEnd == <>(/\ caller.pc = "returned" /\ closer.pc = "end" /\ walker.pc = "end"
             /\ \A w \in Workers : worker[w].pc = "end")
=============================================================================
