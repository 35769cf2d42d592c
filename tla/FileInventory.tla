--------------------------- MODULE FileInventory ----------------------------
(***************************************************************************)
(* What a walk of the file system promises to the file scanner, with no    *)
(* goroutine and no channel: the files that are due are recorded in any    *)
(* order, each once and with what one reading of its content gave; the     *)
(* walk ends complete only when every file due has been recorded, or it    *)
(* fails and reports nothing.                                              *)
(***************************************************************************)
CONSTANTS
    Due,       \* the files a complete walk reports
    Outcomes   \* Outcomes[f]: the sets of regex matches that reading f may give

VARIABLES
    recorded,  \* the files reported so far, with their matches
    outcome    \* "walking", "complete" or "failed"

vars == <<recorded, outcome>>

Init == recorded = {} /\ outcome = "walking"

Record(f) ==
    /\ outcome = "walking"
    /\ \A r \in recorded : r.path # f
    /\ \E m \in Outcomes[f] : recorded' = recorded \cup {[path |-> f, matches |-> m]}
    /\ UNCHANGED outcome

Complete ==
    /\ outcome = "walking"
    /\ {r.path : r \in recorded} = Due
    /\ outcome' = "complete"
    /\ UNCHANGED recorded

Fail ==
    /\ outcome = "walking"
    /\ recorded' = {}
    /\ outcome' = "failed"

Next == (\E f \in Due : Record(f)) \/ Complete \/ Fail

Spec == Init /\ [][Next]_vars /\ WF_vars(Next)
=============================================================================
