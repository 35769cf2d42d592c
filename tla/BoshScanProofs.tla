--------------------------- MODULE BoshScanProofs ---------------------------
(***************************************************************************)
(* Proofs about the command bosh-scan, for every set of deployments, all   *)
(* sets of machines and whatever director and machines fail at.            *)
(*                                                                         *)
(* The goroutines of a deployment come to an end in one order: a machine   *)
(* that has not ended is counted by the WaitGroup, so the closer waits, so *)
(* hosts is open, so the deployment still collects, so the account is not  *)
(* yet removed and nothing is saved.  The invariant says this for each     *)
(* deployment (InOrder) and what each machine has left behind at each      *)
(* point of its scan (MachineSound).                                       *)
(* At the end: what can hold up a deployment and the command               *)
(* (HeldUpByItsOwn, NeverStuck), and that each step leaves fewer to come   *)
(* (EveryStepCounts).                                                      *)
(***************************************************************************)
EXTENDS BoshScan, FiniteSetTheorems, SequenceTheorems, TLAPS

Started(d) == dep[d] \notin {"idle", "list", "setup"}
Collected(d) == dep[d] \in {"cleanup", "lock", "save", "unlock", "end"}
Unfinished(d) == {m \in vms[d] : vm[m].pc # "end"}
Past == {"close", "done", "end"}

\* What a machine's goroutine has made and not yet removed.
MachineSound(r) ==
    /\ r.pc \in {"idle", "connect", "temp", "upload", "run"} => ~r.ok
    /\ r.pc \in {"idle", "connect", "temp", "upload", "remove", "send"} \cup Past =>
          r.remote \in {"none", "tried"}
    /\ r.pc \in {"idle", "connect", "temp", "send"} \cup Past =>
          r.temp \in {"none", "tried"} \/ (r.temp = "left" /\ ~r.ok)
    /\ r.pc \in {"idle", "connect", "temp", "upload", "done", "end"} => ~r.conn
    /\ r.pc = "send" => r.ok

\* The machines of a deployment, the WaitGroup and what was collected agree.
Machines ==
    /\ \A m \in VM : MachineSound(vm[m])
    /\ \A m \in VM : vm[m].pc # "idle" <=> \E d \in Deployment : Started(d) /\ m \in vms[d]
    /\ \A d \in Deployment : wg[d] = Cardinality(Unfinished(d))
    /\ \A d \in Deployment : scanned[d] = {m \in vms[d] : vm[m].ok /\ vm[m].pc \in Past}

\* How far a deployment has come tells what the closer has done, whether the
\* account is there, what is saved and who holds the mutex.
OrderOf(d) ==
    /\ dep[d] \in {"idle", "list"} => vms[d] = {}
    /\ closer[d] = "off" <=> ~Started(d)
    /\ closed[d] <=> closer[d] = "end"
    /\ closer[d] \in {"close", "end"} => Unfinished(d) = {}
    /\ Collected(d) => closed[d]
    /\ account[d] = IF dep[d] \in {"collect", "cleanup"} THEN "present"
                    ELSE IF Collected(d) THEN "tried" ELSE "none"
    /\ report[d] = IF dep[d] \in {"unlock", "end"} THEN <<scanned[d]>> ELSE <<>>
    /\ dep[d] \in {"save", "unlock"} <=> mutex = d

InOrder == \A d \in Deployment : OrderOf(d)

MainOrder ==
    /\ main \notin {"wait", "succeeded", "failed"} => \A d \in Deployment : dep[d] = "idle"
    /\ main = "succeeded" => \A d \in Deployment : dep[d] = "end"

Inv == TypeOK /\ MainOrder /\ Machines /\ InOrder

-----------------------------------------------------------------------------
(* Counting machines.                                                      *)

\* The machines that have not ended are finitely many, and one that ends is
\* one less.
LEMMA UnfinishedFinite ==
    ASSUME TypeOK, NEW d \in Deployment
    PROVE  /\ IsFiniteSet(Unfinished(d)) /\ Cardinality(Unfinished(d)) \in Nat
           /\ \A m \in Unfinished(d) :
                 /\ Cardinality(Unfinished(d)) > 0
                 /\ Cardinality(Unfinished(d) \ {m}) = Cardinality(Unfinished(d)) - 1
<1>1. Unfinished(d) \subseteq VM
  BY DEF TypeOK, Unfinished
<1>2. IsFiniteSet(Unfinished(d)) /\ Cardinality(Unfinished(d)) \in Nat
  BY <1>1, DeploymentAssumption, FS_Subset, FS_CardinalityType
<1>3. ASSUME NEW m \in Unfinished(d)
      PROVE  /\ Cardinality(Unfinished(d)) > 0
             /\ Cardinality(Unfinished(d) \ {m}) = Cardinality(Unfinished(d)) - 1
  <2>1. Cardinality(Unfinished(d)) # 0
    BY <1>2, <1>3, FS_EmptySet
  <2>2. Cardinality(Unfinished(d) \ {m}) = Cardinality(Unfinished(d)) - 1
    BY <1>2, <1>3, FS_RemoveElement
  <2> QED
    BY <1>2, <2>1, <2>2
<1> QED
  BY <1>2, <1>3

\* A machine belongs to one deployment.
LEMMA OneOwner ==
    ASSUME TypeOK, NEW d \in Deployment, NEW e \in Deployment, NEW m \in vms[d]
    PROVE  /\ m \in VM /\ m \in VMsOf[d]
           /\ e # d => m \notin vms[e] /\ m \notin VMsOf[e]
BY DeploymentAssumption DEF TypeOK

\* While a machine's scan goes on, its deployment collects and its account is
\* there.
LEMMA ScanningVM ==
    ASSUME Inv, NEW m \in VM, vm[m].pc \notin {"idle", "end"}
    PROVE  \E d \in Deployment :
              /\ m \in vms[d] /\ m \in Unfinished(d) /\ wg[d] > 0
              /\ dep[d] = "collect" /\ closer[d] = "wait" /\ ~closed[d] /\ account[d] = "present"
<1>1. PICK d \in Deployment : Started(d) /\ m \in vms[d]
  BY DEF Inv, Machines
<1>2. m \in Unfinished(d)
  BY <1>1 DEF Unfinished
<1>3. wg[d] > 0
  BY <1>2, UnfinishedFinite DEF Inv, Machines
<1>4. OrderOf(d) /\ closer[d] \in {"off", "wait", "close", "end"} /\ dep[d] \in DepPcs
  BY DEF Inv, InOrder, TypeOK
<1>5. closer[d] = "wait" /\ ~closed[d]
  BY <1>1, <1>2, <1>4 DEF OrderOf
<1>6. dep[d] = "collect"
  BY <1>1, <1>4, <1>5 DEF OrderOf, Collected, Started, DepPcs
<1> QED
  BY <1>1, <1>2, <1>3, <1>4, <1>5, <1>6 DEF OrderOf

\* A deployment past its launch: the command waits for it.
LEMMA CommandWaits ==
    ASSUME Inv, Alive, NEW d \in Deployment, dep[d] # "idle"
    PROVE  main = "wait"
BY DEF Inv, MainOrder, Alive, TypeOK, MainPcs

-----------------------------------------------------------------------------

LEMMA InitInv == Init => Inv
<1> SUFFICES ASSUME Init PROVE Inv
  OBVIOUS
<1> USE DEF Init
<1>1. TypeOK
  <2>1. vm \in [VM -> VMState]
    BY DEF VMState, Residue
  <2>2. report \in [Deployment -> Seq(SUBSET VM)]
    BY EmptySeq
  <2> QED
    BY <2>1, <2>2 DEF TypeOK, MainPcs, DepPcs, Residue
<1>2. MainOrder
  BY DEF MainOrder
<1>3. \A d \in Deployment : Unfinished(d) = {}
  BY DEF Unfinished
<1>4. Machines
  <2>1. \A m \in VM : MachineSound(vm[m])
    BY DEF MachineSound, Past
  <2> QED
    BY <1>3, <2>1, FS_EmptySet DEF Machines, Started
<1>5. InOrder
  BY <1>3, DeploymentAssumption DEF InOrder, OrderOf, Started, Collected
<1> QED
  BY <1>1, <1>2, <1>4, <1>5 DEF Inv

\* A step that leaves the machines alone and starts none keeps their sums.
LEMMA MachinesStay ==
    ASSUME Machines, UNCHANGED <<vms, wg, scanned, vm>>,
           \A d \in Deployment : Started(d)' <=> Started(d)
    PROVE  Machines' /\ \A d \in Deployment : Unfinished(d)' = Unfinished(d)
<1>1. \A d \in Deployment : Unfinished(d)' = Unfinished(d)
  BY DEF Unfinished
<1> QED
  BY <1>1 DEF Machines

\* A step of the command, or the end of the process.
LEMMA MainStepInv ==
    ASSUME Inv, UNCHANGED work, main' \in MainPcs, session' \in BOOLEAN, dbFile' \in BOOLEAN,
           MainOrder'
    PROVE  Inv'
<1>1. UNCHANGED <<dep, vms, wg, closer, closed, scanned, account, vm, mutex, report>>
  BY DEF work, depVars
<1>2. TypeOK'
  BY <1>1 DEF Inv, TypeOK
<1>3. Machines' /\ \A d \in Deployment : Unfinished(d)' = Unfinished(d)
  BY <1>1, MachinesStay DEF Inv, Started
<1>4. InOrder'
  BY <1>1, <1>3 DEF Inv, InOrder, OrderOf, Started, Collected
<1> QED
  BY <1>2, <1>3, <1>4 DEF Inv

LEMMA ExitInv == Inv /\ Exit => Inv'
<1> SUFFICES ASSUME Inv, Exit PROVE Inv'
  OBVIOUS
<1>1. main' = "failed" /\ UNCHANGED <<session, dbFile, work>>
  BY DEF Exit
<1>2. session' \in BOOLEAN /\ dbFile' \in BOOLEAN
  BY <1>1 DEF Inv, TypeOK
<1>3. main' \in MainPcs /\ MainOrder'
  BY <1>1 DEF MainPcs, MainOrder
<1> QED
  BY <1>1, <1>2, <1>3, MainStepInv

\* A step of one deployment that moves it on and leaves its machines alone.
LEMMA DepStepInv ==
    ASSUME Inv, Alive, NEW d \in Deployment, dep[d] # "idle", NEW pc \in DepPcs,
           DepGoto(d, pc), Started(d)' <=> Started(d), UNCHANGED <<main, session, dbFile>>,
           UNCHANGED <<vms, wg, scanned, vm, closer, closed>>,
           account' \in [Deployment -> Residue], mutex' \in Deployment \cup {NoOne},
           report' \in [Deployment -> Seq(SUBSET VM)],
           \A e \in Deployment \ {d} : account'[e] = account[e] /\ report'[e] = report[e]
                                       /\ (mutex' = e <=> mutex = e),
           OrderOf(d)'
    PROVE  Inv'
<1>1. /\ dep' \in [Deployment -> DepPcs]
      /\ \A e \in Deployment \ {d} : dep'[e] = dep[e]
  BY DEF Inv, TypeOK, DepGoto
<1>2. TypeOK'
  BY <1>1 DEF Inv, TypeOK
<1>3. MainOrder'
  BY CommandWaits DEF MainOrder
<1>4. Machines' /\ \A e \in Deployment : Unfinished(e)' = Unfinished(e)
  BY <1>1, MachinesStay DEF Inv, Started
<1>5. ASSUME NEW e \in Deployment \ {d} PROVE OrderOf(e)'
  BY <1>1, <1>4, <1>5 DEF Inv, InOrder, OrderOf, Started, Collected
<1> QED
  BY <1>2, <1>3, <1>4, <1>5 DEF Inv, InOrder

\* A step of one machine within its scan, which neither begins nor ends it.
LEMMA VMStepInv ==
    ASSUME Inv, Alive, NEW m \in VM, NEW r \in VMState, VMBecomes(m, r),
           vm[m].pc \notin {"idle", "end"}, r.pc \notin {"idle", "end"}, MachineSound(r),
           (r.ok /\ r.pc \in Past) <=> (vm[m].ok /\ vm[m].pc \in Past)
    PROVE  Inv'
<1>1. /\ vm' \in [VM -> VMState] /\ vm'[m] = r
      /\ \A n \in VM \ {m} : vm'[n] = vm[n]
  BY DEF Inv, TypeOK, VMBecomes
<1>2. UNCHANGED <<main, session, dbFile, dep, vms, wg, closer, closed, scanned, account, mutex, report>>
  BY DEF VMBecomes, depVars
<1>3. TypeOK'
  BY <1>1, <1>2 DEF Inv, TypeOK
<1>4. MainOrder'
  BY <1>2 DEF Inv, MainOrder
<1>5. \A d \in Deployment : vms[d] \subseteq VM
  BY DEF Inv, TypeOK
<1>6. \A d \in Deployment : Unfinished(d)' = Unfinished(d)
  BY <1>1, <1>2, <1>5 DEF Unfinished
<1>7. Machines'
  <2>1. \A n \in VM : MachineSound(vm[n])'
    BY <1>1 DEF Inv, Machines, MachineSound
  <2>2. \A n \in VM : vm'[n].pc # "idle" <=> vm[n].pc # "idle"
    BY <1>1
  <2>3. \A n \in VM : (vm'[n].ok /\ vm'[n].pc \in Past) <=> (vm[n].ok /\ vm[n].pc \in Past)
    BY <1>1
  <2>4. \A d \in Deployment : (scanned[d] = {n \in vms[d] : vm[n].ok /\ vm[n].pc \in Past})'
    BY <1>2, <1>5, <2>3 DEF Inv, Machines
  <2> QED
    BY <1>2, <1>6, <2>1, <2>2, <2>4 DEF Inv, Machines, Started
<1>8. InOrder'
  BY <1>2, <1>6 DEF Inv, InOrder, OrderOf, Started, Collected
<1> QED
  BY <1>3, <1>4, <1>7, <1>8 DEF Inv

-----------------------------------------------------------------------------
(* The actions.                                                            *)

LEMMA MainInv == Inv /\ MainStep => Inv'
<1> SUFFICES ASSUME Inv, MainStep PROVE Inv'
  OBVIOUS
<1> USE DEF MainPcs
<1>a. main \in MainPcs /\ session \in BOOLEAN /\ dbFile \in BOOLEAN
  BY DEF Inv, TypeOK
<1>b. MainOrder
  BY DEF Inv
<1>1. CASE Exit
  BY <1>1, ExitInv
<1>2. CASE \E pc \in {"info", "uaa", "find", "create"} :
              MainGoto(pc) /\ main \in {"certificate", "info", "find"}
  <2>1. MainOrder'
    BY <1>b, <1>2 DEF MainGoto, MainOrder, work
  <2> QED
    BY <1>a, <1>2, <2>1, MainStepInv DEF MainGoto
<1>3. CASE getUAA
  <2>1. CASE main = "uaa" /\ main' = "find" /\ session' \in BOOLEAN /\ UNCHANGED <<dbFile, work>>
    <3>1. MainOrder'
      BY <1>b, <2>1 DEF MainOrder, work
    <3> QED
      BY <1>a, <2>1, <3>1, MainStepInv
  <2> QED
    BY <1>1, <1>3, <2>1 DEF getUAA
<1>4. CASE CreateDatabase
  <2>1. main = "create" /\ main' \in {"launch", "failed"} /\ dbFile' = TRUE
        /\ UNCHANGED <<session, work>>
    BY <1>4 DEF CreateDatabase
  <2>2. MainOrder'
    BY <1>b, <2>1 DEF MainOrder, work
  <2> QED
    BY <1>a, <2>1, <2>2, MainStepInv
<1>5. CASE Finish
  <2>1. MainOrder'
    BY <1>5 DEF Finish, MainGoto, MainOrder, work
  <2> QED
    BY <1>a, <1>5, <2>1, MainStepInv DEF Finish, MainGoto
<1>6. CASE Launch
  <2>1. /\ main = "launch" /\ main' = "wait" /\ dep' = [d \in Deployment |-> "list"]
        /\ UNCHANGED <<session, dbFile, vms, wg, closer, closed, scanned, account, vm, mutex, report>>
    BY <1>6 DEF Launch, depVars
  <2>2. \A d \in Deployment : dep[d] = "idle" /\ dep'[d] = "list"
    BY <1>b, <2>1 DEF MainOrder
  <2>3. TypeOK'
    BY <2>1 DEF Inv, TypeOK, DepPcs
  <2>4. MainOrder'
    BY <2>1 DEF MainOrder
  <2>5. \A d \in Deployment : Started(d)' <=> Started(d)
    BY <2>2 DEF Started
  <2>6. Machines' /\ \A d \in Deployment : Unfinished(d)' = Unfinished(d)
    BY <2>1, <2>5, MachinesStay DEF Inv
  <2>7. ASSUME NEW d \in Deployment PROVE OrderOf(d)'
    <3>1. OrderOf(d)
      BY DEF Inv, InOrder
    <3> QED
      BY <2>1, <2>2, <2>5, <2>6, <3>1 DEF OrderOf, Collected
  <2> QED
    BY <2>3, <2>4, <2>6, <2>7 DEF Inv, InOrder
<1> QED
  BY <1>1, <1>2, <1>3, <1>4, <1>5, <1>6
     DEF MainStep, GetDeployments, ReadCACert, getDirectorInfo, FindDeployments, RefuseDatabase

\* The list of machines, which Scan counts into the WaitGroup.
LEMMA ListInv == ASSUME Inv, NEW d \in Deployment, ListVMs(d) PROVE Inv'
<1>1. PICK listed \in {VMsOf[d], {}} : /\ vms' = [vms EXCEPT ![d] = listed]
                                       /\ wg' = [wg EXCEPT ![d] = Cardinality(listed)]
  BY DEF ListVMs
<1>2. /\ dep[d] = "list" /\ main \notin {"succeeded", "failed"} /\ dep' = [dep EXCEPT ![d] = "setup"]
      /\ UNCHANGED <<main, session, dbFile, closer, closed, scanned, account, vm, mutex, report>>
  BY DEF ListVMs, At, Alive, DepGoto
<1>3. listed \subseteq VM /\ listed \subseteq VMsOf[d]
  BY DeploymentAssumption
<1>4. Cardinality(listed) \in Nat
  BY <1>3, DeploymentAssumption, FS_Subset, FS_CardinalityType
<1>5. TypeOK'
  BY <1>1, <1>2, <1>3, <1>4 DEF Inv, TypeOK, DepPcs
<1>6. MainOrder'
  BY <1>2 DEF Inv, MainOrder
<1>7. OrderOf(d) /\ ~Started(d) /\ vms[d] = {}
  BY <1>2 DEF Inv, InOrder, OrderOf, Started
<1>8. /\ vms'[d] = listed /\ wg'[d] = Cardinality(listed) /\ dep'[d] = "setup"
      /\ \A e \in Deployment \ {d} : vms'[e] = vms[e] /\ wg'[e] = wg[e] /\ dep'[e] = dep[e]
  BY <1>1, <1>2 DEF Inv, TypeOK
<1>9. ASSUME NEW m \in listed PROVE vm[m].pc = "idle" /\ MachineSound(vm[m])
  <2>1. m \in VM
    BY <1>3, <1>9
  <2>2. ASSUME NEW e \in Deployment, Started(e), m \in vms[e] PROVE FALSE
    <3>1. e = d
      BY <1>3, <1>9, <2>2, OneOwner DEF Inv
    <3> QED
      BY <1>7, <2>2, <3>1
  <2> QED
    BY <2>1, <2>2 DEF Inv, Machines
<1>10. Unfinished(d)' = listed /\ \A e \in Deployment \ {d} : Unfinished(e)' = Unfinished(e)
  BY <1>2, <1>8, <1>9 DEF Unfinished
<1>11. Machines'
  <2>1. \A e \in Deployment : Started(e)' <=> Started(e)
    BY <1>7, <1>8 DEF Started
  <2>2. \A m \in VM : vm[m].pc # "idle" <=>
                         \E e \in Deployment : Started(e)' /\ m \in vms'[e]
    BY <1>7, <1>8, <2>1 DEF Inv, Machines
  <2>3. \A e \in Deployment : wg'[e] = Cardinality(Unfinished(e)')
    BY <1>8, <1>10 DEF Inv, Machines
  <2>4. \A e \in Deployment : scanned[e] = {m \in vms'[e] : vm[m].ok /\ vm[m].pc \in Past}
    <3>1. scanned[d] = {}
      BY <1>7 DEF Inv, Machines
    <3>2. {m \in listed : vm[m].ok /\ vm[m].pc \in Past} = {}
      BY <1>9 DEF Past
    <3> QED
      BY <1>8, <3>1, <3>2 DEF Inv, Machines
  <2>5. \A m \in VM : MachineSound(vm[m])
    BY DEF Inv, Machines
  <2> QED
    BY <1>2, <2>2, <2>3, <2>4, <2>5 DEF Machines
<1>12. ASSUME NEW e \in Deployment PROVE OrderOf(e)'
  <2>1. CASE e = d
    BY <1>2, <1>7, <1>8, <2>1 DEF OrderOf, Started, Collected
  <2>2. CASE e # d
    BY <1>2, <1>8, <1>10, <2>2 DEF Inv, InOrder, OrderOf, Started, Collected
  <2> QED
    BY <2>1, <2>2
<1> QED
  BY <1>5, <1>6, <1>11, <1>12 DEF Inv, InOrder

\* The account is set up and the goroutines of the machines are started.
LEMMA SetupInv == ASSUME Inv, NEW d \in Deployment, Setup(d) PROVE Inv'
<1>1. /\ dep[d] = "setup" /\ main \notin {"succeeded", "failed"}
      /\ dep' = [dep EXCEPT ![d] = "collect"]
      /\ account' = [account EXCEPT ![d] = "present"]
      /\ vm' = [m \in VM |-> IF m \in vms[d] THEN [vm[m] EXCEPT !.pc = "connect"] ELSE vm[m]]
      /\ closer' = [closer EXCEPT ![d] = "wait"]
      /\ UNCHANGED <<main, session, dbFile, vms, wg, closed, scanned, mutex, report>>
  BY DEF Setup, At, Alive, DepGoto
<1>2. /\ dep'[d] = "collect" /\ account'[d] = "present" /\ closer'[d] = "wait"
      /\ \A e \in Deployment \ {d} : /\ dep'[e] = dep[e] /\ account'[e] = account[e]
                                     /\ closer'[e] = closer[e]
  BY <1>1 DEF Inv, TypeOK
<1>3. OrderOf(d) /\ ~Started(d) /\ vms[d] \subseteq VM
  BY <1>1 DEF Inv, InOrder, Started, TypeOK
<1>4. ASSUME NEW m \in vms[d] PROVE vm[m].pc = "idle" /\ MachineSound(vm[m]) /\ vm[m] \in VMState
  <2>1. m \in VM
    BY <1>3, <1>4
  <2>2. ASSUME NEW e \in Deployment, Started(e), m \in vms[e] PROVE FALSE
    <3>1. e = d
      BY <1>4, <2>2, OneOwner DEF Inv
    <3> QED
      BY <1>3, <2>2, <3>1
  <2> QED
    BY <2>1, <2>2 DEF Inv, Machines, TypeOK
<1>5. /\ \A m \in vms[d] : vm'[m] = [vm[m] EXCEPT !.pc = "connect"]
      /\ \A m \in VM \ vms[d] : vm'[m] = vm[m]
  BY <1>1, <1>3
<1>6. ASSUME NEW m \in vms[d]
      PROVE  /\ vm'[m] \in VMState /\ MachineSound(vm'[m])
             /\ vm'[m].pc = "connect" /\ ~vm[m].ok /\ ~vm'[m].ok
  <2>1. vm'[m] \in VMState /\ vm'[m].pc = "connect" /\ vm'[m].ok = vm[m].ok
    BY <1>4, <1>5 DEF VMState
  <2>2. /\ vm'[m].temp = vm[m].temp /\ vm'[m].remote = vm[m].remote /\ vm'[m].conn = vm[m].conn
    BY <1>4, <1>5 DEF VMState
  <2>3. vm[m].pc = "idle" /\ MachineSound(vm[m])
    BY <1>4
  <2> QED
    BY <2>1, <2>2, <2>3 DEF MachineSound, Past
<1>7. TypeOK'
  <2>1. vm' \in [VM -> VMState]
    BY <1>1, <1>5, <1>6 DEF Inv, TypeOK
  <2> QED
    BY <1>1, <2>1 DEF Inv, TypeOK, DepPcs, Residue
<1>8. MainOrder'
  BY <1>1 DEF Inv, MainOrder
<1>9. \A m \in VM : m \notin vms[d] => vm'[m] = vm[m]
  BY <1>5
<1>10. \A e \in Deployment : Unfinished(e)' = Unfinished(e)
  <2>1. Unfinished(d)' = Unfinished(d)
    BY <1>1, <1>4, <1>6 DEF Unfinished
  <2>2. ASSUME NEW e \in Deployment, e # d PROVE Unfinished(e)' = Unfinished(e)
    <3>1. \A m \in vms[e] : vm'[m] = vm[m]
      BY <1>9, <2>2, OneOwner DEF Inv
    <3> QED
      BY <1>1, <3>1 DEF Unfinished
  <2> QED
    BY <2>1, <2>2
<1>11. Machines'
  <2>1. \A m \in VM : MachineSound(vm'[m])
    BY <1>6, <1>9 DEF Inv, Machines
  <2>2. ASSUME NEW m \in VM
        PROVE  vm'[m].pc # "idle" <=> \E e \in Deployment : Started(e)' /\ m \in vms[e]
    <3>1. CASE m \in vms[d]
      BY <1>2, <1>6, <3>1 DEF Started
    <3>2. CASE m \notin vms[d]
      BY <1>2, <1>9, <3>2 DEF Inv, Machines, Started
    <3> QED
      BY <3>1, <3>2
  <2>3. \A e \in Deployment : scanned[e] = {m \in vms[e] : vm'[m].ok /\ vm'[m].pc \in Past}
    <3>1. \A m \in VM : (vm'[m].ok /\ vm'[m].pc \in Past) <=> (vm[m].ok /\ vm[m].pc \in Past)
      BY <1>6, <1>9
    <3>2. \A e \in Deployment : vms[e] \subseteq VM
      BY DEF Inv, TypeOK
    <3> QED
      BY <3>1, <3>2 DEF Inv, Machines
  <2> QED
    BY <1>1, <1>10, <2>1, <2>2, <2>3 DEF Inv, Machines
<1>12. ASSUME NEW e \in Deployment PROVE OrderOf(e)'
  <2>1. CASE e = d
    BY <1>1, <1>2, <1>3, <1>10, <2>1 DEF OrderOf, Started, Collected
  <2>2. CASE e # d
    BY <1>1, <1>2, <1>10, <2>2 DEF Inv, InOrder, OrderOf, Started, Collected
  <2> QED
    BY <2>1, <2>2
<1> QED
  BY <1>7, <1>8, <1>11, <1>12 DEF Inv, InOrder

\* A machine that sends its host is received by its own deployment.
LEMMA ReceiveInv ==
    ASSUME Inv, NEW d \in Deployment, NEW m \in VM, Receive(d, m)
    PROVE  Inv'
<1>1. /\ dep[d] = "collect" /\ m \in vms[d] /\ vm[m].pc = "send"
      /\ scanned' = [scanned EXCEPT ![d] = @ \cup {m}]
      /\ vm' = [vm EXCEPT ![m] = [vm[m] EXCEPT !.pc = "close"]]
      /\ UNCHANGED <<main, session, dbFile, dep, vms, wg, closer, closed, account, mutex, report>>
  BY DEF Receive, At
<1> DEFINE r == [vm[m] EXCEPT !.pc = "close"]
<1>2. vm[m] \in VMState /\ MachineSound(vm[m])
  BY DEF Inv, TypeOK, Machines
<1>3. r \in VMState /\ r.pc = "close" /\ r.ok = vm[m].ok /\ r.temp = vm[m].temp
      /\ r.remote = vm[m].remote
  BY <1>2 DEF VMState
<1>4. MachineSound(r) /\ r.ok
  BY <1>1, <1>2, <1>3 DEF MachineSound, Past
<1>5. vm' = [vm EXCEPT ![m] = r]
  BY <1>1
<1> HIDE DEF r
<1>6. vm'[m] = r /\ \A n \in VM \ {m} : vm'[n] = vm[n]
  BY <1>5 DEF Inv, TypeOK
<1>7. scanned'[d] = scanned[d] \cup {m} /\ \A e \in Deployment \ {d} : scanned'[e] = scanned[e]
  BY <1>1 DEF Inv, TypeOK
<1>8. TypeOK'
  BY <1>1, <1>3, <1>5 DEF Inv, TypeOK
<1>9. MainOrder'
  BY <1>1 DEF Inv, MainOrder
<1>10. \A e \in Deployment : vms[e] \subseteq VM
  BY DEF Inv, TypeOK
<1>11. \A e \in Deployment : Unfinished(e)' = Unfinished(e)
  BY <1>1, <1>3, <1>6, <1>10 DEF Unfinished
<1>12. Machines'
  <2>1. \A n \in VM : MachineSound(vm'[n])
    BY <1>4, <1>6 DEF Inv, Machines
  <2>2. \A n \in VM : vm'[n].pc # "idle" <=> vm[n].pc # "idle"
    BY <1>1, <1>3, <1>6
  <2>3. scanned'[d] = {n \in vms[d] : vm'[n].ok /\ vm'[n].pc \in Past}
    <3>1. \A n \in vms[d] : n # m => vm'[n] = vm[n]
      BY <1>6, <1>10
    <3>2. vm'[m].ok /\ vm'[m].pc \in Past
      BY <1>3, <1>4, <1>6 DEF Past
    <3> QED
      BY <1>1, <1>7, <3>1, <3>2 DEF Inv, Machines
  <2>4. ASSUME NEW e \in Deployment, e # d
        PROVE  scanned'[e] = {n \in vms[e] : vm'[n].ok /\ vm'[n].pc \in Past}
    <3>1. \A n \in vms[e] : vm'[n] = vm[n]
      BY <1>1, <1>6, <1>10, <2>4, OneOwner DEF Inv
    <3> QED
      BY <1>7, <2>4, <3>1 DEF Inv, Machines
  <2> QED
    BY <1>1, <1>11, <2>1, <2>2, <2>3, <2>4 DEF Inv, Machines, Started
<1>13. ASSUME NEW e \in Deployment PROVE OrderOf(e)'
  BY <1>1, <1>7, <1>11 DEF Inv, InOrder, OrderOf, Started, Collected
<1> QED
  BY <1>8, <1>9, <1>12, <1>13 DEF Inv, InOrder

\* From the end of collecting to the end of the goroutine.
LEMMA SavingInv ==
    ASSUME Inv, NEW d \in Deployment,
           CollectEnds(d) \/ Cleanup(d) \/ Lock(d) \/ SaveReport(d) \/ Unlock(d)
    PROVE  Inv'
<1> USE DEF At, DepGoto
<1>a. /\ dep \in [Deployment -> DepPcs] /\ account \in [Deployment -> Residue]
      /\ report \in [Deployment -> Seq(SUBSET VM)] /\ scanned[d] \in SUBSET VM
      /\ mutex \in Deployment \cup {NoOne} /\ NoOne \notin Deployment
  BY DeploymentAssumption DEF Inv, TypeOK
<1>b. OrderOf(d) /\ Alive
  BY DEF Inv, InOrder, CollectEnds, Cleanup, Lock, SaveReport, Unlock
<1>c. \A e \in Deployment : dep[e] \in {"save", "unlock"} <=> mutex = e
  BY DEF Inv, InOrder, OrderOf
<1>1. CASE CollectEnds(d)
  <2>1. /\ dep[d] = "collect" /\ closed[d] /\ dep' = [dep EXCEPT ![d] = "cleanup"]
        /\ UNCHANGED <<main, session, dbFile, vms, wg, closer, closed, scanned, account, vm, mutex, report>>
    BY <1>1 DEF CollectEnds, depVars
  <2>2. dep'[d] = "cleanup" /\ Unfinished(d)' = Unfinished(d)
    BY <1>a, <2>1 DEF Unfinished
  <2>3. OrderOf(d)'
    BY <1>b, <2>1, <2>2 DEF OrderOf, Started, Collected
  <2> QED
    BY <1>a, <1>b, <2>1, <2>2, <2>3, DepStepInv DEF Started, DepPcs
<1>2. CASE Cleanup(d)
  <2>1. /\ dep[d] = "cleanup" /\ dep' = [dep EXCEPT ![d] = "lock"]
        /\ account' = [account EXCEPT ![d] = "tried"]
        /\ UNCHANGED <<main, session, dbFile, vms, wg, closer, closed, scanned, vm, mutex, report>>
    BY <1>2 DEF Cleanup
  <2>2. dep'[d] = "lock" /\ Unfinished(d)' = Unfinished(d) /\ account'[d] = "tried"
    BY <1>a, <2>1 DEF Unfinished
  <2>3. OrderOf(d)'
    BY <1>b, <2>1, <2>2 DEF OrderOf, Started, Collected
  <2>4. account' \in [Deployment -> Residue]
        /\ \A e \in Deployment \ {d} : account'[e] = account[e]
    BY <1>a, <2>1 DEF Residue
  <2> QED
    BY <1>a, <1>b, <2>1, <2>2, <2>3, <2>4, DepStepInv DEF Started, DepPcs
<1>3. CASE Lock(d)
  <2>1. /\ dep[d] = "lock" /\ dep' = [dep EXCEPT ![d] = "save"] /\ mutex = NoOne /\ mutex' = d
        /\ UNCHANGED <<main, session, dbFile, vms, wg, closer, closed, scanned, account, vm, report>>
    BY <1>3 DEF Lock, depVars
  <2>2. dep'[d] = "save" /\ Unfinished(d)' = Unfinished(d)
    BY <1>a, <2>1 DEF Unfinished
  <2>3. OrderOf(d)'
    BY <1>b, <2>1, <2>2 DEF OrderOf, Started, Collected
  <2>4. \A e \in Deployment \ {d} : mutex' = e <=> mutex = e
    BY <1>a, <2>1
  <2> QED
    BY <1>a, <1>b, <2>1, <2>2, <2>3, <2>4, DepStepInv DEF Started, DepPcs
<1>4. CASE SaveReport(d)
  <2>1. /\ dep[d] = "save" /\ dep' = [dep EXCEPT ![d] = "unlock"]
        /\ report' = [report EXCEPT ![d] = Append(report[d], scanned[d])]
        /\ UNCHANGED <<main, session, dbFile, vms, wg, closer, closed, scanned, account, vm, mutex>>
    BY <1>4 DEF SaveReport, depVars
  <2>2. dep'[d] = "unlock" /\ Unfinished(d)' = Unfinished(d)
    BY <1>a, <2>1 DEF Unfinished
  <2>3. report[d] = <<>>
    BY <1>b, <2>1 DEF OrderOf
  <2>4. Append(<<>>, scanned[d]) = <<scanned[d]>>
    OBVIOUS
  <2>5. report' \in [Deployment -> Seq(SUBSET VM)] /\ report'[d] = <<scanned[d]>>
        /\ \A e \in Deployment \ {d} : report'[e] = report[e]
    BY <1>a, <2>1, <2>3, <2>4
  <2>6. OrderOf(d)'
    BY <1>b, <2>1, <2>2, <2>5 DEF OrderOf, Started, Collected
  <2> QED
    BY <1>a, <1>b, <2>1, <2>2, <2>5, <2>6, DepStepInv DEF Started, DepPcs
<1>5. CASE Unlock(d)
  <2>1. /\ dep[d] = "unlock" /\ dep' = [dep EXCEPT ![d] = "end"] /\ mutex' = NoOne
        /\ UNCHANGED <<main, session, dbFile, vms, wg, closer, closed, scanned, account, vm, report>>
    BY <1>5 DEF Unlock, depVars
  <2>2. dep'[d] = "end" /\ Unfinished(d)' = Unfinished(d) /\ mutex = d
    BY <1>a, <1>c, <2>1 DEF Unfinished
  <2>3. OrderOf(d)'
    BY <1>a, <1>b, <2>1, <2>2 DEF OrderOf, Started, Collected
  <2>4. \A e \in Deployment \ {d} : mutex' = e <=> mutex = e
    BY <1>a, <2>1, <2>2
  <2> QED
    BY <1>a, <1>b, <2>1, <2>2, <2>3, <2>4, DepStepInv DEF Started, DepPcs
<1> QED
  BY <1>1, <1>2, <1>3, <1>4, <1>5

\* The goroutine that waits for the machines and closes hosts.
LEMMA CloserInv == ASSUME Inv, NEW d \in Deployment, CloserStep(d) PROVE Inv'
<1>1. UNCHANGED <<main, session, dbFile, dep, vms, wg, scanned, account, vm, mutex, report>>
  BY DEF CloserStep, CloserWaits, CloseHosts
<1>2. Machines' /\ \A e \in Deployment : Unfinished(e)' = Unfinished(e)
  BY <1>1, MachinesStay DEF Inv, Started
<1>3. MainOrder'
  BY <1>1 DEF Inv, MainOrder
<1>4. /\ closer \in [Deployment -> {"off", "wait", "close", "end"}]
      /\ closed \in [Deployment -> BOOLEAN] /\ OrderOf(d)
  BY DEF Inv, TypeOK, InOrder
<1>5. CASE CloserWaits(d)
  <2>1. /\ closer[d] = "wait" /\ wg[d] = 0 /\ closer' = [closer EXCEPT ![d] = "close"]
        /\ closed' = closed
    BY <1>5 DEF CloserWaits
  <2>2. Unfinished(d) = {}
    BY <2>1, UnfinishedFinite, FS_EmptySet DEF Inv, Machines
  <2>3. closer'[d] = "close" /\ \A e \in Deployment \ {d} : closer'[e] = closer[e]
    BY <1>4, <2>1
  <2>4. TypeOK'
    BY <1>1, <1>4, <2>1 DEF Inv, TypeOK
  <2>5. OrderOf(d)'
    BY <1>1, <1>2, <1>4, <2>1, <2>2, <2>3 DEF OrderOf, Started, Collected
  <2>6. \A e \in Deployment \ {d} : OrderOf(e)'
    BY <1>1, <1>2, <2>1, <2>3 DEF Inv, InOrder, OrderOf, Started, Collected
  <2> QED
    BY <1>2, <1>3, <2>4, <2>5, <2>6 DEF Inv, InOrder
<1>6. CASE CloseHosts(d)
  <2>1. /\ closer[d] = "close" /\ closer' = [closer EXCEPT ![d] = "end"]
        /\ closed' = [closed EXCEPT ![d] = TRUE]
    BY <1>6 DEF CloseHosts
  <2>2. /\ closer'[d] = "end" /\ closed'[d] = TRUE
        /\ \A e \in Deployment \ {d} : closer'[e] = closer[e] /\ closed'[e] = closed[e]
    BY <1>4, <2>1
  <2>3. TypeOK'
    BY <1>1, <1>4, <2>1 DEF Inv, TypeOK
  <2>4. OrderOf(d)'
    BY <1>1, <1>2, <1>4, <2>1, <2>2 DEF OrderOf, Started, Collected
  <2>5. \A e \in Deployment \ {d} : OrderOf(e)'
    BY <1>1, <1>2, <2>2 DEF Inv, InOrder, OrderOf, Started, Collected
  <2> QED
    BY <1>2, <1>3, <2>3, <2>4, <2>5 DEF Inv, InOrder
<1> QED
  BY <1>5, <1>6 DEF CloserStep

\* The scan of one machine up to wg.Done.
LEMMA AnswerInv ==
    ASSUME Inv, NEW m \in VM,
           \/ ConnectTo(m) \/ WriteTempFile(m) \/ Upload(m) \/ UploadFails(m) \/ RunCommand(m)
           \/ DeleteFile(m) \/ RemoveTempFile(m) \/ Close(m) \/ Hang(m)
    PROVE  Inv'
<1> DEFINE r == vm[m]
<1>a. r \in VMState /\ MachineSound(r)
  BY DEF Inv, TypeOK, Machines
<1> USE DEF VMAt
<1>1. CASE ConnectTo(m)
  <2>1. CASE VMGoto(m, "temp")
    <3> DEFINE q == [r EXCEPT !.pc = "temp"]
    <3>1. q \in VMState /\ MachineSound(q) /\ q.pc = "temp" /\ r.pc = "connect"
      BY <1>a, <1>1 DEF VMState, MachineSound, Past, ConnectTo
    <3> QED
      BY <1>1, <2>1, <3>1, VMStepInv DEF ConnectTo, VMGoto, Past
  <2> QED
    BY <1>1, <2>1, ExitInv DEF ConnectTo
<1>2. CASE WriteTempFile(m)
  <2>1. PICK pc \in {"upload", "close"}, t \in Residue :
           /\ VMBecomes(m, [r EXCEPT !.pc = pc, !.temp = t])
           /\ pc = "close" => t # "present"
    <3>1. PICK x \in {<<"upload", "present">>, <<"close", "none">>, <<"close", "left">>} :
             VMBecomes(m, [r EXCEPT !.pc = x[1], !.temp = x[2]])
      BY <1>2 DEF WriteTempFile
    <3>2. x[1] \in {"upload", "close"} /\ x[2] \in Residue /\ (x[1] = "close" => x[2] # "present")
      BY DEF Residue
    <3> USE <3>2
    <3> WITNESS x[1] \in {"upload", "close"}, x[2] \in Residue
    <3> QED
      BY <3>1, <3>2
  <2> DEFINE q == [r EXCEPT !.pc = pc, !.temp = t]
  <2>2. q \in VMState /\ q.pc = pc /\ q.temp = t /\ q.ok = r.ok /\ q.remote = r.remote
        /\ q.conn = r.conn /\ r.pc = "temp"
    BY <1>a, <1>2 DEF VMState, WriteTempFile
  <2>3. MachineSound(q) /\ ~q.ok /\ ~r.ok
    BY <1>a, <2>1, <2>2 DEF MachineSound, Past, Residue
  <2>4. Alive
    BY <1>2 DEF WriteTempFile
  <2> HIDE DEF q
  <2>5. VMBecomes(m, q)
    BY <2>1 DEF q
  <2> QED
    BY <2>2, <2>3, <2>4, <2>5, VMStepInv
<1>3. CASE Upload(m)
  <2> DEFINE q == [r EXCEPT !.pc = "run", !.remote = "present", !.conn = TRUE]
  <2>1. q \in VMState /\ MachineSound(q) /\ q.pc = "run" /\ r.pc = "upload"
    BY <1>a, <1>3 DEF VMState, Residue, MachineSound, Past, Upload
  <2> QED
    BY <1>3, <2>1, VMStepInv DEF Upload, Past
<1>4. CASE UploadFails(m)
  <2>1. PICK c \in BOOLEAN : VMBecomes(m, [r EXCEPT !.pc = "remove", !.conn = c])
    BY <1>4 DEF UploadFails
  <2> DEFINE q == [r EXCEPT !.pc = "remove", !.conn = c]
  <2>2. q \in VMState /\ MachineSound(q) /\ q.pc = "remove" /\ r.pc = "upload"
    BY <1>a, <1>4 DEF VMState, Residue, MachineSound, Past, UploadFails
  <2> QED
    BY <1>4, <2>1, <2>2, VMStepInv DEF UploadFails, Past
<1>5. CASE RunCommand(m)
  <2>1. PICK ok \in BOOLEAN : VMBecomes(m, [r EXCEPT !.pc = "delete", !.ok = ok])
    BY <1>5 DEF RunCommand
  <2> DEFINE q == [r EXCEPT !.pc = "delete", !.ok = ok]
  <2>2. q \in VMState /\ MachineSound(q) /\ q.pc = "delete" /\ r.pc = "run"
    BY <1>a, <1>5 DEF VMState, Residue, MachineSound, Past, RunCommand
  <2> QED
    BY <1>5, <2>1, <2>2, VMStepInv DEF RunCommand, Past
<1>6. CASE DeleteFile(m)
  <2> DEFINE q == [r EXCEPT !.pc = "remove", !.remote = "tried"]
  <2>1. q \in VMState /\ MachineSound(q) /\ q.pc = "remove" /\ r.pc = "delete"
    BY <1>a, <1>6 DEF VMState, Residue, MachineSound, Past, DeleteFile
  <2> QED
    BY <1>6, <2>1, VMStepInv DEF DeleteFile, Past
<1>7. CASE RemoveTempFile(m)
  <2>1. PICK pc \in {"send", "close"} :
           /\ VMBecomes(m, [r EXCEPT !.pc = pc, !.temp = "tried"])
           /\ pc = "send" <=> r.ok
    BY <1>7 DEF RemoveTempFile
  <2> DEFINE q == [r EXCEPT !.pc = pc, !.temp = "tried"]
  <2>2. q \in VMState /\ q.pc = pc /\ q.temp = "tried" /\ q.ok = r.ok /\ q.remote = r.remote
        /\ r.pc = "remove"
    BY <1>a, <1>7 DEF VMState, Residue, RemoveTempFile
  <2>3. MachineSound(q)
    BY <1>a, <2>1, <2>2 DEF MachineSound, Past
  <2> QED
    BY <1>7, <2>1, <2>2, <2>3, VMStepInv DEF RemoveTempFile, Past
<1>8. CASE Close(m)
  <2> DEFINE q == [r EXCEPT !.pc = "done", !.conn = FALSE]
  <2>1. q \in VMState /\ MachineSound(q) /\ q.pc = "done" /\ r.pc = "close" /\ q.ok = r.ok
    BY <1>a, <1>8 DEF VMState, MachineSound, Past, Close
  <2> QED
    BY <1>8, <2>1, VMStepInv DEF Close, Past
<1>9. CASE Hang(m)
  <2> DEFINE q == [r EXCEPT !.pc = "hung"]
  <2>1. q \in VMState /\ MachineSound(q) /\ q.pc = "hung" /\ r.pc \in {"upload", "run", "delete"}
    BY <1>a, <1>9 DEF VMState, MachineSound, Past, Hang
  <2> QED
    BY <1>9, <2>1, VMStepInv DEF Hang, VMGoto, Past
<1> QED
  BY <1>1, <1>2, <1>3, <1>4, <1>5, <1>6, <1>7, <1>8, <1>9

\* wg.Done: the machine has ended and is no longer counted.
LEMMA DoneInv == ASSUME Inv, NEW m \in VM, Done(m) PROVE Inv'
<1>1. /\ vm[m].pc = "done" /\ main \notin {"succeeded", "failed"}
      /\ vm' = [vm EXCEPT ![m] = [vm[m] EXCEPT !.pc = "end"]]
      /\ wg' = [d \in Deployment |-> IF m \in VMsOf[d] THEN wg[d] - 1 ELSE wg[d]]
      /\ UNCHANGED <<main, session, dbFile, dep, vms, closer, closed, scanned, account, mutex, report>>
  BY DEF Done, VMAt, Alive
<1>2. PICK d \in Deployment :
         /\ m \in vms[d] /\ m \in Unfinished(d) /\ wg[d] > 0
         /\ dep[d] = "collect" /\ closer[d] = "wait"
  BY <1>1, ScanningVM
<1> DEFINE r == [vm[m] EXCEPT !.pc = "end"]
<1>3. vm[m] \in VMState /\ MachineSound(vm[m])
  BY DEF Inv, TypeOK, Machines
<1>4. r \in VMState /\ r.pc = "end" /\ r.ok = vm[m].ok /\ r.temp = vm[m].temp
      /\ r.remote = vm[m].remote /\ r.conn = vm[m].conn
  BY <1>3 DEF VMState
<1>5. MachineSound(r)
  BY <1>1, <1>3, <1>4 DEF MachineSound, Past
<1>6. vm' = [vm EXCEPT ![m] = r]
  BY <1>1
<1> HIDE DEF r
<1>7. vm'[m] = r /\ \A n \in VM \ {m} : vm'[n] = vm[n]
  BY <1>6 DEF Inv, TypeOK
<1>8. /\ wg'[d] = wg[d] - 1 /\ \A e \in Deployment \ {d} : wg'[e] = wg[e]
      /\ wg \in [Deployment -> Nat] /\ wg' \in [Deployment -> Nat]
  <2>1. wg \in [Deployment -> Nat] /\ wg[d] - 1 \in Nat
    BY <1>2 DEF Inv, TypeOK
  <2>2. m \in VMsOf[d] /\ \A e \in Deployment \ {d} : m \notin VMsOf[e]
    BY <1>2, OneOwner DEF Inv
  <2>3. \A e \in Deployment : wg'[e] = IF e = d THEN wg[d] - 1 ELSE wg[e]
    BY <1>1, <2>2
  <2> QED
    BY <1>1, <2>1, <2>3
<1>9. TypeOK'
  <2>1. vm' \in [VM -> VMState]
    BY <1>4, <1>6 DEF Inv, TypeOK
  <2>2. UNCHANGED <<main, session, dbFile, dep, vms, closer, closed, scanned, account, mutex, report>>
    BY <1>1
  <2> QED
    BY <1>8, <2>1, <2>2 DEF Inv, TypeOK
<1>10. MainOrder'
  BY <1>1 DEF Inv, MainOrder
<1>11. \A e \in Deployment : vms[e] \subseteq VM
  BY DEF Inv, TypeOK
<1>12. /\ Unfinished(d)' = Unfinished(d) \ {m}
       /\ \A e \in Deployment \ {d} : Unfinished(e)' = Unfinished(e)
  <2>1. Unfinished(d)' = Unfinished(d) \ {m}
    BY <1>1, <1>4, <1>7, <1>11 DEF Unfinished
  <2>2. ASSUME NEW e \in Deployment \ {d} PROVE Unfinished(e)' = Unfinished(e)
    <3>1. \A n \in vms[e] : vm'[n] = vm[n]
      BY <1>2, <1>7, <1>11, OneOwner DEF Inv
    <3> QED
      BY <1>1, <3>1 DEF Unfinished
  <2> QED
    BY <2>1, <2>2
<1>13. Machines'
  <2>1. \A n \in VM : MachineSound(vm'[n])
    BY <1>5, <1>7 DEF Inv, Machines
  <2>2. \A n \in VM : vm'[n].pc # "idle" <=> vm[n].pc # "idle"
    BY <1>1, <1>4, <1>7
  <2>3. \A e \in Deployment : wg'[e] = Cardinality(Unfinished(e)')
    BY <1>2, <1>8, <1>12, UnfinishedFinite DEF Inv, Machines
  <2>4. \A e \in Deployment : scanned[e] = {n \in vms[e] : vm'[n].ok /\ vm'[n].pc \in Past}
    <3>1. \A n \in VM : (vm'[n].ok /\ vm'[n].pc \in Past) <=> (vm[n].ok /\ vm[n].pc \in Past)
      BY <1>1, <1>4, <1>7 DEF Past
    <3> QED
      BY <1>11, <3>1 DEF Inv, Machines
  <2> QED
    BY <1>1, <2>1, <2>2, <2>3, <2>4 DEF Inv, Machines, Started
<1>14. ASSUME NEW e \in Deployment PROVE OrderOf(e)'
  <2>1. CASE e = d
    BY <1>1, <1>2, <1>12, <2>1 DEF Inv, InOrder, OrderOf, Started, Collected
  <2>2. CASE e # d
    BY <1>1, <1>12, <2>2 DEF Inv, InOrder, OrderOf, Started, Collected
  <2> QED
    BY <2>1, <2>2
<1> QED
  BY <1>9, <1>10, <1>13, <1>14 DEF Inv, InOrder

LEMMA NextInv == Inv /\ [Next]_vars => Inv'
<1> SUFFICES ASSUME Inv, [Next]_vars PROVE Inv'
  OBVIOUS
<1>1. ASSUME NEW d \in Deployment, DepStep(d) PROVE Inv'
  <2>1. CASE ListVMsPanics(d) \/ SetupFails(d) \/ SaveFails(d)
    BY <2>1, ExitInv DEF ListVMsPanics, SetupFails, SaveFails
  <2> QED
    BY <1>1, <2>1, ListInv, SetupInv, ReceiveInv, SavingInv DEF DepStep
<1>2. ASSUME NEW m \in VM, VMStep(m) PROVE Inv'
  BY <1>2, AnswerInv, DoneInv DEF VMStep, Answer
<1>3. CASE UNCHANGED vars
  <2>1. UNCHANGED <<main, session, dbFile, work>>
    BY <1>3 DEF vars
  <2>2. MainOrder' /\ main' \in MainPcs /\ session' \in BOOLEAN /\ dbFile' \in BOOLEAN
    BY <2>1 DEF Inv, TypeOK, MainOrder, work
  <2> QED
    BY <2>1, <2>2, MainStepInv
<1> QED
  BY <1>1, <1>2, <1>3, MainInv, CloserInv DEF Next, Terminated

LEMMA Invariant == Spec => []Inv
<1> QED
  BY InitInv, NextInv, PTL DEF Spec

-----------------------------------------------------------------------------
(* The properties.                                                         *)

\* For every set of deployments and machines the variables keep their types.
THEOREM TypeCorrect == Spec => []TypeOK
<1>1. Inv => TypeOK
  BY DEF Inv
<1> QED
  BY <1>1, Invariant, PTL

\* However many deployments and machines there are: no machine sends its host on
\* a closed channel, hosts is closed once, and no WaitGroup goes below zero.
THEOREM NeverPanics == Spec => []NoPanic
<1>1. Inv => NoPanic
  <2> SUFFICES ASSUME Inv PROVE NoPanic
    OBVIOUS
  <2>1. ASSUME NEW d \in Deployment, NEW m \in vms[d], vm[m].pc \in {"send", "done"}
        PROVE  ~closed[d] /\ wg[d] > 0
    <3>1. m \in VM
      BY DEF Inv, TypeOK
    <3>2. PICK e \in Deployment : m \in vms[e] /\ wg[e] > 0 /\ ~closed[e]
      BY <2>1, <3>1, ScanningVM
    <3>3. e = d
      BY <2>1, <3>2, OneOwner DEF Inv
    <3> QED
      BY <3>2, <3>3
  <2>2. \A d \in Deployment : closer[d] = "close" => ~closed[d]
    BY DEF Inv, InOrder, OrderOf
  <2> QED
    BY <2>1, <2>2 DEF NoPanic
<1> QED
  BY <1>1, Invariant, PTL

\* No account is removed, of whatever deployment, while one of its machines is
\* still logged in with it.
THEOREM AccountsOutliveSessions == Spec => []SessionsUnderAccount
<1>1. Inv => SessionsUnderAccount
  <2> SUFFICES ASSUME Inv, NEW d \in Deployment, NEW m \in vms[d],
                      vm[m].conn \/ vm[m].pc \notin {"idle", "done", "end"}
               PROVE  account[d] = "present"
    BY DEF SessionsUnderAccount
  <2>1. m \in VM
    BY DEF Inv, TypeOK
  <2>2. vm[m].pc \notin {"idle", "end"}
    BY <2>1 DEF Inv, Machines, MachineSound
  <2>3. PICK e \in Deployment : m \in vms[e] /\ account[e] = "present"
    BY <2>1, <2>2, ScanningVM
  <2>4. e = d
    BY <2>3, OneOwner DEF Inv
  <2> QED
    BY <2>3, <2>4
<1> QED
  BY <1>1, Invariant, PTL

\* A deployment whose report is saved: all its machines have ended, and what was
\* collected is what succeeded.
LEMMA SavedIsCollected ==
    ASSUME Inv, NEW d \in Deployment, Collected(d)
    PROVE  /\ \A m \in vms[d] : vm[m].pc = "end"
           /\ scanned[d] = {m \in vms[d] : vm[m].ok}
<1>1. Unfinished(d) = {}
  BY DEF Inv, InOrder, OrderOf
<1>2. \A m \in vms[d] : vm[m].pc = "end"
  BY <1>1 DEF Unfinished
<1>3. scanned[d] = {m \in vms[d] : vm[m].ok}
  BY <1>2 DEF Inv, Machines, Past
<1> QED
  BY <1>2, <1>3

\* Every saved report lists the machines whose scan succeeded, and those only,
\* for every number of machines and every way in which some of them fail.
THEOREM ReportsAreTrue == Spec => []ReportIsScan
<1>1. Inv => ReportIsScan
  <2> SUFFICES ASSUME Inv, NEW d \in Deployment, report[d] # <<>>
               PROVE  /\ report[d] = <<{m \in vms[d] : vm[m].ok}>>
                      /\ \A m \in vms[d] : vm[m].pc = "end"
    BY DEF ReportIsScan
  <2>1. report[d] = <<scanned[d]>> /\ dep[d] \in {"unlock", "end"}
    BY DEF Inv, InOrder, OrderOf
  <2> QED
    BY <2>1, SavedIsCollected DEF Collected
<1> QED
  BY <1>1, Invariant, PTL

\* When the command succeeds, the removal of every account, every uploaded scanner
\* and every temporary file was tried, but of files whose writing failed, and no
\* connection is open.
THEOREM CleansUp == Spec => []NothingForgotten
<1>1. Inv => NothingForgotten
  <2> SUFFICES ASSUME Inv, main = "succeeded"
               PROVE  /\ \A d \in Deployment : account[d] = "tried"
                      /\ \A m \in VM : /\ ~vm[m].conn /\ vm[m].remote \in {"none", "tried"}
                                       /\ vm[m].temp \in {"none", "tried"} \/ (vm[m].temp = "left" /\ ~vm[m].ok)
    BY DEF NothingForgotten
  <2>1. \A d \in Deployment : dep[d] = "end"
    BY DEF Inv, MainOrder
  <2>2. \A d \in Deployment : account[d] = "tried"
    BY <2>1 DEF Inv, InOrder, OrderOf, Collected
  <2>3. ASSUME NEW m \in VM PROVE vm[m].pc \in {"idle", "end"}
    <3>1. ASSUME vm[m].pc # "idle" PROVE vm[m].pc = "end"
      <4>1. PICK d \in Deployment : m \in vms[d]
        BY <3>1 DEF Inv, Machines
      <4> QED
        BY <2>1, <4>1, SavedIsCollected DEF Collected
    <3> QED
      BY <3>1
  <2>4. \A m \in VM : MachineSound(vm[m])
    BY DEF Inv, Machines
  <2> QED
    BY <2>2, <2>3, <2>4 DEF MachineSound, Past
<1> QED
  BY <1>1, Invariant, PTL

\* Two deployments never save at the same time through the one database handle.
THEOREM SavesOneAtATime ==
    Spec => [](\A d, e \in Deployment : dep[d] = "save" /\ dep[e] = "save" => d = e)
<1>1. Inv => \A d, e \in Deployment : dep[d] = "save" /\ dep[e] = "save" => d = e
  BY DEF Inv, InOrder, OrderOf
<1> QED
  BY <1>1, Invariant, PTL

-----------------------------------------------------------------------------
(* The refinement.                                                         *)

\* bosh-scan, for any number of deployments, does what a scan command promises:
\* reports are written whole and once, and it succeeds only when all are.
THEOREM Implements == Spec => ImplementsCommand
<1> USE DEF Command!vars
<1>1. Init => Command!Init
  BY DEF Init, Command!Init
<1>2. Inv /\ [Next]_vars => [Command!Next]_(Command!vars)
  <2> SUFFICES ASSUME Inv, [Next]_vars PROVE [Command!Next]_(Command!vars)
    OBVIOUS
  <2>1. CASE Exit /\ Alive
    BY <2>1 DEF Exit, Alive, work, Command!Next, Command!Fail
  <2>2. CASE MainStep
    <3>1. CASE GetDeployments \/ RefuseDatabase
      <4>1. Alive
        BY <3>1 DEF GetDeployments, ReadCACert, getDirectorInfo, getUAA, FindDeployments,
                    RefuseDatabase, Alive
      <4>2. Exit \/ (main' \in {"info", "uaa", "find", "create"} /\ UNCHANGED report)
        BY <3>1 DEF GetDeployments, ReadCACert, getDirectorInfo, getUAA, FindDeployments,
                    RefuseDatabase, MainGoto, work
      <4> QED
        BY <2>1, <4>1, <4>2 DEF Alive
    <3>2. CASE CreateDatabase
      BY <3>2 DEF CreateDatabase, work, Command!Next, Command!Fail
    <3>3. CASE Launch
      BY <3>3 DEF Launch
    <3>4. CASE Finish
      <4>1. \A d \in Deployment : report[d] = <<scanned[d]>>
        BY <3>4 DEF Finish, Inv, InOrder, OrderOf
      <4>2. \A d \in Deployment : report[d] # <<>>
        BY <4>1
      <4> QED
        BY <3>4, <4>2 DEF Finish, MainGoto, work, Command!Next, Command!Succeed
    <3> QED
      BY <2>2, <3>1, <3>2, <3>3, <3>4 DEF MainStep
  <2>3. ASSUME NEW d \in Deployment, SaveReport(d) PROVE [Command!Next]_(Command!vars)
    <3>1. report[d] = <<>> /\ UNCHANGED main /\ Alive
      BY <2>3 DEF SaveReport, At, Inv, InOrder, OrderOf
    <3>2. scanned[d] \in SUBSET VMsOf[d]
      BY DEF Inv, Machines, TypeOK
    <3>3. report' = [report EXCEPT ![d] = <<scanned[d]>>]
      BY <2>3, <3>1 DEF SaveReport
    <3>4. Command!Save(d)
      BY <3>1, <3>2, <3>3 DEF Alive, Command!Save
    <3> QED
      BY <3>4 DEF Command!Next
  <2>4. ASSUME NEW d \in Deployment, DepStep(d) \/ CloserStep(d)
        PROVE  [Command!Next]_(Command!vars)
    <3>1. CASE ListVMsPanics(d) \/ SetupFails(d) \/ SaveFails(d)
      BY <2>1, <3>1 DEF ListVMsPanics, SetupFails, SaveFails, At
    <3>2. CASE ListVMs(d) \/ Setup(d) \/ (\E m \in VM : Receive(d, m)) \/ CollectEnds(d)
               \/ Cleanup(d) \/ Lock(d) \/ Unlock(d) \/ CloserStep(d)
      BY <3>2 DEF ListVMs, Setup, Receive, CollectEnds, Cleanup, Lock, Unlock, CloserStep,
                  CloserWaits, CloseHosts
    <3> QED
      BY <2>3, <2>4, <3>1, <3>2 DEF DepStep
  <2>5. ASSUME NEW m \in VM, VMStep(m) PROVE [Command!Next]_(Command!vars)
    <3>1. CASE Exit /\ ConnectTo(m)
      BY <2>1, <3>1 DEF ConnectTo, VMAt
    <3>2. CASE \E r : VMBecomes(m, r)
      BY <3>2 DEF VMBecomes
    <3>3. CASE Done(m)
      BY <3>3 DEF Done
    <3> QED
      BY <2>5, <3>1, <3>2, <3>3 DEF VMStep, Answer, Hang, ConnectTo, WriteTempFile, Upload,
         UploadFails, RunCommand, DeleteFile, RemoveTempFile, Close, VMGoto
  <2>6. CASE UNCHANGED vars
    BY <2>6 DEF vars, work
  <2> QED
    BY <2>2, <2>4, <2>5, <2>6 DEF Next, Terminated
<1> QED
  BY <1>1, <1>2, Invariant, PTL DEF Spec, ImplementsCommand, Command!Spec

-----------------------------------------------------------------------------
(* Who waits for whom.                                                     *)

\* Some goroutine of the deployment can take a step: the guards of DepStep,
\* CloserStep and VMStep.  A machine that hangs is none of them.
Goes(d) ==
    \/ dep[d] \in {"list", "setup", "cleanup", "save", "unlock"}
    \/ dep[d] = "collect" /\ closed[d]
    \/ dep[d] = "lock" /\ mutex = NoOne
    \/ closer[d] = "wait" /\ wg[d] = 0
    \/ closer[d] = "close"
    \/ \E m \in vms[d] :
          \/ vm[m].pc \in {"connect", "temp", "upload", "run", "delete", "remove", "close", "done"}
          \/ vm[m].pc = "send" /\ dep[d] = "collect"

MainGoes ==
    \/ main \in {"certificate", "info", "uaa", "find", "create", "launch"}
    \/ main = "wait" /\ \A d \in Deployment : dep[d] = "end"

LEMMA DeploymentGoes ==
    ASSUME Inv, Alive, NEW d \in Deployment, dep[d] \notin {"idle", "end"}, ~Hung(d)
    PROVE  Goes(d) \/ (dep[d] = "lock" /\ \E e \in Deployment \ {d} : mutex = e /\ Goes(e))
<1> SUFFICES ASSUME ~Goes(d)
             PROVE  dep[d] = "lock" /\ \E e \in Deployment \ {d} : mutex = e /\ Goes(e)
  OBVIOUS
<1>1. /\ OrderOf(d) /\ dep[d] \in DepPcs /\ vms[d] \subseteq VM
      /\ closer[d] \in {"off", "wait", "close", "end"} /\ mutex \in Deployment \cup {NoOne}
  BY DEF Inv, InOrder, TypeOK
<1>2. dep[d] \in {"collect", "lock"}
  BY <1>1 DEF Goes, DepPcs
<1>3. dep[d] # "collect"
  <2> SUFFICES ASSUME dep[d] = "collect" PROVE FALSE
    OBVIOUS
  <2>1. Started(d) /\ ~closed[d]
    BY DEF Started, Goes
  <2>2. closer[d] = "wait" /\ wg[d] # 0
    BY <1>1, <2>1 DEF OrderOf, Goes
  <2>3. Unfinished(d) # {}
    BY <2>2, FS_EmptySet DEF Inv, Machines
  <2>4. PICK m \in vms[d] : vm[m].pc # "end"
    BY <2>3 DEF Unfinished
  <2>5. vm[m].pc \notin {"idle", "hung"}
    BY <1>1, <2>1, <2>4 DEF Inv, Machines, Hung
  <2>6. vm[m] \in VMState
    BY <1>1, <2>4 DEF Inv, TypeOK
  <2> QED
    BY <2>4, <2>5, <2>6 DEF Goes, VMState
<1>4. mutex \in Deployment
  BY <1>1, <1>2, <1>3 DEF Goes
<1>5. dep[mutex] \in {"save", "unlock"}
  BY <1>4 DEF Inv, InOrder, OrderOf
<1> QED
  BY <1>2, <1>3, <1>4, <1>5 DEF Goes

\* For any deployments and machines: a deployment that has not ended goes on,
\* or waits for the mutex of one that does, or has a machine that hangs.  No
\* hanging machine, and no failed one, holds up another deployment.
THEOREM HeldUpByItsOwn ==
    Spec => [](Alive => \A d \in Deployment :
                  \/ dep[d] \in {"idle", "end"} \/ Hung(d) \/ Goes(d)
                  \/ dep[d] = "lock" /\ \E e \in Deployment \ {d} : mutex = e /\ Goes(e))
<1>1. Inv => (Alive => \A d \in Deployment :
                \/ dep[d] \in {"idle", "end"} \/ Hung(d) \/ Goes(d)
                \/ dep[d] = "lock" /\ \E e \in Deployment \ {d} : mutex = e /\ Goes(e))
  BY DeploymentGoes
<1> QED
  BY <1>1, Invariant, PTL

\* Once launched, a deployment is never idle again.
Launched == main = "wait" => \A d \in Deployment : dep[d] # "idle"

LEMMA LaunchedInvariant == Spec => [](Inv /\ Launched)
<1>1. Init => Launched
  BY DEF Init, Launched
<1>2. Inv /\ Launched /\ [Next]_vars => Launched'
  <2> SUFFICES ASSUME Inv, Launched, [Next]_vars PROVE Launched'
    OBVIOUS
  <2>0. dep \in [Deployment -> DepPcs]
    BY DEF Inv, TypeOK
  <2>1. CASE Exit
    BY <2>1 DEF Exit, Launched
  <2>2. CASE MainStep
    <3>1. CASE Launch
      BY <3>1 DEF Launch, Launched
    <3>2. CASE ~Launch
      <4>1. main' # "wait"
        BY <2>2, <3>2 DEF MainStep, GetDeployments, ReadCACert, getDirectorInfo, getUAA, FindDeployments,
           RefuseDatabase, CreateDatabase, Finish, MainGoto, Exit
      <4> QED
        BY <4>1 DEF Launched
    <3> QED
      BY <3>1, <3>2
  <2>3. ASSUME NEW d \in Deployment, DepStep(d), ~Exit PROVE Launched'
    <3>1. UNCHANGED main
      BY <2>3 DEF DepStep, ListVMsPanics, ListVMs, SetupFails, Setup, Receive, CollectEnds, Cleanup, Lock,
         SaveReport, SaveFails, Unlock
    <3>2. UNCHANGED dep \/ \E pc \in DepPcs \ {"idle"} : DepGoto(d, pc)
      BY <2>3 DEF DepStep, ListVMsPanics, ListVMs, SetupFails, Setup, Receive, CollectEnds, Cleanup, Lock,
         SaveReport, SaveFails, Unlock, DepPcs
    <3> QED
      BY <2>0, <3>1, <3>2 DEF Launched, DepGoto
  <2>4. ASSUME NEW d \in Deployment, CloserStep(d) PROVE Launched'
    BY <2>4 DEF CloserStep, CloserWaits, CloseHosts, Launched
  <2>5. ASSUME NEW m \in VM, VMStep(m), ~Exit PROVE Launched'
    BY <2>5 DEF VMStep, Answer, ConnectTo, WriteTempFile, Upload, UploadFails, RunCommand, DeleteFile,
       RemoveTempFile, Close, Done, Hang, VMGoto, VMBecomes, Launched
  <2>6. CASE Terminated \/ UNCHANGED vars
    BY <2>6 DEF Terminated, vars, work, Launched
  <2> QED
    BY <2>1, <2>2, <2>3, <2>4, <2>5, <2>6 DEF Next
<1>3. Inv /\ [Next]_vars => Inv'
  BY NextInv
<1> QED
  BY <1>1, <1>2, <1>3, InitInv, PTL DEF Spec

\* The command itself is at its end, or goes on, or a machine hangs.
THEOREM NeverStuck ==
    Spec => [](\/ ~Alive \/ MainGoes
               \/ \E d \in Deployment : Goes(d) \/ Hung(d))
<1>1. Inv /\ Launched => ~Alive \/ MainGoes \/ \E d \in Deployment : Goes(d) \/ Hung(d)
  <2> SUFFICES ASSUME Inv, Launched, Alive, ~MainGoes PROVE \E d \in Deployment : Goes(d) \/ Hung(d)
    OBVIOUS
  <2>1. main = "wait"
    BY DEF Inv, TypeOK, MainPcs, Alive, MainGoes
  <2>2. PICK d \in Deployment : dep[d] # "end"
    BY <2>1 DEF MainGoes
  <2> QED
    BY <2>1, <2>2, DeploymentGoes DEF Launched
<1> QED
  BY <1>1, LaunchedInvariant, PTL

-----------------------------------------------------------------------------
(* How much is left to do.                                                 *)

\* How many states a goroutine may still go through; a machine that hangs goes
\* through none.
MainRank(pc) ==
    IF pc = "certificate" THEN 7 ELSE IF pc = "info" THEN 6 ELSE IF pc = "uaa" THEN 5
    ELSE IF pc = "find" THEN 4 ELSE IF pc = "create" THEN 3 ELSE IF pc = "launch" THEN 2
    ELSE IF pc = "wait" THEN 1 ELSE 0
DepRank(pc) ==
    IF pc = "idle" THEN 8 ELSE IF pc = "list" THEN 7 ELSE IF pc = "setup" THEN 6
    ELSE IF pc = "collect" THEN 5 ELSE IF pc = "cleanup" THEN 4 ELSE IF pc = "lock" THEN 3
    ELSE IF pc = "save" THEN 2 ELSE IF pc = "unlock" THEN 1 ELSE 0
CloserRank(pc) == IF pc = "off" THEN 3 ELSE IF pc = "wait" THEN 2 ELSE IF pc = "close" THEN 1 ELSE 0
VMRank(pc) ==
    IF pc = "idle" THEN 10 ELSE IF pc = "connect" THEN 9 ELSE IF pc = "temp" THEN 8
    ELSE IF pc = "upload" THEN 7 ELSE IF pc = "run" THEN 6 ELSE IF pc = "delete" THEN 5
    ELSE IF pc = "remove" THEN 4 ELSE IF pc = "send" THEN 3 ELSE IF pc = "close" THEN 2
    ELSE IF pc = "done" THEN 1 ELSE 0

Ahead(S, rank) == {r \in S \X (1..10) : r[2] <= rank[r[1]]}
DepLeft == [d \in Deployment |-> DepRank(dep[d])]
CloserLeft == [d \in Deployment |-> CloserRank(closer[d])]
VMLeft == [m \in VM |-> VMRank(vm[m].pc)]
StepsLeft ==
    MainRank(main) + Cardinality(Ahead(Deployment, DepLeft))
    + Cardinality(Ahead(Deployment, CloserLeft)) + Cardinality(Ahead(VM, VMLeft))

LEMMA Ranks ==
    /\ MainRank("certificate") = 7 /\ MainRank("info") = 6 /\ MainRank("uaa") = 5 /\ MainRank("find") = 4
    /\ MainRank("create") = 3 /\ MainRank("launch") = 2 /\ MainRank("wait") = 1
    /\ MainRank("succeeded") = 0 /\ MainRank("failed") = 0
    /\ DepRank("idle") = 8 /\ DepRank("list") = 7 /\ DepRank("setup") = 6 /\ DepRank("collect") = 5
    /\ DepRank("cleanup") = 4 /\ DepRank("lock") = 3 /\ DepRank("save") = 2 /\ DepRank("unlock") = 1
    /\ DepRank("end") = 0
    /\ CloserRank("off") = 3 /\ CloserRank("wait") = 2 /\ CloserRank("close") = 1 /\ CloserRank("end") = 0
    /\ VMRank("idle") = 10 /\ VMRank("connect") = 9 /\ VMRank("temp") = 8 /\ VMRank("upload") = 7
    /\ VMRank("run") = 6 /\ VMRank("delete") = 5 /\ VMRank("remove") = 4 /\ VMRank("send") = 3
    /\ VMRank("close") = 2 /\ VMRank("done") = 1 /\ VMRank("end") = 0 /\ VMRank("hung") = 0
BY DEF MainRank, DepRank, CloserRank, VMRank

LEMMA RankTypes ==
    /\ \A pc : MainRank(pc) \in Nat /\ DepRank(pc) \in 0..10 /\ CloserRank(pc) \in 0..10 /\ VMRank(pc) \in 0..10
    /\ DepLeft \in [Deployment -> 0..10] /\ CloserLeft \in [Deployment -> 0..10] /\ VMLeft \in [VM -> 0..10]
<1>1. \A pc : MainRank(pc) \in Nat
  BY DEF MainRank
<1>2. \A pc : DepRank(pc) \in 0..10
  BY DEF DepRank
<1>3. \A pc : CloserRank(pc) \in 0..10
  BY DEF CloserRank
<1>4. \A pc : VMRank(pc) \in 0..10
  BY DEF VMRank
<1> QED
  BY <1>1, <1>2, <1>3, <1>4 DEF DepLeft, CloserLeft, VMLeft

\* Goroutines that have come further, or stayed, have less ahead of them.
LEMMA AheadShrinks ==
    ASSUME NEW S, IsFiniteSet(S), NEW f \in [S -> 0..10], NEW g \in [S -> 0..10],
           \A s \in S : g[s] <= f[s]
    PROVE  /\ Cardinality(Ahead(S, f)) \in Nat /\ Cardinality(Ahead(S, g)) \in Nat
           /\ Cardinality(Ahead(S, g)) <= Cardinality(Ahead(S, f))
           /\ (\E s \in S : g[s] < f[s]) => Cardinality(Ahead(S, g)) < Cardinality(Ahead(S, f))
<1>1. IsFiniteSet(S \X (1..10))
  <2>1. \A k \in Nat : IsFiniteSet(1..k)
    BY FS_Interval
  <2> QED
    BY <2>1, FS_Product
<1>2. Ahead(S, f) \subseteq S \X (1..10) /\ Ahead(S, g) \subseteq Ahead(S, f)
  BY DEF Ahead
<1>3. IsFiniteSet(Ahead(S, f)) /\ Cardinality(Ahead(S, f)) \in Nat
  BY <1>1, <1>2, FS_Subset, FS_CardinalityType
<1>4. /\ IsFiniteSet(Ahead(S, g)) /\ Cardinality(Ahead(S, g)) \in Nat
      /\ Cardinality(Ahead(S, g)) <= Cardinality(Ahead(S, f))
      /\ Ahead(S, g) # Ahead(S, f) => Cardinality(Ahead(S, g)) # Cardinality(Ahead(S, f))
  BY <1>2, <1>3, FS_Subset, FS_CardinalityType
<1>5. ASSUME NEW s \in S, g[s] < f[s] PROVE Ahead(S, g) # Ahead(S, f)
  <2>1. f[s] \in 1..10
    BY <1>5
  <2>2. <<s, f[s]>> \in Ahead(S, f) /\ <<s, f[s]>> \notin Ahead(S, g)
    BY <1>5, <2>1 DEF Ahead
  <2> QED
    BY <2>2
<1> QED
  BY <1>3, <1>4, <1>5

LEMMA StepsLeftType == StepsLeft \in Nat
<1>1. /\ Cardinality(Ahead(Deployment, DepLeft)) \in Nat
      /\ Cardinality(Ahead(Deployment, CloserLeft)) \in Nat
      /\ Cardinality(Ahead(VM, VMLeft)) \in Nat
  <2>1. \A S : \A f \in [S -> 0..10] : IsFiniteSet(S) => Cardinality(Ahead(S, f)) \in Nat
    BY AheadShrinks
  <2> QED
    BY <2>1, RankTypes, DeploymentAssumption
<1> QED
  BY <1>1, RankTypes DEF StepsLeft

\* What a step has to show: nobody goes back, and somebody goes on.
LEMMA Forward ==
    ASSUME MainRank(main') <= MainRank(main),
           \A d \in Deployment : DepRank(dep'[d]) <= DepRank(dep[d]) /\ CloserRank(closer'[d]) <= CloserRank(closer[d]),
           \A m \in VM : VMRank(vm'[m].pc) <= VMRank(vm[m].pc),
           \/ MainRank(main') < MainRank(main)
           \/ \E d \in Deployment : DepRank(dep'[d]) < DepRank(dep[d]) \/ CloserRank(closer'[d]) < CloserRank(closer[d])
           \/ \E m \in VM : VMRank(vm'[m].pc) < VMRank(vm[m].pc)
    PROVE  StepsLeft' < StepsLeft
<1>1. PICK f, f1, g, g1, h, h1 :
         f = DepLeft /\ f1 = DepLeft' /\ g = CloserLeft /\ g1 = CloserLeft' /\ h = VMLeft /\ h1 = VMLeft'
  OBVIOUS
<1>2. /\ f \in [Deployment -> 0..10] /\ f1 \in [Deployment -> 0..10]
      /\ g \in [Deployment -> 0..10] /\ g1 \in [Deployment -> 0..10]
      /\ h \in [VM -> 0..10] /\ h1 \in [VM -> 0..10]
  <2>1. DepLeft' \in [Deployment -> 0..10] /\ CloserLeft' \in [Deployment -> 0..10] /\ VMLeft' \in [VM -> 0..10]
    BY RankTypes DEF DepLeft, CloserLeft, VMLeft
  <2> QED
    BY <1>1, <2>1, RankTypes
<1>3. /\ \A d \in Deployment : f[d] = DepRank(dep[d]) /\ f1[d] = DepRank(dep'[d])
      /\ \A d \in Deployment : g[d] = CloserRank(closer[d]) /\ g1[d] = CloserRank(closer'[d])
      /\ \A m \in VM : h[m] = VMRank(vm[m].pc) /\ h1[m] = VMRank(vm'[m].pc)
  BY <1>1 DEF DepLeft, CloserLeft, VMLeft
<1>4. PICK a, a1, b, b1, c, c1, e, e1 :
         /\ a = MainRank(main) /\ a1 = MainRank(main')
         /\ b = Cardinality(Ahead(Deployment, f)) /\ b1 = Cardinality(Ahead(Deployment, f1))
         /\ c = Cardinality(Ahead(Deployment, g)) /\ c1 = Cardinality(Ahead(Deployment, g1))
         /\ e = Cardinality(Ahead(VM, h)) /\ e1 = Cardinality(Ahead(VM, h1))
  OBVIOUS
<1>5. StepsLeft = a + b + c + e /\ StepsLeft' = a1 + b1 + c1 + e1
  BY <1>1, <1>4 DEF StepsLeft, Ahead
<1>6. b \in Nat /\ b1 \in Nat /\ b1 <= b /\ ((\E d \in Deployment : f1[d] < f[d]) => b1 < b)
  BY <1>2, <1>3, <1>4, AheadShrinks, DeploymentAssumption
<1>7. c \in Nat /\ c1 \in Nat /\ c1 <= c /\ ((\E d \in Deployment : g1[d] < g[d]) => c1 < c)
  BY <1>2, <1>3, <1>4, AheadShrinks, DeploymentAssumption
<1>8. e \in Nat /\ e1 \in Nat /\ e1 <= e /\ ((\E m \in VM : h1[m] < h[m]) => e1 < e)
  BY <1>2, <1>3, <1>4, AheadShrinks, DeploymentAssumption
<1>9. a \in Nat /\ a1 \in Nat /\ a1 <= a
  BY <1>4, RankTypes
<1>10. a1 < a \/ b1 < b \/ c1 < c \/ e1 < e
  BY <1>3, <1>4, <1>6, <1>7, <1>8
<1> QED
  BY <1>5, <1>6, <1>7, <1>8, <1>9, <1>10

\* A deployment's goroutine goes on, or the closer, or one machine.
LEMMA OneGoes ==
    ASSUME Inv, UNCHANGED main
    PROVE  /\ \A d \in Deployment, pc \in DepPcs :
                 DepGoto(d, pc) /\ DepRank(pc) < DepRank(dep[d]) /\ UNCHANGED <<closer, vm>>
                 => StepsLeft' < StepsLeft
           /\ \A d \in Deployment : \A pc : closer' = [closer EXCEPT ![d] = pc]
                 /\ CloserRank(pc) < CloserRank(closer[d]) /\ UNCHANGED <<dep, vm>>
                 => StepsLeft' < StepsLeft
           /\ \A m \in VM : \A r : vm' = [vm EXCEPT ![m] = r]
                 /\ VMRank(r.pc) < VMRank(vm[m].pc) /\ UNCHANGED <<dep, closer>>
                 => StepsLeft' < StepsLeft
<1>1. /\ MainRank(main') <= MainRank(main)
      /\ \A pc : DepRank(pc) <= DepRank(pc) /\ CloserRank(pc) <= CloserRank(pc) /\ VMRank(pc) <= VMRank(pc)
  BY RankTypes
<1>2. ASSUME NEW d \in Deployment, NEW pc \in DepPcs, DepGoto(d, pc), DepRank(pc) < DepRank(dep[d]),
             UNCHANGED <<closer, vm>>
      PROVE  StepsLeft' < StepsLeft
  <2>1. dep'[d] = pc /\ \A e \in Deployment \ {d} : dep'[e] = dep[e]
    BY <1>2 DEF DepGoto, Inv, TypeOK
  <2>2. \A e \in Deployment : DepRank(dep'[e]) <= DepRank(dep[e])
    BY <1>1, <1>2, <2>1, RankTypes
  <2> QED
    BY <1>1, <1>2, <2>1, <2>2, Forward
<1>3. ASSUME NEW d \in Deployment, NEW pc, closer' = [closer EXCEPT ![d] = pc],
             CloserRank(pc) < CloserRank(closer[d]), UNCHANGED <<dep, vm>>
      PROVE  StepsLeft' < StepsLeft
  <2>1. closer'[d] = pc /\ \A e \in Deployment \ {d} : closer'[e] = closer[e]
    BY <1>3 DEF Inv, TypeOK
  <2>2. \A e \in Deployment : CloserRank(closer'[e]) <= CloserRank(closer[e])
    BY <1>1, <1>3, <2>1, RankTypes
  <2> QED
    BY <1>1, <1>3, <2>1, <2>2, Forward
<1>4. ASSUME NEW m \in VM, NEW r, vm' = [vm EXCEPT ![m] = r], VMRank(r.pc) < VMRank(vm[m].pc),
             UNCHANGED <<dep, closer>>
      PROVE  StepsLeft' < StepsLeft
  <2>1. vm'[m] = r /\ \A n \in VM \ {m} : vm'[n] = vm[n]
    BY <1>4 DEF Inv, TypeOK
  <2>2. \A n \in VM : VMRank(vm'[n].pc) <= VMRank(vm[n].pc)
    BY <1>1, <1>4, <2>1, RankTypes
  <2> QED
    BY <1>1, <1>4, <2>1, <2>2, Forward
<1> QED
  BY <1>2, <1>3, <1>4

LEMMA StepCounts == ASSUME Inv, Next, ~Terminated PROVE StepsLeft' < StepsLeft
<1>1. /\ \A pc : /\ MainRank(pc) \in Nat /\ MainRank(pc) <= MainRank(pc)
                 /\ DepRank(pc) <= DepRank(pc) /\ CloserRank(pc) <= CloserRank(pc)
                 /\ VMRank(pc) <= VMRank(pc)
  BY RankTypes
<1>2. CASE Exit /\ Alive
  <2>1. main' = "failed" /\ UNCHANGED <<dep, closer, vm>>
    BY <1>2 DEF Exit, work, depVars
  <2>2. MainRank(main') < MainRank(main)
    <3>1. main \in {"certificate", "info", "uaa", "find", "create", "launch", "wait"}
      BY <1>2 DEF Alive, Inv, TypeOK, MainPcs
    <3> QED
      BY <2>1, <3>1, Ranks
  <2> QED
    BY <1>1, <2>1, <2>2, Forward
<1>3. CASE MainStep /\ ~(Exit /\ Alive)
  <2>1. main \in MainPcs
    BY DEF Inv, TypeOK
  <2>2. MainRank(main') < MainRank(main)
    <3>1. \/ main = "certificate" /\ main' \in {"info", "failed"}
          \/ main = "info" /\ main' \in {"uaa", "find", "failed"}
          \/ main = "uaa" /\ main' \in {"find", "failed"}
          \/ main = "find" /\ main' \in {"create", "failed"}
          \/ main = "create" /\ main' \in {"launch", "failed"}
          \/ main = "launch" /\ main' = "wait"
          \/ main = "wait" /\ main' = "succeeded"
      BY <1>3 DEF MainStep, GetDeployments, ReadCACert, getDirectorInfo, getUAA, FindDeployments,
         RefuseDatabase, CreateDatabase, Launch, Finish, MainGoto, Exit
    <3> QED
      BY <3>1, Ranks
  <2>3. UNCHANGED <<closer, vm>>
    BY <1>3 DEF MainStep, GetDeployments, ReadCACert, getDirectorInfo, getUAA, FindDeployments,
       RefuseDatabase, CreateDatabase, Launch, Finish, MainGoto, Exit, work, depVars
  <2>4. \A d \in Deployment : DepRank(dep'[d]) <= DepRank(dep[d])
    <3>1. CASE Launch
      <4>1. \A d \in Deployment : dep[d] = "idle" /\ dep'[d] = "list"
        BY <3>1 DEF Launch, Inv, MainOrder
      <4> QED
        BY <4>1, Ranks
    <3>2. CASE ~Launch
      <4>1. UNCHANGED dep
        BY <1>3, <3>2 DEF MainStep, GetDeployments, ReadCACert, getDirectorInfo, getUAA, FindDeployments,
           RefuseDatabase, CreateDatabase, Finish, MainGoto, Exit, work
      <4> QED
        BY <1>1, <4>1
    <3> QED
      BY <3>1, <3>2
  <2> QED
    BY <1>1, <2>2, <2>3, <2>4, RankTypes, Forward
<1>4. ASSUME NEW d \in Deployment, DepStep(d), ~(Exit /\ Alive) PROVE StepsLeft' < StepsLeft
  <2>1. UNCHANGED main
    BY <1>4 DEF DepStep, ListVMsPanics, ListVMs, SetupFails, Setup, Receive, CollectEnds, Cleanup, Lock,
       SaveReport, SaveFails, Unlock, At
  <2>2. CASE ListVMs(d) \/ CollectEnds(d) \/ Cleanup(d) \/ Lock(d) \/ SaveReport(d) \/ Unlock(d)
    <3>1. UNCHANGED <<closer, vm>>
      BY <2>2 DEF ListVMs, CollectEnds, Cleanup, Lock, SaveReport, Unlock, depVars
    <3>2. \E pc \in DepPcs : /\ DepGoto(d, pc)
                             /\ <<dep[d], pc>> \in {<<"list", "setup">>, <<"collect", "cleanup">>, <<"cleanup", "lock">>,
                                                    <<"lock", "save">>, <<"save", "unlock">>, <<"unlock", "end">>}
      BY <2>2 DEF ListVMs, CollectEnds, Cleanup, Lock, SaveReport, Unlock, At, DepPcs
    <3>3. \E pc \in DepPcs : DepGoto(d, pc) /\ DepRank(pc) < DepRank(dep[d])
      BY <3>2, Ranks
    <3> QED
      BY <2>1, <3>1, <3>3, OneGoes
  <2>3. CASE Setup(d)
    <3>1. /\ dep[d] = "setup" /\ DepGoto(d, "collect")
          /\ vm' = [m \in VM |-> IF m \in vms[d] THEN [vm[m] EXCEPT !.pc = "connect"] ELSE vm[m]]
          /\ closer' = [closer EXCEPT ![d] = "wait"]
      BY <2>3 DEF Setup, At
    <3>2. dep'[d] = "collect" /\ \A e \in Deployment \ {d} : dep'[e] = dep[e]
      BY <3>1 DEF DepGoto, Inv, TypeOK
    <3>3. closer[d] = "off"
      BY <3>1 DEF Inv, InOrder, OrderOf, Started
    <3>4. closer'[d] = "wait" /\ \A e \in Deployment \ {d} : closer'[e] = closer[e]
      BY <3>1 DEF Inv, TypeOK
    <3>5. ASSUME NEW m \in VM PROVE VMRank(vm'[m].pc) <= VMRank(vm[m].pc)
      <4>1. CASE m \in vms[d]
        <5>1. vm[m].pc = "idle"
          <6>1. \A e \in Deployment : m \in vms[e] => e = d
            BY <4>1, OneOwner DEF Inv
          <6> QED
            BY <3>1, <6>1 DEF Inv, Machines, Started
        <5>2. vm[m] \in VMState
          BY DEF Inv, TypeOK
        <5>3. vm'[m].pc = "connect"
          BY <3>1, <4>1, <5>2 DEF VMState
        <5> QED
          BY <5>1, <5>3, Ranks
      <4>2. CASE m \notin vms[d]
        <5>1. vm'[m] = vm[m]
          BY <3>1, <4>2
        <5> QED
          BY <1>1, <5>1
      <4> QED
        BY <4>1, <4>2
    <3>6. \A e \in Deployment : /\ DepRank(dep'[e]) <= DepRank(dep[e])
                                /\ CloserRank(closer'[e]) <= CloserRank(closer[e])
      BY <1>1, <3>1, <3>2, <3>3, <3>4, Ranks
    <3>7. DepRank(dep'[d]) < DepRank(dep[d])
      BY <3>1, <3>2, Ranks
    <3> QED
      BY <1>1, <2>1, <3>5, <3>6, <3>7, Forward
  <2>4. ASSUME NEW m \in VM, Receive(d, m) PROVE StepsLeft' < StepsLeft
    <3>1. /\ vm[m].pc = "send" /\ vm' = [vm EXCEPT ![m] = [vm[m] EXCEPT !.pc = "close"]]
          /\ UNCHANGED <<dep, closer>> /\ vm[m] \in VMState
      BY <2>4 DEF Receive, Inv, TypeOK
    <3>2. PICK r : r = [vm[m] EXCEPT !.pc = "close"]
      OBVIOUS
    <3>3. r.pc = "close"
      BY <3>1, <3>2 DEF VMState
    <3>4. VMRank(r.pc) < VMRank(vm[m].pc)
      BY <3>1, <3>3, Ranks
    <3>5. vm' = [vm EXCEPT ![m] = r]
      BY <3>1, <3>2
    <3> QED
      BY <2>1, <3>1, <3>4, <3>5, OneGoes
  <2>5. ~ListVMsPanics(d) /\ ~SetupFails(d) /\ ~SaveFails(d)
    BY <1>4 DEF ListVMsPanics, SetupFails, SaveFails, At
  <2> QED
    BY <1>4, <2>2, <2>3, <2>4, <2>5 DEF DepStep
<1>5. ASSUME NEW d \in Deployment, CloserStep(d) PROVE StepsLeft' < StepsLeft
  <2>1. UNCHANGED <<main, dep, vm>>
    BY <1>5 DEF CloserStep, CloserWaits, CloseHosts
  <2>2. \E pc : /\ closer' = [closer EXCEPT ![d] = pc]
                /\ <<closer[d], pc>> \in {<<"wait", "close">>, <<"close", "end">>}
    BY <1>5 DEF CloserStep, CloserWaits, CloseHosts
  <2>3. \E pc : closer' = [closer EXCEPT ![d] = pc] /\ CloserRank(pc) < CloserRank(closer[d])
    <3>1. PICK a, b : a = closer[d] /\ closer' = [closer EXCEPT ![d] = b]
                      /\ <<a, b>> \in {<<"wait", "close">>, <<"close", "end">>}
      BY <2>2
    <3>2. CloserRank(b) < CloserRank(a)
      BY <3>1, Ranks
    <3> QED
      BY <3>1, <3>2
  <2> QED
    BY <2>1, <2>3, OneGoes
<1>6. ASSUME NEW m \in VM, VMStep(m), ~(Exit /\ Alive) PROVE StepsLeft' < StepsLeft
  <2>1. vm[m] \in VMState
    BY DEF Inv, TypeOK
  <2>2. UNCHANGED <<main, dep, closer>>
    BY <1>6 DEF VMStep, Answer, ConnectTo, WriteTempFile, Upload, UploadFails, RunCommand, DeleteFile,
       RemoveTempFile, Close, Done, Hang, VMGoto, VMBecomes, VMAt, depVars
  <2>3. \E r : vm' = [vm EXCEPT ![m] = r] /\ VMRank(r.pc) < VMRank(vm[m].pc)
    <3>1. ASSUME NEW r, vm' = [vm EXCEPT ![m] = r],
                 <<vm[m].pc, r.pc>> \in {<<"connect", "temp">>, <<"temp", "upload">>, <<"temp", "close">>,
                     <<"upload", "run">>, <<"upload", "remove">>, <<"run", "delete">>, <<"delete", "remove">>,
                     <<"remove", "send">>, <<"remove", "close">>, <<"close", "done">>, <<"done", "end">>,
                     <<"upload", "hung">>, <<"run", "hung">>, <<"delete", "hung">>}
          PROVE  \E q : vm' = [vm EXCEPT ![m] = q] /\ VMRank(q.pc) < VMRank(vm[m].pc)
      <4>1. PICK a, b : a = vm[m].pc /\ b = r.pc
        OBVIOUS
      <4>2. VMRank(b) < VMRank(a)
        BY <3>1, <4>1, Ranks
      <4> QED
        BY <3>1, <4>1, <4>2
    <3>2. CASE ConnectTo(m) \/ Hang(m)
      <4>1. ASSUME NEW pc, vm' = [vm EXCEPT ![m] = [vm[m] EXCEPT !.pc = pc]],
                   <<vm[m].pc, pc>> \in {<<"connect", "temp">>, <<"upload", "hung">>, <<"run", "hung">>, <<"delete", "hung">>}
            PROVE  \E q : vm' = [vm EXCEPT ![m] = q] /\ VMRank(q.pc) < VMRank(vm[m].pc)
        <5>1. PICK r : r = [vm[m] EXCEPT !.pc = pc]
          OBVIOUS
        <5>2. r.pc = pc
          BY <2>1, <5>1 DEF VMState
        <5> QED
          BY <3>1, <4>1, <5>1, <5>2
      <4> QED
        BY <1>6, <3>2, <4>1 DEF ConnectTo, Hang, VMGoto, VMBecomes, VMAt
    <3>3. CASE WriteTempFile(m)
      <4>1. PICK pc, t :
               /\ vm' = [vm EXCEPT ![m] = [vm[m] EXCEPT !.pc = pc, !.temp = t]] /\ vm[m].pc = "temp"
               /\ pc \in {"upload", "close"}
        <5>1. PICK x \in {<<"upload", "present">>, <<"close", "none">>, <<"close", "left">>} :
                 vm' = [vm EXCEPT ![m] = [vm[m] EXCEPT !.pc = x[1], !.temp = x[2]]]
          BY <3>3 DEF WriteTempFile, VMBecomes
        <5>2. x[1] \in {"upload", "close"} /\ vm[m].pc = "temp"
          BY <3>3, <5>1 DEF WriteTempFile, VMAt
        <5> QED
          BY <5>1, <5>2
      <4>2. PICK r : r = [vm[m] EXCEPT !.pc = pc, !.temp = t]
        OBVIOUS
      <4>3. r.pc = pc
        BY <2>1, <4>2 DEF VMState
      <4> QED
        BY <3>1, <4>1, <4>2, <4>3
    <3>4. CASE Upload(m)
      <4>1. vm' = [vm EXCEPT ![m] = [vm[m] EXCEPT !.pc = "run", !.remote = "present", !.conn = TRUE]]
            /\ vm[m].pc = "upload"
        BY <3>4 DEF Upload, VMBecomes, VMAt
      <4>2. PICK r : r = [vm[m] EXCEPT !.pc = "run", !.remote = "present", !.conn = TRUE]
        OBVIOUS
      <4>3. r.pc = "run"
        BY <2>1, <4>2 DEF VMState
      <4> QED
        BY <3>1, <4>1, <4>2, <4>3
    <3>5. CASE UploadFails(m)
      <4>1. PICK c : vm' = [vm EXCEPT ![m] = [vm[m] EXCEPT !.pc = "remove", !.conn = c]] /\ vm[m].pc = "upload"
        BY <3>5 DEF UploadFails, VMBecomes, VMAt
      <4>2. PICK r : r = [vm[m] EXCEPT !.pc = "remove", !.conn = c]
        OBVIOUS
      <4>3. r.pc = "remove"
        BY <2>1, <4>2 DEF VMState
      <4> QED
        BY <3>1, <4>1, <4>2, <4>3
    <3>6. CASE RunCommand(m)
      <4>1. PICK ok : vm' = [vm EXCEPT ![m] = [vm[m] EXCEPT !.pc = "delete", !.ok = ok]] /\ vm[m].pc = "run"
        BY <3>6 DEF RunCommand, VMBecomes, VMAt
      <4>2. PICK r : r = [vm[m] EXCEPT !.pc = "delete", !.ok = ok]
        OBVIOUS
      <4>3. r.pc = "delete"
        BY <2>1, <4>2 DEF VMState
      <4> QED
        BY <3>1, <4>1, <4>2, <4>3
    <3>7. CASE DeleteFile(m)
      <4>1. vm' = [vm EXCEPT ![m] = [vm[m] EXCEPT !.pc = "remove", !.remote = "tried"]] /\ vm[m].pc = "delete"
        BY <3>7 DEF DeleteFile, VMBecomes, VMAt
      <4>2. PICK r : r = [vm[m] EXCEPT !.pc = "remove", !.remote = "tried"]
        OBVIOUS
      <4>3. r.pc = "remove"
        BY <2>1, <4>2 DEF VMState
      <4> QED
        BY <3>1, <4>1, <4>2, <4>3
    <3>8. CASE RemoveTempFile(m)
      <4>1. PICK pc \in {"send", "close"} :
               vm' = [vm EXCEPT ![m] = [vm[m] EXCEPT !.pc = pc, !.temp = "tried"]] /\ vm[m].pc = "remove"
        BY <3>8 DEF RemoveTempFile, VMBecomes, VMAt
      <4>2. PICK r : r = [vm[m] EXCEPT !.pc = pc, !.temp = "tried"]
        OBVIOUS
      <4>3. r.pc = pc
        BY <2>1, <4>2 DEF VMState
      <4> QED
        BY <3>1, <4>1, <4>2, <4>3
    <3>9. CASE Close(m)
      <4>1. vm' = [vm EXCEPT ![m] = [vm[m] EXCEPT !.pc = "done", !.conn = FALSE]] /\ vm[m].pc = "close"
        BY <3>9 DEF Close, VMBecomes, VMAt
      <4>2. PICK r : r = [vm[m] EXCEPT !.pc = "done", !.conn = FALSE]
        OBVIOUS
      <4>3. r.pc = "done"
        BY <2>1, <4>2 DEF VMState
      <4> QED
        BY <3>1, <4>1, <4>2, <4>3
    <3>10. CASE Done(m)
      <4>1. vm' = [vm EXCEPT ![m] = [vm[m] EXCEPT !.pc = "end"]] /\ vm[m].pc = "done"
        BY <3>10 DEF Done, VMAt
      <4>2. PICK r : r = [vm[m] EXCEPT !.pc = "end"]
        OBVIOUS
      <4>3. r.pc = "end"
        BY <2>1, <4>2 DEF VMState
      <4> QED
        BY <3>1, <4>1, <4>2, <4>3
    <3> QED
      BY <1>6, <3>2, <3>3, <3>4, <3>5, <3>6, <3>7, <3>8, <3>9, <3>10 DEF VMStep, Answer
  <2> QED
    BY <2>2, <2>3, OneGoes
<1> QED
  BY <1>2, <1>3, <1>4, <1>5, <1>6 DEF Next

\* Every step leaves less to do, however many deployments and machines there
\* are: the command never goes round in circles, it ends or waits for a machine
\* that hangs.
THEOREM EveryStepCounts == Spec => [](StepsLeft \in Nat) /\ [][StepsLeft' < StepsLeft]_vars
<1>1. Inv /\ [Next]_vars => [StepsLeft' < StepsLeft]_vars
  BY StepCounts DEF Terminated
<1> QED
  BY <1>1, StepsLeftType, Invariant, PTL DEF Spec
=============================================================================
