---------------------------- MODULE TaskFlowsProofs ----------------------------
(***************************************************************************)
(* Proofs about TaskFlows, for any number of child Tasks, wakes, crashes   *)
(* and faults: a cancelled Flow is quiet, a completion is dropped only for *)
(* a Flow that is closed, DELIVERED means decided, a blocked Flow names    *)
(* its child and a delivery never has two live wakes.  About Skills: the   *)
(* snapshots of a Run, for any sources, skills, crashes and edits.  And    *)
(* about Extensions: owners, runtimes and the order of activation, for any *)
(* extensions, capabilities and calls that do not overlap.                 *)
(***************************************************************************)
EXTENDS TaskFlows, Skills, Extensions, FiniteSetTheorems, WellFoundedInduction, TLAPS

Live == {"CREATED", "RUNNING"}
Statuses == {"ABSENT", "CREATED", "RUNNING"} \cup RunOver

\* The types of the rows, and of the memory of the Host.
RowTypes ==
    /\ flow \in FlowRow
    /\ delivery \in [Task -> DeliveryRow]
    /\ run \in [Runs -> Statuses]
    /\ recorded \subseteq Wakes

MemoryTypes ==
    /\ unrecorded \subseteq Wakes
    /\ active \subseteq Runs /\ leaving \subseteq Runs
    /\ phase \in {"down", "drain", "schedule", "reconcile", "redrain", "cancel", "up"}
    /\ after \in {"up", "redrain"}
    /\ caller \subseteq Wakes
    /\ todo \subseteq Task /\ cancelled \subseteq Task
    /\ flowCrashes \in 0 .. MaxCrashes /\ flowFaults \in 0 .. MaxFaults

\* A BLOCKED Flow names one of its children.
BlockOK == flow.status = "BLOCKED" => flow.blocked \in Linked

\* A child has no delivery and no wake before its own Run is over.
ChildFirst ==
    \A t \in Task : run[<<t, 0>>] \notin RunOver =>
        /\ delivery[t].status = "NONE"
        /\ \A k \in 1 .. MaxTries : run[<<t, k>>] = "ABSENT"

\* What the rows say of each other.
RowsOK ==
    /\ CancelledIsQuiet /\ SuppressedIsClosed /\ DeliveredIsDecided /\ BlockOK
    /\ OneLiveWake /\ ChildFirst

\* A cancellation has only children before it that have not ended.
TodoOK == phase = "cancel" => todo \subseteq ActiveChildren

\* The inductive invariant.
FlowInv == RowTypes /\ MemoryTypes /\ RowsOK /\ TodoOK

-----------------------------------------------------------------------------
\* Runs are named by a child and a number, 0 for the child itself.
LEMMA RunFacts ==
  /\ MaxTries \in Nat /\ MaxTries >= 1 /\ MaxFaults \in Nat /\ MaxCrashes \in Nat
  /\ \A t \in Task : <<t, 0>> \in Runs
  /\ \A t \in Task, k \in 0 .. MaxTries : <<t, k>> \in Runs /\ (k >= 1 => <<t, k>> \in Wakes)
  /\ \A r \in Runs : r = <<r[1], r[2]>> /\ r[1] \in Task /\ r[2] \in 0 .. MaxTries
  /\ \A r \in Wakes : r \in Runs
  BY FlowAssumption DEF Runs, Wakes

\* A write of the Flow row that neither reopens nor blocks it wrongly keeps the
\* rows in agreement.
LEMMA FlowWrite ==
  ASSUME RowTypes, RowsOK, flow' \in FlowRow, UNCHANGED <<delivery, run, recorded>>,
         Closed => Closed', flow'.status = "BLOCKED" => flow'.blocked \in Linked,
         flow'.status = "CANCELLED" => flow.status = "CANCELLED" \/ ActiveChildren = {}
  PROVE  RowTypes' /\ RowsOK' /\ ActiveChildren' = ActiveChildren
  <1>1. /\ CancelledIsQuiet /\ SuppressedIsClosed /\ DeliveredIsDecided /\ BlockOK
        /\ OneLiveWake /\ ChildFirst
    BY DEF RowsOK
  <1>2. Linked' = Linked /\ ActiveChildren' = ActiveChildren BY DEF Linked, ActiveChildren
  <1>3. RowTypes' BY DEF RowTypes
  <1>4. CancelledIsQuiet' BY <1>1, <1>2 DEF CancelledIsQuiet
  <1>5. SuppressedIsClosed' BY <1>1 DEF SuppressedIsClosed
  <1>6. DeliveredIsDecided' BY <1>1 DEF DeliveredIsDecided
  <1>7. BlockOK' BY <1>2 DEF BlockOK
  <1>8. OneLiveWake' /\ ChildFirst' BY <1>1 DEF OneLiveWake, ChildFirst
  <1> QED BY <1>2, <1>3, <1>4, <1>5, <1>6, <1>7, <1>8 DEF RowsOK

\* A mutation of the Flow is such a write; CANCELLED needs a quiet Flow.
LEMMA MutateRows ==
  ASSUME RowTypes, RowsOK, NEW target \in FlowActive \cup FlowTerminal, NEW t, Mutate(target, t),
         target = "CANCELLED" => ActiveChildren = {}, UNCHANGED <<delivery, run, recorded>>
  PROVE  RowTypes' /\ RowsOK' /\ ActiveChildren' = ActiveChildren
  <1> DEFINE b == IF target = "BLOCKED" THEN t ELSE NoTask
  <1>1. /\ flow.status \in FlowActive /\ (target = "BLOCKED" => t \in Linked)
        /\ flow' = [flow EXCEPT !.status = target, !.blocked = b]
    BY DEF Mutate, UpdateFlow
  <1>2. flow \in FlowRow BY DEF RowTypes
  <1>3. b \in Task \cup {NoTask} /\ (target = "BLOCKED" => b \in Linked) BY <1>1 DEF Linked
  <1> HIDE DEF b
  <1>4. flow' \in FlowRow /\ flow'.status = target /\ flow'.blocked = b /\ flow'.cancel = flow.cancel
    BY <1>1, <1>2, <1>3 DEF FlowRow
  <1>5. Closed => Closed' BY <1>1, <1>4 DEF Closed, FlowActive, FlowTerminal
  <1>6. flow'.status = "BLOCKED" => flow'.blocked \in Linked BY <1>3, <1>4
  <1>7. flow'.status = "CANCELLED" => flow.status = "CANCELLED" \/ ActiveChildren = {} BY <1>4
  <1> QED BY <1>4, <1>5, <1>6, <1>7, FlowWrite

\* The request of a cancellation is such a write.
LEMMA RequestRows ==
  ASSUME RowTypes, RowsOK, RequestCancel, UNCHANGED <<delivery, run, recorded>>
  PROVE  RowTypes' /\ RowsOK' /\ ActiveChildren' = ActiveChildren
  <1>1. flow.status \in FlowActive /\ flow' = [flow EXCEPT !.cancel = TRUE] BY DEF RequestCancel
  <1>2. flow \in FlowRow BY DEF RowTypes
  <1>3. flow' \in FlowRow /\ flow'.status = flow.status /\ flow'.blocked = flow.blocked /\ flow'.cancel = TRUE
    BY <1>1, <1>2 DEF FlowRow
  <1>4. Closed => Closed' BY <1>3 DEF Closed
  <1>5. flow'.status = "BLOCKED" => flow'.blocked \in Linked BY <1>3 DEF RowsOK, BlockOK
  <1>6. flow'.status = "CANCELLED" => flow.status = "CANCELLED" \/ ActiveChildren = {} BY <1>3
  <1> QED BY <1>3, <1>4, <1>5, <1>6, FlowWrite

\* The admission of a child keeps the rows in agreement.
LEMMA AdmitRows ==
  ASSUME RowTypes, RowsOK, NEW t \in Task, t \notin Linked, ~flow.cancel,
         flow.status \in {"QUEUED", "RUNNING"}, UpdateFlow("RUNNING", NoTask),
         run' = [run EXCEPT ![<<t, 0>>] = "CREATED"], UNCHANGED <<delivery, recorded>>
  PROVE  RowTypes' /\ RowsOK'
  <1>1. /\ CancelledIsQuiet /\ SuppressedIsClosed /\ DeliveredIsDecided /\ BlockOK
        /\ OneLiveWake /\ ChildFirst
    BY DEF RowsOK
  <1>2. flow' \in FlowRow /\ flow'.status = "RUNNING" /\ flow'.cancel = flow.cancel
    BY DEF UpdateFlow, RowTypes, FlowRow, FlowActive
  <1>3. /\ <<t, 0>> \in Runs /\ run[<<t, 0>>] = "ABSENT"
        /\ \A u \in Task : u # t => run'[<<u, 0>>] = run[<<u, 0>>]
        /\ run'[<<t, 0>>] = "CREATED"
        /\ \A u \in Task, k \in 1 .. MaxTries : run'[<<u, k>>] = run[<<u, k>>]
    BY RunFacts DEF RowTypes, Linked
  <1>4. RowTypes' BY <1>2, <1>3 DEF RowTypes, Statuses
  <1>5. CancelledIsQuiet' /\ BlockOK' BY <1>2 DEF CancelledIsQuiet, BlockOK
  <1>6. SuppressedIsClosed'
    BY <1>1, <1>2 DEF SuppressedIsClosed, Closed, FlowTerminal
  <1>7. DeliveredIsDecided' BY <1>1 DEF DeliveredIsDecided
  <1>8. OneLiveWake' BY <1>1, <1>3 DEF OneLiveWake
  <1>9. ChildFirst'
    <2>1. run[<<t, 0>>] \notin RunOver BY <1>3 DEF RunOver
    <2> QED BY <1>1, <1>3, <2>1 DEF ChildFirst
  <1> QED BY <1>4, <1>5, <1>6, <1>7, <1>8, <1>9 DEF RowsOK

\* The end of a Run inserts the delivery of a child and settles nothing else.
LEMMA EndRows ==
  ASSUME RowTypes, RowsOK, NEW r \in Runs, run[r] \in Live, NEW s \in RunOver,
         EndRuns({r}, s), UNCHANGED <<flow, recorded>>
  PROVE  /\ RowTypes' /\ RowsOK'
         /\ \A u \in Task : <<u, 0>> # r => run'[<<u, 0>>] = run[<<u, 0>>]
  <1>1. /\ CancelledIsQuiet /\ SuppressedIsClosed /\ DeliveredIsDecided /\ BlockOK
        /\ OneLiveWake /\ ChildFirst
    BY DEF RowsOK
  <1>2. /\ run' = [q \in Runs |-> IF q \in {r} THEN s ELSE run[q]]
        /\ delivery' = [t \in Task |-> IF <<t, 0>> \in {r}
                                       THEN [delivery[t] EXCEPT !.status = "PENDING"] ELSE delivery[t]]
    BY DEF EndRuns
  <1>3. /\ \A q \in Runs : run'[q] = IF q = r THEN s ELSE run[q]
        /\ \A t \in Task : <<t, 0>> # r => delivery'[t] = delivery[t]
        /\ \A t \in Task : delivery[t] \in DeliveryRow
        /\ \A t \in Task : <<t, 0>> = r =>
              delivery'[t].status = "PENDING" /\ delivery'[t].wake = delivery[t].wake
              /\ delivery'[t] \in DeliveryRow
    BY <1>2 DEF RowTypes, DeliveryRow, Actionable
  <1>4. RowTypes'
    <2>1. run' \in [Runs -> Statuses] BY <1>2 DEF RowTypes, Statuses
    <2>2. delivery' \in [Task -> DeliveryRow] BY <1>2, <1>3
    <2> QED BY <2>1, <2>2 DEF RowTypes
  <1>5. \A u \in Task : <<u, 0>> # r => run'[<<u, 0>>] = run[<<u, 0>>] BY <1>3, RunFacts
  <1>6. \A u \in Task : /\ run'[<<u, 0>>] # "ABSENT" <=> run[<<u, 0>>] # "ABSENT"
                        /\ run[<<u, 0>>] \in RunOver => run'[<<u, 0>>] \in RunOver
    BY <1>3, RunFacts DEF Live, RunOver
  <1>7. CancelledIsQuiet' BY <1>1, <1>6 DEF CancelledIsQuiet, ActiveChildren, Linked
  <1>8. SuppressedIsClosed' /\ DeliveredIsDecided'
    <2>1. \A t \in Task : delivery'[t].status \in {"NOT_APPLICABLE", "DELIVERED"} => delivery'[t] = delivery[t]
      BY <1>3
    <2>2. SuppressedIsClosed' BY <1>1, <2>1 DEF SuppressedIsClosed, Closed
    <2>3. DeliveredIsDecided' BY <1>1, <2>1 DEF DeliveredIsDecided
    <2> QED BY <2>2, <2>3
  <1>9. BlockOK' BY <1>1, <1>6 DEF BlockOK, Linked
  <1>10. OneLiveWake'
    <2> SUFFICES ASSUME NEW t \in Task, NEW k \in 1 .. MaxTries, run'[<<t, k>>] \in Live
                 PROVE  delivery'[t].wake = k /\ delivery'[t].status = "SESSION_QUEUED"
      BY DEF OneLiveWake, Live
    <2>1. <<t, k>> \in Runs /\ <<t, 0>> \in Runs BY RunFacts
    <2>2. run[<<t, k>>] \in Live BY <1>3, <2>1 DEF Live, RunOver
    <2>3. <<t, 0>> # r
      BY <1>1, <2>2 DEF ChildFirst, Live, RunOver
    <2> QED BY <1>1, <1>3, <2>2, <2>3 DEF OneLiveWake, Live
  <1>11. ChildFirst'
    <2> SUFFICES ASSUME NEW t \in Task, run'[<<t, 0>>] \notin RunOver
                 PROVE  /\ delivery'[t].status = "NONE"
                        /\ \A k \in 1 .. MaxTries : run'[<<t, k>>] = "ABSENT"
      BY DEF ChildFirst
    <2>1. <<t, 0>> # r /\ run[<<t, 0>>] \notin RunOver BY <1>3, RunFacts
    <2>2. delivery[t].status = "NONE" /\ \A k \in 1 .. MaxTries : run[<<t, k>>] = "ABSENT"
      BY <1>1, <2>1 DEF ChildFirst
    <2>3. \A k \in 1 .. MaxTries : <<t, k>> # r BY <2>2 DEF Live
    <2> QED BY <1>3, <2>1, <2>2, <2>3, RunFacts
  <1> QED BY <1>4, <1>5, <1>7, <1>8, <1>9, <1>10, <1>11 DEF RowsOK

\* completeWakeRun settles a delivery by what its wake Run recorded.
LEMMA CompleteRows ==
  ASSUME RowTypes, RowsOK, NEW r \in Runs, CompleteWakeRun(r), UNCHANGED <<flow, run, recorded>>
  PROVE  RowTypes' /\ RowsOK'
  <1>1. /\ CancelledIsQuiet /\ SuppressedIsClosed /\ DeliveredIsDecided /\ BlockOK
        /\ OneLiveWake /\ ChildFirst
    BY DEF RowsOK
  <1> DEFINE t == r[1]
             d == delivery[t]
             new == IF ~Bound(r) \/ d.status = "DELIVERED" \/ run[r] \notin RunOver THEN d.status
                    ELSE IF r \in recorded THEN "DELIVERED" ELSE "FAILED"
  <1>2. t \in Task /\ r = <<t, r[2]>> /\ r[2] \in 0 .. MaxTries BY RunFacts
  <1>3. delivery' = [delivery EXCEPT ![t].status = new]
    BY DEF CompleteWakeRun, SuccessfulControllerDecision
  <1>4. d \in DeliveryRow BY <1>2 DEF RowTypes
  <1>5. /\ \/ new = d.status
           \/ new = "DELIVERED" /\ r \in recorded /\ Bound(r) /\ run[r] \in RunOver
           \/ new = "FAILED" /\ Bound(r) /\ run[r] \in RunOver
    OBVIOUS
  <1>6. Bound(r) => r[2] > 0 /\ d.wake = r[2] BY DEF Bound
  <1> HIDE DEF new
  <1>7. /\ delivery' \in [Task -> DeliveryRow]
        /\ \A u \in Task : u # t => delivery'[u] = delivery[u]
        /\ delivery'[t].status = new /\ delivery'[t].wake = d.wake
    BY <1>2, <1>3, <1>4, <1>5 DEF RowTypes, DeliveryRow, Actionable
  <1> HIDE DEF d, t
  <1>8. RowTypes' BY <1>7 DEF RowTypes
  <1>9. CancelledIsQuiet' /\ BlockOK' BY <1>1 DEF CancelledIsQuiet, BlockOK, ActiveChildren, Linked
  <1>10. SuppressedIsClosed' BY <1>1, <1>5, <1>7 DEF SuppressedIsClosed, Closed, d
  <1>11. DeliveredIsDecided'
    <2>1. new = "DELIVERED" => <<t, d.wake>> \in recorded
      <3>1. CASE new = d.status BY <1>1, <1>2, <3>1 DEF DeliveredIsDecided, d
      <3>2. CASE r \in recorded /\ Bound(r) BY <1>2, <1>6, <3>2
      <3>3. CASE new = "FAILED" BY <3>3
      <3> QED BY <1>5, <3>1, <3>2, <3>3
    <2> QED BY <1>1, <1>2, <1>7, <2>1 DEF DeliveredIsDecided
  <1>12. OneLiveWake'
    <2> SUFFICES ASSUME NEW u \in Task, NEW k \in 1 .. MaxTries, run[<<u, k>>] \in Live
                 PROVE  delivery'[u].wake = k /\ delivery'[u].status = "SESSION_QUEUED"
      BY DEF OneLiveWake, Live
    <2>1. delivery[u].wake = k /\ delivery[u].status = "SESSION_QUEUED"
      BY <1>1 DEF OneLiveWake, Live
    <2>2. CASE u # t BY <1>7, <2>1, <2>2
    <2>3. CASE u = t
      <3>1. Bound(r) => r = <<u, k>> BY <1>2, <1>6, <2>1, <2>3 DEF d
      <3>2. ~(Bound(r) /\ run[r] \in RunOver) BY <3>1 DEF Live, RunOver
      <3> QED BY <1>5, <1>7, <2>1, <2>3, <3>2 DEF d
    <2> QED BY <2>2, <2>3
  <1>13. ChildFirst'
    <2> SUFFICES ASSUME NEW u \in Task, run[<<u, 0>>] \notin RunOver
                 PROVE  /\ delivery'[u].status = "NONE"
                        /\ \A k \in 1 .. MaxTries : run[<<u, k>>] = "ABSENT"
      BY DEF ChildFirst
    <2>1. delivery[u].status = "NONE" /\ \A k \in 1 .. MaxTries : run[<<u, k>>] = "ABSENT"
      BY <1>1 DEF ChildFirst
    <2>2. u = t => ~(Bound(r) /\ run[r] \in RunOver)
      BY <1>2, <1>6, <2>1 DEF RunOver
    <2> QED BY <1>5, <1>7, <2>1, <2>2 DEF d
  <1> QED BY <1>8, <1>9, <1>10, <1>11, <1>12, <1>13 DEF RowsOK

\* A write of a delivery whose child is over and which has no live wake.
LEMMA DeliveryWrite ==
  ASSUME RowTypes, RowsOK, NEW t \in Task, delivery[t].status \in {"PENDING", "FAILED"},
         NEW s \in Actionable \cup {"NOT_APPLICABLE"}, NEW n \in 0 .. MaxTries, NEW w \in 0 .. MaxTries,
         UpdateDelivery(t, s, n, w), s = "NOT_APPLICABLE" => Closed,
         UNCHANGED <<flow, recorded>>,
         \/ run' = run
         \/ /\ w >= 1 /\ s = "SESSION_QUEUED"
            /\ run' = [run EXCEPT ![<<t, w>>] = "CREATED"]
  PROVE  /\ RowTypes' /\ RowsOK'
         /\ \A u \in Task : run'[<<u, 0>>] = run[<<u, 0>>]
  <1>1. /\ CancelledIsQuiet /\ SuppressedIsClosed /\ DeliveredIsDecided /\ BlockOK
        /\ OneLiveWake /\ ChildFirst
    BY DEF RowsOK
  <1>2. delivery' = [delivery EXCEPT ![t] = [status |-> s, tries |-> n, wake |-> w]] BY DEF UpdateDelivery
  <1>3. /\ delivery' \in [Task -> DeliveryRow]
        /\ \A u \in Task : u # t => delivery'[u] = delivery[u]
        /\ delivery'[t].status = s /\ delivery'[t].wake = w
    BY <1>2 DEF RowTypes, DeliveryRow, Actionable
  <1>4. /\ run' \in [Runs -> Statuses]
        /\ \A u \in Task : run'[<<u, 0>>] = run[<<u, 0>>]
        /\ \A u \in Task, k \in 1 .. MaxTries :
              run'[<<u, k>>] = run[<<u, k>>] \/ (u = t /\ k = w /\ s = "SESSION_QUEUED")
    <2>1. CASE run' = run BY <2>1 DEF RowTypes
    <2>2. CASE w >= 1 /\ s = "SESSION_QUEUED" /\ run' = [run EXCEPT ![<<t, w>>] = "CREATED"]
      <3>1. <<t, w>> \in Runs BY RunFacts
      <3>2. run' \in [Runs -> Statuses] BY <2>2, <3>1 DEF RowTypes, Statuses
      <3>3. \A q \in Runs : q # <<t, w>> => run'[q] = run[q] BY <2>2 DEF RowTypes
      <3>4. \A u \in Task : <<u, 0>> \in Runs /\ <<u, 0>> # <<t, w>>
        <4>1. w # 0 BY <2>2
        <4> QED BY <4>1, RunFacts
      <3>5. \A u \in Task, k \in 1 .. MaxTries : <<u, k>> \in Runs /\ (<<u, k>> = <<t, w>> => u = t /\ k = w)
        <4>1. \A k \in 1 .. MaxTries : k \in 0 .. MaxTries OBVIOUS
        <4> QED BY <4>1, RunFacts
      <3> QED BY <2>2, <3>2, <3>3, <3>4, <3>5
    <2> QED BY <2>1, <2>2
  <1>5. run[<<t, 0>>] \in RunOver BY <1>1 DEF ChildFirst
  <1>6. \A k \in 1 .. MaxTries : run[<<t, k>>] \notin Live BY <1>1 DEF OneLiveWake, Live
  <1>7. RowTypes' BY <1>3, <1>4 DEF RowTypes
  <1>8. CancelledIsQuiet' /\ BlockOK' BY <1>1, <1>4 DEF CancelledIsQuiet, BlockOK, ActiveChildren, Linked
  <1>9. SuppressedIsClosed' BY <1>1, <1>3 DEF SuppressedIsClosed, Closed
  <1>10. DeliveredIsDecided' BY <1>1, <1>3 DEF DeliveredIsDecided, Actionable
  <1>11. OneLiveWake' BY <1>1, <1>3, <1>4, <1>6 DEF OneLiveWake, Live
  <1>12. ChildFirst' BY <1>1, <1>3, <1>4, <1>5 DEF ChildFirst
  <1> QED BY <1>4, <1>7, <1>8, <1>9, <1>10, <1>11, <1>12 DEF RowsOK

\* dispatch keeps the rows in agreement and touches no child.
LEMMA DispatchRows ==
  ASSUME RowTypes, RowsOK, MemoryTypes, NEW t \in Task, Dispatch(t), flow' = flow
  PROVE  /\ RowTypes' /\ RowsOK'
         /\ \A u \in Task : run'[<<u, 0>>] = run[<<u, 0>>]
         /\ active' \subseteq Runs /\ flowFaults' \in 0 .. MaxFaults
  <1>1. delivery[t] \in DeliveryRow BY DEF RowTypes
  <1>2. delivery[t].tries \in 0 .. MaxTries /\ delivery[t].wake \in 0 .. MaxTries
    BY <1>1 DEF DeliveryRow
  <1>3. active \subseteq Runs /\ flowFaults \in 0 .. MaxFaults BY DEF MemoryTypes
  <1>4. CASE UNCHANGED <<delivery, run, recorded, active, flowFaults>>
    <2>1. Closed => Closed' BY DEF Closed
    <2>2. flow'.status = "BLOCKED" => flow'.blocked \in Linked BY DEF RowsOK, BlockOK
    <2>3. flow' \in FlowRow BY DEF RowTypes
    <2>4. RowTypes' /\ RowsOK' BY <1>4, <2>1, <2>2, <2>3, FlowWrite
    <2> QED BY <1>3, <1>4, <2>4
  <1>5. CASE Revisit(t) /\ UNCHANGED flowFaults
    <2> DEFINE w == <<t, delivery[t].wake>>
    <2>1. w \in Runs BY <1>2, RunFacts
    <2>2. UNCHANGED <<run, recorded>> BY <1>5 DEF Revisit
    <2>3. CASE run[w] \in RunOver
      <3>1. CompleteWakeRun(w) /\ UNCHANGED active BY <1>5, <2>3 DEF Revisit
      <3>2. RowTypes' /\ RowsOK' BY <2>1, <2>2, <3>1, CompleteRows
      <3> QED BY <1>3, <1>5, <2>2, <3>1, <3>2
    <2>4. CASE run[w] \notin RunOver
      <3>1. active' = active \cup {w} /\ UNCHANGED delivery BY <1>5, <2>4 DEF Revisit
      <3>2. Closed => Closed' BY DEF Closed
      <3>3. flow'.status = "BLOCKED" => flow'.blocked \in Linked BY DEF RowsOK, BlockOK
      <3>4. flow' \in FlowRow BY DEF RowTypes
      <3>5. RowTypes' /\ RowsOK' BY <2>2, <3>1, <3>2, <3>3, <3>4, FlowWrite
      <3> QED BY <1>3, <1>5, <2>1, <2>2, <3>1, <3>5
    <2> QED BY <2>3, <2>4
  <1>6. CASE /\ delivery[t].status \in {"PENDING", "FAILED"} /\ Suppress(t)
             /\ UNCHANGED <<recorded, flowFaults>>
    <2>1. /\ Closed /\ UpdateDelivery(t, "NOT_APPLICABLE", delivery[t].tries, delivery[t].wake)
          /\ UNCHANGED <<run, active>>
      BY <1>6 DEF Suppress
    <2>2. RowTypes' /\ RowsOK' BY <1>2, <1>6, <2>1, DeliveryWrite
    <2> QED BY <1>3, <1>6, <2>1, <2>2
  <1>7. CASE /\ delivery[t].status \in {"PENDING", "FAILED"} /\ AdmitWake(t)
             /\ UNCHANGED <<recorded, flowFaults>>
    <2> DEFINE k == delivery[t].tries + 1
    <2>1. /\ k <= MaxTries /\ UpdateDelivery(t, "SESSION_QUEUED", k, k)
          /\ run' = [run EXCEPT ![<<t, k>>] = "CREATED"]
          /\ active' = active \cup {<<t, k>>}
      BY <1>7 DEF AdmitWake
    <2>2. k \in 0 .. MaxTries /\ k >= 1 BY <1>2, <2>1, RunFacts
    <2> HIDE DEF k
    <2>3. "SESSION_QUEUED" \in Actionable BY DEF Actionable
    <2>4. RowTypes' /\ RowsOK' /\ \A u \in Task : run'[<<u, 0>>] = run[<<u, 0>>]
      BY <1>7, <2>1, <2>2, <2>3, DeliveryWrite
    <2>5. <<t, k>> \in Runs BY <2>2, RunFacts
    <2> QED BY <1>3, <1>7, <2>1, <2>4, <2>5
  <1>8. CASE delivery[t].status \in {"PENDING", "FAILED"} /\ DispatchFails(t)
    <2>1. /\ flowFaults < MaxFaults /\ delivery[t].tries < MaxTries /\ flowFaults' = flowFaults + 1
          /\ UpdateDelivery(t, "FAILED", delivery[t].tries + 1, delivery[t].wake)
          /\ UNCHANGED <<run, recorded, active>>
      BY <1>8 DEF DispatchFails
    <2>2. delivery[t].tries + 1 \in 0 .. MaxTries /\ flowFaults' \in 0 .. MaxFaults
      BY <1>2, <1>3, <2>1, RunFacts
    <2>3. "FAILED" \in Actionable BY DEF Actionable
    <2>4. RowTypes' /\ RowsOK' BY <1>2, <1>8, <2>1, <2>2, <2>3, DeliveryWrite
    <2> QED BY <1>3, <2>1, <2>2, <2>4
  <1> QED BY <1>4, <1>5, <1>6, <1>7, <1>8 DEF Dispatch

\* A Run that is started keeps the rows in agreement.
LEMMA StartRows ==
  ASSUME RowTypes, RowsOK, NEW r \in Runs, run[r] = "CREATED",
         run' = [run EXCEPT ![r] = "RUNNING"], UNCHANGED <<flow, delivery, recorded>>
  PROVE  RowTypes' /\ RowsOK'
  <1>1. /\ CancelledIsQuiet /\ SuppressedIsClosed /\ DeliveredIsDecided /\ BlockOK
        /\ OneLiveWake /\ ChildFirst
    BY DEF RowsOK
  <1>2. /\ run' \in [Runs -> Statuses]
        /\ \A q \in Runs : run'[q] = run[q] \/ (run[q] = "CREATED" /\ run'[q] = "RUNNING")
    BY DEF RowTypes, Statuses
  <1>3. RowTypes' BY <1>2 DEF RowTypes
  <1>4. \A u \in Task : /\ run'[<<u, 0>>] # "ABSENT" <=> run[<<u, 0>>] # "ABSENT"
                        /\ run[<<u, 0>>] \in RunOver <=> run'[<<u, 0>>] \in RunOver
    BY <1>2, RunFacts DEF RunOver
  <1>5. CancelledIsQuiet' /\ BlockOK' BY <1>1, <1>4 DEF CancelledIsQuiet, BlockOK, ActiveChildren, Linked
  <1>6. SuppressedIsClosed' /\ DeliveredIsDecided' BY <1>1 DEF SuppressedIsClosed, DeliveredIsDecided, Closed
  <1>7. \A t \in Task, k \in 1 .. MaxTries :
            run'[<<t, k>>] = run[<<t, k>>] \/ (run[<<t, k>>] = "CREATED" /\ run'[<<t, k>>] = "RUNNING")
    <2>1. \A k \in 1 .. MaxTries : k \in 0 .. MaxTries OBVIOUS
    <2>2. \A t \in Task, k \in 1 .. MaxTries : <<t, k>> \in Runs BY <2>1, RunFacts
    <2> QED BY <1>2, <2>2
  <1>8. OneLiveWake' BY <1>1, <1>7 DEF OneLiveWake
  <1>9. ChildFirst' BY <1>1, <1>4, <1>7 DEF ChildFirst
  <1> QED BY <1>3, <1>5, <1>6, <1>8, <1>9 DEF RowsOK

\* So does a decision that is recorded.
LEMMA RecordRows ==
  ASSUME RowTypes, RowsOK, recorded' \subseteq Wakes, recorded \subseteq recorded',
         UNCHANGED <<flow, delivery, run>>
  PROVE  RowTypes' /\ RowsOK'
  <1>1. /\ CancelledIsQuiet /\ SuppressedIsClosed /\ DeliveredIsDecided /\ BlockOK
        /\ OneLiveWake /\ ChildFirst
    BY DEF RowsOK
  <1>2. RowTypes' BY DEF RowTypes
  <1>3. CancelledIsQuiet' /\ BlockOK' BY <1>1 DEF CancelledIsQuiet, BlockOK, ActiveChildren, Linked
  <1>4. SuppressedIsClosed' /\ DeliveredIsDecided' BY <1>1 DEF SuppressedIsClosed, DeliveredIsDecided, Closed
  <1>5. OneLiveWake' /\ ChildFirst' BY <1>1 DEF OneLiveWake, ChildFirst
  <1> QED BY <1>2, <1>3, <1>4, <1>5 DEF RowsOK

\* So does a step that leaves the rows alone.
LEMMA SameRows ==
  ASSUME RowTypes, RowsOK, UNCHANGED <<flow, delivery, run, recorded>>
  PROVE  RowTypes' /\ RowsOK'
  <1>1. recorded' \subseteq Wakes /\ recorded \subseteq recorded' BY DEF RowTypes
  <1> QED BY <1>1, RecordRows

\* Recovery ends some of the interrupted Runs and queues the others again.
LEMMA RecoverRows ==
  ASSUME RowTypes, RowsOK, NEW lost \in SUBSET {r \in Runs : run[r] = "RUNNING"},
         run' = [r \in Runs |-> IF r \in lost THEN "FAILED"
                                ELSE IF run[r] = "RUNNING" THEN "CREATED" ELSE run[r]],
         delivery' = [t \in Task |-> IF <<t, 0>> \in lost
                                     THEN [delivery[t] EXCEPT !.status = "PENDING"]
                                     ELSE delivery[t]],
         UNCHANGED <<flow, recorded>>
  PROVE  RowTypes' /\ RowsOK'
  <1>1. /\ CancelledIsQuiet /\ SuppressedIsClosed /\ DeliveredIsDecided /\ BlockOK
        /\ OneLiveWake /\ ChildFirst
    BY DEF RowsOK
  <1>2. /\ \A q \in Runs : q \in lost => run[q] = "RUNNING" /\ run'[q] = "FAILED"
        /\ \A q \in Runs : q \notin lost => run'[q] = IF run[q] = "RUNNING" THEN "CREATED" ELSE run[q]
        /\ \A t \in Task : <<t, 0>> \notin lost => delivery'[t] = delivery[t]
        /\ \A t \in Task : delivery[t] \in DeliveryRow
        /\ \A t \in Task : <<t, 0>> \in lost =>
              delivery'[t].status = "PENDING" /\ delivery'[t].wake = delivery[t].wake
              /\ delivery'[t] \in DeliveryRow
    BY DEF RowTypes, DeliveryRow, Actionable
  <1>3. RowTypes'
    <2>1. run' \in [Runs -> Statuses] BY DEF RowTypes, Statuses, RunOver
    <2>2. delivery' \in [Task -> DeliveryRow] BY <1>2
    <2> QED BY <2>1, <2>2 DEF RowTypes
  <1>4. \A u \in Task : /\ run'[<<u, 0>>] # "ABSENT" <=> run[<<u, 0>>] # "ABSENT"
                        /\ run[<<u, 0>>] \in RunOver => run'[<<u, 0>>] \in RunOver
    BY <1>2, RunFacts DEF RunOver
  <1>5. CancelledIsQuiet' /\ BlockOK' BY <1>1, <1>4 DEF CancelledIsQuiet, BlockOK, ActiveChildren, Linked
  <1>6. \A t \in Task : delivery'[t].status \in {"NOT_APPLICABLE", "DELIVERED"} => delivery'[t] = delivery[t]
    BY <1>2
  <1>7. SuppressedIsClosed' BY <1>1, <1>6 DEF SuppressedIsClosed, Closed
  <1>8. DeliveredIsDecided' BY <1>1, <1>6 DEF DeliveredIsDecided
  <1>9. OneLiveWake'
    <2> SUFFICES ASSUME NEW t \in Task, NEW k \in 1 .. MaxTries, run'[<<t, k>>] \in Live
                 PROVE  delivery'[t].wake = k /\ delivery'[t].status = "SESSION_QUEUED"
      BY DEF OneLiveWake, Live
    <2>1. <<t, k>> \in Runs /\ <<t, 0>> \in Runs BY RunFacts
    <2>2. run[<<t, k>>] \in Live BY <1>2, <2>1 DEF Live
    <2>3. <<t, 0>> \notin lost BY <1>1, <1>2, <2>1, <2>2 DEF ChildFirst, Live, RunOver
    <2> QED BY <1>1, <1>2, <2>2, <2>3 DEF OneLiveWake, Live
  <1>10. ChildFirst'
    <2> SUFFICES ASSUME NEW t \in Task, run'[<<t, 0>>] \notin RunOver
                 PROVE  /\ delivery'[t].status = "NONE"
                        /\ \A k \in 1 .. MaxTries : run'[<<t, k>>] = "ABSENT"
      BY DEF ChildFirst
    <2>1. <<t, 0>> \notin lost /\ run[<<t, 0>>] \notin RunOver BY <1>2, RunFacts DEF RunOver
    <2>2. delivery[t].status = "NONE" /\ \A k \in 1 .. MaxTries : run[<<t, k>>] = "ABSENT"
      BY <1>1, <2>1 DEF ChildFirst
    <2>3. \A k \in 1 .. MaxTries : <<t, k>> \in Runs /\ <<t, k>> \notin lost BY <1>2, <2>2, RunFacts
    <2> QED BY <1>2, <2>1, <2>2, <2>3
  <1> QED BY <1>3, <1>5, <1>7, <1>8, <1>9, <1>10 DEF RowsOK

-----------------------------------------------------------------------------
\* Outside a cancellation there is nothing left to cancel.
LEMMA NotCancelling == ASSUME phase' # "cancel" PROVE TodoOK'
  BY DEF TodoOK

\* The controller's tools and the operator's calls.
LEMMA ToolRows ==
  ASSUME RowTypes, RowsOK, active \subseteq Runs,
         \/ ControllerTool
         \/ FlowResume /\ UNCHANGED <<delivery, recorded, run, active>>
  PROVE  RowTypes' /\ RowsOK' /\ active' \subseteq Runs
  <1>1. ASSUME NEW t \in Task, RunTask(t), UNCHANGED <<delivery, recorded>>
        PROVE  RowTypes' /\ RowsOK' /\ active' \subseteq Runs
    <2>1. <<t, 0>> \in Runs BY RunFacts
    <2>2. CASE t \in Linked
      <3>1. ScheduleRun(t) /\ UNCHANGED <<flow, run>> BY <1>1, <2>2 DEF RunTask
      <3>2. active' \subseteq Runs BY <2>1, <3>1 DEF ScheduleRun
      <3> QED BY <1>1, <3>1, <3>2, SameRows
    <2>3. CASE t \notin Linked
      <3>1. /\ ~flow.cancel /\ flow.status \in {"QUEUED", "RUNNING"} /\ UpdateFlow("RUNNING", NoTask)
            /\ run' = [run EXCEPT ![<<t, 0>>] = "CREATED"] /\ active' = active \cup {<<t, 0>>}
        BY <1>1, <2>3 DEF RunTask
      <3> QED BY <1>1, <2>1, <2>3, <3>1, AdmitRows
    <2> QED BY <2>2, <2>3
  <1>2. ASSUME NEW target \in {"WAITING", "BLOCKED", "SUCCEEDED", "FAILED", "QUEUED", "RUNNING"}, NEW t,
               Mutate(target, t), UNCHANGED <<delivery, recorded, run, active>>
        PROVE  RowTypes' /\ RowsOK' /\ active' \subseteq Runs
    <2>1. target \in FlowActive \cup FlowTerminal BY DEF FlowActive, FlowTerminal
    <2>2. RowTypes' /\ RowsOK' BY <1>2, <2>1, MutateRows
    <2> QED BY <1>2, <2>2
  <1>3. CASE SetWaiting /\ UNCHANGED <<delivery, recorded, run, active>>
    BY <1>2, <1>3 DEF SetWaiting
  <1>4. CASE (\E t \in Task : SetBlocked(t)) /\ UNCHANGED <<delivery, recorded, run, active>>
    BY <1>2, <1>4 DEF SetBlocked
  <1>5. CASE FlowFinish /\ UNCHANGED <<delivery, recorded, run, active>>
    BY <1>2, <1>5 DEF FlowFinish
  <1>6. CASE FlowFail /\ UNCHANGED <<delivery, recorded, run, active>>
    BY <1>2, <1>6 DEF FlowFail
  <1>7. CASE FlowResume /\ UNCHANGED <<delivery, recorded, run, active>>
    BY <1>2, <1>7 DEF FlowResume
  <1> QED BY <1>1, <1>3, <1>4, <1>5, <1>6, <1>7 DEF ControllerTool

\* createManaged and the calls of an operator.
LEMMA OperatorStep ==
  ASSUME FlowInv, CreateManaged \/ OperatorCall \/ OperatorRequestCancel \/ BeginReconcile
  PROVE  FlowInv'
  <1>1. RowTypes /\ MemoryTypes /\ RowsOK BY DEF FlowInv
  <1>2. CASE CreateManaged
    <2>1. /\ phase = "up" /\ flow.status = "ABSENT" /\ UNCHANGED <<delivery, run, recorded>>
          /\ UNCHANGED <<active, leaving, unrecorded, phase, after, caller, todo, cancelled,
                         flowCrashes, flowFaults>>
      BY <1>2 DEF CreateManaged, flowMemory
    <2>2. PICK s \in {"QUEUED", "RUNNING"} : flow' = [flow EXCEPT !.status = s]
      BY <1>2 DEF CreateManaged
    <2>3. flow \in FlowRow BY <1>1 DEF RowTypes
    <2>4. flow' \in FlowRow /\ flow'.status = s /\ flow'.cancel = flow.cancel
      BY <2>2, <2>3 DEF FlowRow, FlowActive
    <2>5. Closed => Closed' BY <2>1, <2>4 DEF Closed, FlowTerminal
    <2>6. s # "BLOCKED" /\ s # "CANCELLED" OBVIOUS
    <2>7. RowTypes' /\ RowsOK' BY <1>1, <2>1, <2>4, <2>5, <2>6, FlowWrite
    <2>8. MemoryTypes' BY <1>1, <2>1 DEF MemoryTypes
    <2> QED BY <2>1, <2>7, <2>8, NotCancelling DEF FlowInv
  <1>3. CASE OperatorCall
    <2>1. /\ phase = "up" /\ (ControllerTool \/ (FlowResume /\ UNCHANGED <<delivery, recorded, run, active>>))
          /\ UNCHANGED <<leaving, unrecorded, phase, after, caller, todo, cancelled, flowCrashes, flowFaults>>
      BY <1>3 DEF OperatorCall
    <2>2. active \subseteq Runs BY <1>1 DEF MemoryTypes
    <2>3. RowTypes' /\ RowsOK' /\ active' \subseteq Runs BY <1>1, <2>1, <2>2, ToolRows
    <2>4. MemoryTypes' BY <1>1, <2>1, <2>3 DEF MemoryTypes
    <2> QED BY <2>1, <2>3, <2>4, NotCancelling DEF FlowInv
  <1>4. CASE OperatorRequestCancel
    <2>1. /\ phase = "up" /\ RequestCancel /\ UNCHANGED <<delivery, run, recorded>>
          /\ UNCHANGED <<active, leaving, unrecorded, phase, after, caller, todo, cancelled,
                         flowCrashes, flowFaults>>
      BY <1>4 DEF OperatorRequestCancel, flowMemory
    <2>2. RowTypes' /\ RowsOK' BY <1>1, <2>1, RequestRows
    <2>3. MemoryTypes' BY <1>1, <2>1 DEF MemoryTypes
    <2> QED BY <2>1, <2>2, <2>3, NotCancelling DEF FlowInv
  <1>5. CASE BeginReconcile
    <2>1. /\ phase' = "reconcile" /\ UNCHANGED <<flow, delivery, run, recorded>>
          /\ UNCHANGED <<active, leaving, unrecorded, after, caller, todo, cancelled, flowCrashes, flowFaults>>
      BY <1>5 DEF BeginReconcile, flowRow
    <2>2. RowTypes' /\ RowsOK' BY <1>1, <2>1, SameRows
    <2>3. MemoryTypes' BY <1>1, <2>1 DEF MemoryTypes
    <2> QED BY <2>1, <2>2, <2>3, NotCancelling DEF FlowInv
  <1> QED BY <1>2, <1>3, <1>4, <1>5

\* The first transaction of a cancellation.
LEMMA BeginCancelStep ==
  ASSUME FlowInv, NEW back \in {"up", "redrain"}, BeginCancel(back), caller' \subseteq Wakes
  PROVE  FlowInv'
  <1>1. RowTypes /\ MemoryTypes /\ RowsOK BY DEF FlowInv
  <1>2. /\ RequestCancel /\ phase' = "cancel" /\ after' = back /\ todo' = ActiveChildren
        /\ UNCHANGED <<delivery, run, recorded, active, leaving, unrecorded, cancelled,
                       flowCrashes, flowFaults>>
    BY DEF BeginCancel
  <1>3. RowTypes' /\ RowsOK' /\ ActiveChildren' = ActiveChildren BY <1>1, <1>2, RequestRows
  <1>4. todo' \subseteq Task BY <1>2 DEF ActiveChildren, Linked
  <1>5. MemoryTypes' BY <1>1, <1>2, <1>4 DEF MemoryTypes
  <1>6. TodoOK' BY <1>2, <1>3 DEF TodoOK
  <1> QED BY <1>3, <1>5, <1>6 DEF FlowInv

\* The cancellation of one child, and the dispatch of its delivery.
LEMMA CancelChildStep ==
  ASSUME FlowInv, NEW t \in Task, CancelChild(t)
  PROVE  FlowInv'
  <1>1. RowTypes /\ MemoryTypes /\ RowsOK /\ TodoOK BY DEF FlowInv
  <1>2. /\ phase = "cancel" /\ t \in todo /\ EndRuns({<<t, 0>>}, "CANCELLED")
        /\ leaving' = leaving \cup ({<<t, 0>>} \cap active) /\ active' = active \ {<<t, 0>>}
        /\ todo' = todo \ {t} /\ cancelled' = {t}
        /\ UNCHANGED <<flow, recorded, unrecorded, phase, after, caller, flowCrashes, flowFaults>>
    BY DEF CancelChild
  <1>3. todo \subseteq ActiveChildren BY <1>1, <1>2 DEF TodoOK
  <1>4. <<t, 0>> \in Runs BY RunFacts
  <1>5. run[<<t, 0>>] \in Live
    <2>1. run[<<t, 0>>] \in Statuses BY <1>1, <1>4 DEF RowTypes
    <2>2. run[<<t, 0>>] # "ABSENT" /\ run[<<t, 0>>] \notin RunOver
      BY <1>2, <1>3 DEF ActiveChildren, Linked
    <2> QED BY <2>1, <2>2 DEF Statuses, Live
  <1>6. "CANCELLED" \in RunOver BY DEF RunOver
  <1>7. /\ RowTypes' /\ RowsOK'
        /\ \A u \in Task : <<u, 0>> # <<t, 0>> => run'[<<u, 0>>] = run[<<u, 0>>]
    BY <1>1, <1>2, <1>4, <1>5, <1>6, EndRows
  <1>8. MemoryTypes' BY <1>1, <1>2, <1>4 DEF MemoryTypes
  <1>9. TodoOK'
    <2>1. \A u \in Task : u # t => run'[<<u, 0>>] = run[<<u, 0>>] BY <1>7
    <2> QED BY <1>2, <1>3, <2>1 DEF TodoOK, ActiveChildren, Linked
  <1> QED BY <1>7, <1>8, <1>9 DEF FlowInv

\* The dispatch of a delivery, by a drain, by the hook of a child that left or
\* by a cancellation.
LEMMA DispatchStep ==
  ASSUME FlowInv, NEW t \in Task, Dispatch(t), flow' = flow,
         todo' \subseteq todo, cancelled' \subseteq cancelled, leaving' \subseteq leaving,
         UNCHANGED <<unrecorded, phase, after, caller, flowCrashes>>
  PROVE  FlowInv'
  <1>1. RowTypes /\ MemoryTypes /\ RowsOK /\ TodoOK BY DEF FlowInv
  <1>2. /\ RowTypes' /\ RowsOK' /\ active' \subseteq Runs /\ flowFaults' \in 0 .. MaxFaults
        /\ \A u \in Task : run'[<<u, 0>>] = run[<<u, 0>>]
    BY <1>1, DispatchRows
  <1>3. MemoryTypes' BY <1>1, <1>2 DEF MemoryTypes
  <1>4. ActiveChildren' = ActiveChildren BY <1>2 DEF ActiveChildren, Linked
  <1>5. TodoOK' BY <1>1, <1>4 DEF TodoOK
  <1> QED BY <1>2, <1>3, <1>5 DEF FlowInv

\* The last transaction of a cancellation.
LEMMA EndCancelStep ==
  ASSUME FlowInv, EndCancel
  PROVE  FlowInv'
  <1>1. RowTypes /\ MemoryTypes /\ RowsOK BY DEF FlowInv
  <1>2. /\ IF ActiveChildren = {} THEN Mutate("CANCELLED", NoTask) ELSE UNCHANGED flow
        /\ phase' = after /\ todo' = (IF after = "redrain" THEN DrainList ELSE {})
        /\ unrecorded' = unrecorded \cup caller /\ caller' = {} /\ after' = "up"
        /\ UNCHANGED <<delivery, run, recorded, active, leaving, cancelled, flowCrashes, flowFaults>>
    BY DEF EndCancel
  <1>3. after \in {"up", "redrain"} BY <1>1 DEF MemoryTypes
  <1>4. RowTypes' /\ RowsOK'
    <2>1. CASE ActiveChildren = {}
      <3>1. "CANCELLED" \in FlowActive \cup FlowTerminal BY DEF FlowTerminal
      <3> QED BY <1>1, <1>2, <2>1, <3>1, MutateRows
    <2>2. CASE ActiveChildren # {} BY <1>1, <1>2, <2>2, SameRows
    <2> QED BY <2>1, <2>2
  <1>5. MemoryTypes' BY <1>1, <1>2, <1>3 DEF MemoryTypes, DrainList
  <1>6. phase' # "cancel" BY <1>2, <1>3
  <1> QED BY <1>4, <1>5, <1>6, NotCancelling DEF FlowInv

\* A crash, the recovery, and the steps of the start-up.
LEMMA StartupStep ==
  ASSUME FlowInv, FlowCrash \/ FlowRecover \/ DrainEnds \/ ScheduleRunnable
  PROVE  FlowInv'
  <1>1. RowTypes /\ MemoryTypes /\ RowsOK BY DEF FlowInv
  <1>2. CASE FlowCrash
    <2>1. /\ flowCrashes < MaxCrashes /\ flowCrashes' = flowCrashes + 1
          /\ active' = {} /\ leaving' = {} /\ unrecorded' = {} /\ caller' = {}
          /\ todo' = {} /\ cancelled' = {} /\ phase' = "down" /\ after' = "up"
          /\ UNCHANGED <<flow, delivery, run, recorded, flowFaults>>
      BY <1>2 DEF FlowCrash, flowRow
    <2>2. flowCrashes' \in 0 .. MaxCrashes BY <1>1, <2>1, RunFacts DEF MemoryTypes
    <2>3. RowTypes' /\ RowsOK' BY <1>1, <2>1, SameRows
    <2>4. MemoryTypes' BY <1>1, <2>1, <2>2 DEF MemoryTypes
    <2> QED BY <2>1, <2>3, <2>4, NotCancelling DEF FlowInv
  <1>3. CASE FlowRecover
    <2>1. /\ phase' = "drain" /\ todo' \subseteq Task
          /\ UNCHANGED <<flow, recorded, active, leaving, unrecorded, after, caller, cancelled,
                         flowCrashes, flowFaults>>
      BY <1>3 DEF FlowRecover
    <2>2. PICK lost \in SUBSET {r \in Runs : run[r] = "RUNNING"} :
             /\ run' = [r \in Runs |-> IF r \in lost THEN "FAILED"
                                       ELSE IF run[r] = "RUNNING" THEN "CREATED" ELSE run[r]]
             /\ delivery' = [t \in Task |-> IF <<t, 0>> \in lost
                                            THEN [delivery[t] EXCEPT !.status = "PENDING"]
                                            ELSE delivery[t]]
      BY <1>3 DEF FlowRecover
    <2>3. RowTypes' /\ RowsOK' BY <1>1, <2>1, <2>2, RecoverRows
    <2>4. MemoryTypes' BY <1>1, <2>1 DEF MemoryTypes
    <2> QED BY <2>1, <2>3, <2>4, NotCancelling DEF FlowInv
  <1>4. CASE DrainEnds
    <2>1. /\ phase' \in {"schedule", "up"} /\ UNCHANGED <<flow, delivery, run, recorded>>
          /\ UNCHANGED <<active, leaving, unrecorded, after, caller, todo, cancelled, flowCrashes, flowFaults>>
      BY <1>4 DEF DrainEnds, flowRow
    <2>2. RowTypes' /\ RowsOK' BY <1>1, <2>1, SameRows
    <2>3. MemoryTypes' BY <1>1, <2>1 DEF MemoryTypes
    <2> QED BY <2>1, <2>2, <2>3, NotCancelling DEF FlowInv
  <1>5. CASE ScheduleRunnable
    <2>1. /\ phase' = "reconcile" /\ active' = active \cup {r \in Runs : run[r] = "CREATED"}
          /\ UNCHANGED <<flow, delivery, run, recorded>>
          /\ UNCHANGED <<leaving, unrecorded, after, caller, todo, cancelled, flowCrashes, flowFaults>>
      BY <1>5 DEF ScheduleRunnable, flowRow
    <2>2. RowTypes' /\ RowsOK' BY <1>1, <2>1, SameRows
    <2>3. MemoryTypes' BY <1>1, <2>1 DEF MemoryTypes
    <2> QED BY <2>1, <2>2, <2>3, NotCancelling DEF FlowInv
  <1> QED BY <1>2, <1>3, <1>4, <1>5

\* taskFlow reconcile, and a child that is found lost.
LEMMA ReconcileStep ==
  ASSUME FlowInv, FlowReconcile \/ \E t \in Task : MarkRunLost(t)
  PROVE  FlowInv'
  <1>1. RowTypes /\ MemoryTypes /\ RowsOK BY DEF FlowInv
  <1>2. CASE BeginCancel("redrain") /\ UNCHANGED caller
    <2>1. caller' \subseteq Wakes BY <1>1, <1>2 DEF MemoryTypes
    <2> QED BY <1>2, <2>1, BeginCancelStep
  <1>3. CASE /\ phase' = "redrain" /\ todo' = DrainList
             /\ UNCHANGED <<flowRow, active, leaving, unrecorded, after, caller, cancelled,
                            flowCrashes, flowFaults>>
    <2>1. RowTypes' /\ RowsOK' BY <1>1, <1>3, SameRows DEF flowRow
    <2>2. MemoryTypes' BY <1>1, <1>3 DEF MemoryTypes, DrainList
    <2> QED BY <1>3, <2>1, <2>2, NotCancelling DEF FlowInv
  <1>4. ASSUME NEW t \in Task, MarkRunLost(t) PROVE FlowInv'
    <2>1. /\ t \in ActiveChildren /\ EndRuns({<<t, 0>>}, "FAILED")
          /\ phase' = "redrain" /\ todo' = DrainList \cup {t}
          /\ UNCHANGED <<flow, recorded, active, leaving, unrecorded, after, caller, cancelled,
                         flowCrashes, flowFaults>>
      BY <1>4 DEF MarkRunLost
    <2>2. <<t, 0>> \in Runs /\ "FAILED" \in RunOver BY RunFacts DEF RunOver
    <2>3. run[<<t, 0>>] \in Live
      <3>1. run[<<t, 0>>] \in Statuses BY <1>1, <2>2 DEF RowTypes
      <3> QED BY <2>1, <3>1 DEF ActiveChildren, Linked, Statuses, Live
    <2>4. RowTypes' /\ RowsOK' BY <1>1, <2>1, <2>2, <2>3, EndRows
    <2>5. MemoryTypes' BY <1>1, <2>1 DEF MemoryTypes, DrainList
    <2> QED BY <2>1, <2>4, <2>5, NotCancelling DEF FlowInv
  <1> QED BY <1>2, <1>3, <1>4 DEF FlowReconcile

\* A Run starts, ends, is cancelled or loses its execution.
LEMMA RunStepOK ==
  ASSUME FlowInv, NEW r \in Runs,
         StartRun(r) \/ WakeRunEnds(r) \/ OnRunTerminalRejects(r) \/ CancelRun(r) \/ DropExecution(r)
  PROVE  FlowInv'
  <1>1. RowTypes /\ MemoryTypes /\ RowsOK BY DEF FlowInv
  <1>2. CASE StartRun(r)
    <2>1. /\ phase = "up" /\ run[r] = "CREATED" /\ run' = [run EXCEPT ![r] = "RUNNING"]
          /\ UNCHANGED <<flow, delivery, recorded>>
          /\ UNCHANGED <<active, leaving, unrecorded, phase, after, caller, todo, cancelled,
                         flowCrashes, flowFaults>>
      BY <1>2 DEF StartRun, flowMemory
    <2>2. RowTypes' /\ RowsOK' BY <1>1, <2>1, StartRows
    <2>3. MemoryTypes' BY <1>1, <2>1 DEF MemoryTypes
    <2> QED BY <2>1, <2>2, <2>3, NotCancelling DEF FlowInv
  <1>3. ASSUME NEW s \in RunOver, EndRuns({r}, s), run[r] \in Live, phase = "up",
               active' \subseteq active, leaving' \subseteq leaving \cup {r},
               UNCHANGED <<flow, recorded, unrecorded, phase, after, caller, todo, cancelled,
                           flowCrashes, flowFaults>>
        PROVE  FlowInv'
    <2>1. RowTypes' /\ RowsOK' BY <1>1, <1>3, EndRows
    <2>2. MemoryTypes' BY <1>1, <1>3 DEF MemoryTypes
    <2> QED BY <1>3, <2>1, <2>2, NotCancelling DEF FlowInv
  <1>4. CASE WakeRunEnds(r)
    <2>1. /\ phase = "up" /\ run[r] = "RUNNING" /\ active' = active \ {r} /\ leaving' = leaving \cup {r}
          /\ UNCHANGED <<flow, recorded, unrecorded, phase, after, caller, todo, cancelled,
                         flowCrashes, flowFaults>>
      BY <1>4 DEF WakeRunEnds
    <2>2. PICK s \in {"COMPLETED", "FAILED"} : EndRuns({r}, s) BY <1>4 DEF WakeRunEnds
    <2>3. s \in RunOver /\ run[r] \in Live BY <2>1 DEF RunOver, Live
    <2> QED BY <1>3, <2>1, <2>2, <2>3
  <1>5. CASE CancelRun(r)
    <2>1. /\ phase = "up" /\ run[r] \in {"CREATED", "RUNNING"} /\ EndRuns({r}, "CANCELLED")
          /\ active' = active \ {r} /\ leaving' = leaving \cup ({r} \cap active)
          /\ UNCHANGED <<flow, recorded, unrecorded, phase, after, caller, todo, cancelled,
                         flowCrashes, flowFaults>>
      BY <1>5 DEF CancelRun
    <2>2. "CANCELLED" \in RunOver /\ run[r] \in Live BY <2>1 DEF RunOver, Live
    <2> QED BY <1>3, <2>1, <2>2
  <1>6. CASE OnRunTerminalRejects(r) \/ DropExecution(r)
    <2>1. /\ phase = "up" /\ flowFaults < MaxFaults /\ flowFaults' = flowFaults + 1
          /\ active' \subseteq active /\ leaving' \subseteq leaving
          /\ UNCHANGED <<flow, delivery, run, recorded>>
          /\ UNCHANGED <<unrecorded, phase, after, caller, todo, cancelled, flowCrashes>>
      BY <1>6 DEF OnRunTerminalRejects, DropExecution, flowRow
    <2>2. flowFaults' \in 0 .. MaxFaults BY <1>1, <2>1, RunFacts DEF MemoryTypes
    <2>3. RowTypes' /\ RowsOK' BY <1>1, <2>1, SameRows
    <2>4. MemoryTypes' BY <1>1, <2>1, <2>2 DEF MemoryTypes
    <2> QED BY <2>1, <2>3, <2>4, NotCancelling DEF FlowInv
  <1> QED BY <1>2, <1>4, <1>5, <1>6

\* onRunTerminal, of a wake and of a child.
LEMMA OnRunTerminalStep ==
  ASSUME FlowInv, NEW r \in Runs, OnRunTerminal(r)
  PROVE  FlowInv'
  <1>1. RowTypes /\ MemoryTypes /\ RowsOK BY DEF FlowInv
  <1>2. /\ phase = "up" /\ leaving' = leaving \ {r}
        /\ UNCHANGED <<flow, unrecorded, phase, after, caller, todo, cancelled, flowCrashes>>
    BY DEF OnRunTerminal
  <1>3. CASE CompleteWakeRun(r) /\ UNCHANGED <<run, recorded, active, flowFaults>>
    <2>1. RowTypes' /\ RowsOK' BY <1>1, <1>2, <1>3, CompleteRows
    <2>2. MemoryTypes' BY <1>1, <1>2, <1>3 DEF MemoryTypes
    <2> QED BY <1>2, <2>1, <2>2, NotCancelling DEF FlowInv
  <1>4. CASE Dispatch(r[1])
    <2> DEFINE t == r[1]
    <2>1. t \in Task BY RunFacts
    <2>2. Dispatch(t) BY <1>4
    <2>3. todo' \subseteq todo /\ cancelled' \subseteq cancelled /\ leaving' \subseteq leaving BY <1>2
    <2> HIDE DEF t
    <2> QED BY <1>2, <2>1, <2>2, <2>3, DispatchStep
  <1> QED BY <1>3, <1>4 DEF OnRunTerminal

\* The decisions of a controller, and the events that record them.
LEMMA DecisionStep ==
  ASSUME FlowInv, NEW r \in Wakes, Decide(r) \/ DecideCancel(r) \/ RecordDecision(r)
  PROVE  FlowInv'
  <1>1. RowTypes /\ MemoryTypes /\ RowsOK BY DEF FlowInv
  <1>2. CASE Decide(r)
    <2>1. /\ phase = "up" /\ ControllerTool /\ unrecorded' = unrecorded \cup {r}
          /\ UNCHANGED <<leaving, phase, after, caller, todo, cancelled, flowCrashes, flowFaults>>
      BY <1>2 DEF Decide
    <2>2. active \subseteq Runs BY <1>1 DEF MemoryTypes
    <2>3. RowTypes' /\ RowsOK' /\ active' \subseteq Runs BY <1>1, <2>1, <2>2, ToolRows
    <2>4. MemoryTypes' BY <1>1, <2>1, <2>3 DEF MemoryTypes
    <2> QED BY <2>1, <2>3, <2>4, NotCancelling DEF FlowInv
  <1>3. CASE DecideCancel(r)
    <2>1. BeginCancel("up") /\ caller' = {r} BY <1>3 DEF DecideCancel
    <2>2. caller' \subseteq Wakes BY <2>1
    <2> QED BY <2>1, <2>2, BeginCancelStep
  <1>4. CASE RecordDecision(r)
    <2>1. /\ phase = "up" /\ recorded' = (IF run[r] = "RUNNING" THEN recorded \cup {r} ELSE recorded)
          /\ unrecorded' = unrecorded \ {r}
          /\ UNCHANGED <<flow, delivery, run, active, leaving, phase, after, caller, todo, cancelled,
                         flowCrashes, flowFaults>>
      BY <1>4 DEF RecordDecision
    <2>2. recorded \subseteq Wakes BY <1>1 DEF RowTypes
    <2>3. recorded' \subseteq Wakes /\ recorded \subseteq recorded' BY <2>1, <2>2
    <2>4. RowTypes' /\ RowsOK' BY <1>1, <2>1, <2>3, RecordRows
    <2>5. MemoryTypes' BY <1>1, <2>1 DEF MemoryTypes
    <2> QED BY <2>1, <2>4, <2>5, NotCancelling DEF FlowInv
  <1> QED BY <1>2, <1>3, <1>4

-----------------------------------------------------------------------------
\* The initial state satisfies the invariant.
LEMMA FlowInvInit == FlowInit => FlowInv
  <1> SUFFICES ASSUME FlowInit PROVE FlowInv OBVIOUS
  <1>1. /\ flow = [status |-> "ABSENT", cancel |-> FALSE, blocked |-> NoTask]
        /\ delivery = [t \in Task |-> [status |-> "NONE", tries |-> 0, wake |-> 0]]
        /\ run = [r \in Runs |-> "ABSENT"] /\ phase = "up"
    BY DEF FlowInit
  <1>2. \A t \in Task : delivery[t].status = "NONE" BY <1>1
  <1>3. \A t \in Task, k \in 1 .. MaxTries : run[<<t, k>>] = "ABSENT"
    <2>1. \A k \in 1 .. MaxTries : k \in 0 .. MaxTries OBVIOUS
    <2>2. \A t \in Task, k \in 1 .. MaxTries : <<t, k>> \in Runs BY <2>1, RunFacts
    <2> QED BY <1>1, <2>2
  <1>4. RowTypes
    <2>1. flow \in FlowRow BY <1>1 DEF FlowRow
    <2>2. delivery \in [Task -> DeliveryRow] BY <1>1, RunFacts DEF DeliveryRow
    <2>3. run \in [Runs -> Statuses] /\ recorded \subseteq Wakes BY DEF FlowInit, Statuses
    <2> QED BY <2>1, <2>2, <2>3 DEF RowTypes
  <1>5. MemoryTypes BY RunFacts DEF FlowInit, MemoryTypes
  <1>6. CancelledIsQuiet /\ SuppressedIsClosed /\ DeliveredIsDecided /\ BlockOK
    BY <1>1, <1>2 DEF CancelledIsQuiet, SuppressedIsClosed, DeliveredIsDecided, BlockOK
  <1>7. OneLiveWake /\ ChildFirst BY <1>2, <1>3 DEF OneLiveWake, ChildFirst
  <1>8. TodoOK BY <1>1 DEF TodoOK
  <1> QED BY <1>4, <1>5, <1>6, <1>7, <1>8 DEF FlowInv, RowsOK

\* Every step of the Host, of the Runs and of the callers keeps the invariant.
LEMMA FlowInvStep == FlowInv /\ [FlowNext]_flowVars => FlowInv'
  <1> SUFFICES ASSUME FlowInv, [FlowNext]_flowVars PROVE FlowInv' OBVIOUS
  <1>1. CASE CreateManaged \/ OperatorCall \/ OperatorRequestCancel \/ BeginReconcile BY <1>1, OperatorStep
  <1>2. CASE OperatorCancel
    <2>1. BeginCancel("up") /\ caller' \subseteq Wakes
      BY <1>2 DEF OperatorCancel, FlowInv, MemoryTypes
    <2> QED BY <2>1, BeginCancelStep
  <1>3. CASE FlowCrash \/ FlowRecover \/ DrainEnds \/ ScheduleRunnable BY <1>3, StartupStep
  <1>4. CASE FlowReconcile \/ \E t \in Task : MarkRunLost(t) BY <1>4, ReconcileStep
  <1>5. CASE EndCancel BY <1>5, EndCancelStep
  <1>6. ASSUME NEW t \in Task, CancelChild(t) \/ DispatchCancelled(t) \/ DrainOne(t) PROVE FlowInv'
    <2>1. CASE CancelChild(t) BY <2>1, CancelChildStep
    <2>2. CASE DispatchCancelled(t)
      <3>1. /\ Dispatch(t) /\ cancelled' = {}
            /\ UNCHANGED <<flow, leaving, unrecorded, phase, after, caller, todo, flowCrashes>>
        BY <2>2 DEF DispatchCancelled
      <3>2. todo' \subseteq todo /\ cancelled' \subseteq cancelled /\ leaving' \subseteq leaving BY <3>1
      <3> QED BY <3>1, <3>2, DispatchStep
    <2>3. CASE DrainOne(t)
      <3>1. /\ Dispatch(t) /\ todo' = todo \ {t}
            /\ UNCHANGED <<flow, leaving, unrecorded, phase, after, caller, cancelled, flowCrashes>>
        BY <2>3 DEF DrainOne
      <3>2. todo' \subseteq todo /\ cancelled' \subseteq cancelled /\ leaving' \subseteq leaving BY <3>1
      <3> QED BY <3>1, <3>2, DispatchStep
    <2> QED BY <1>6, <2>1, <2>2, <2>3
  <1>7. ASSUME NEW r \in Runs, RunStep(r) \/ CancelRun(r) \/ DropExecution(r) PROVE FlowInv'
    BY <1>7, RunStepOK, OnRunTerminalStep DEF RunStep
  <1>8. ASSUME NEW r \in Wakes, Decide(r) \/ DecideCancel(r) \/ RecordDecision(r) PROVE FlowInv'
    BY <1>8, DecisionStep
  <1>9. CASE UNCHANGED flowVars
    <2>1. /\ UNCHANGED <<flow, delivery, run, recorded>>
          /\ UNCHANGED <<active, leaving, unrecorded, phase, after, caller, todo, cancelled,
                         flowCrashes, flowFaults>>
      BY <1>9 DEF flowVars, flowRow, flowMemory
    <2>2. RowTypes' /\ RowsOK' BY <2>1, SameRows DEF FlowInv
    <2>3. MemoryTypes' BY <2>1 DEF FlowInv, MemoryTypes
    <2>4. TodoOK' BY <2>1 DEF FlowInv, TodoOK, ActiveChildren, Linked
    <2> QED BY <2>2, <2>3, <2>4 DEF FlowInv
  <1> QED BY <1>1, <1>2, <1>3, <1>4, <1>5, <1>6, <1>7, <1>8, <1>9 DEF FlowNext, HostStep

\* FlowInv holds in every state of the specification.
THEOREM FlowInductive == FlowSpec => []FlowInv
  BY FlowInvInit, FlowInvStep, PTL DEF FlowSpec

\* Flows, Tasks, deliveries and wakes agree for any number of children, wakes,
\* crashes and faults: a cancelled Flow has no active child, a completion is
\* dropped only for a closed Flow, DELIVERED means decided, a blocked Flow
\* names its child and a delivery has at most one live wake.
THEOREM FlowsCorrect == FlowSpec => []FlowsAgree
  <1>1. FlowInv => FlowsAgree
    <2> SUFFICES ASSUME FlowInv PROVE FlowsAgree OBVIOUS
    <2>1. RowTypes /\ MemoryTypes /\ RowsOK BY DEF FlowInv
    <2>2. FlowTypeOK BY <2>1 DEF RowTypes, MemoryTypes, FlowTypeOK, Statuses
    <2>3. BlockedIsLinked BY <2>1 DEF RowsOK, BlockOK, BlockedIsLinked, Audit
    <2> QED BY <2>1, <2>2, <2>3 DEF FlowsAgree, RowsOK
  <1> QED BY <1>1, FlowInductive, PTL
-----------------------------------------------------------------------------
(* Skills: the snapshots of one Run.                                        *)

\* The sources that have the skill in good order, and the skills that the text
\* of the Run activates.
Healthy(k) == {s \in Source : files[s][k].manifest # 0}
Wanted == {k \in Skill : Enabled(k) /\ Healthy(k) # {} /\ files[First(Healthy(k))][k].manifest = 1}

\* A capture that has begun and has no row yet.
Copying == {"manifest", "text", "rename", "insert"}
Resolving == {"discover", "capture"} \cup Copying

\* Only skills that were found and activated are chosen; what counts as captured
\* has its row.
ChosenFits ==
    /\ stage = "discover" => chosen = {} /\ captured = {}
    /\ \A k \in chosen : Candidates(k) # {} /\ Catalog(k).manifest = 1
    /\ \A k \in captured : Captured(k)

\* The skill that is copied has no row yet; before the row is written its
\* directory is the copy.
CopyFits ==
    /\ stage \in Copying => chosen # {} /\ ~Captured(First(chosen))
    /\ stage \in {"text", "rename", "insert"} => copy \in SkillDir
    /\ stage = "insert" => stored[First(chosen)] = copy

\* The context ends the captures for good: it lists rows that exist, and every
\* result was read from them.
ContextFits ==
    /\ stage \in Resolving => ~HasContext
    /\ stage \in {"load", "event"} => HasContext
    /\ stage = "event" => context = captured
    /\ HasContext => \A k \in context : Captured(k)
    /\ \A r \in results : HasContext /\ r = Given(context)

\* While nobody edits, discovery has read what is there.
ReadAsIs ==
    /\ stage = "discover" => \A s \in Source \ unread : \A k \in Skill : found[s][k] = files[s][k].manifest
    /\ stage \in {"capture"} \cup Copying => \A s \in Source : \A k \in Skill : found[s][k] = files[s][k].manifest

\* While nobody edits, every resolution wants the same skills, and those that a
\* resolution before a crash captured are among them.
CapturesAsWanted ==
    /\ stage \in {"capture"} \cup Copying => Wanted = chosen \cup captured
    /\ stage \in {"text", "rename", "insert"} => copy.manifest = 1
    /\ \A k \in Skill : Captured(k) =>
          /\ k \in Wanted
          /\ snapshots[k].from = First(Healthy(k)) /\ snapshots[k].manifest = 1 /\ snapshots[k].files.manifest = 1
    /\ HasContext => context = {k \in Skill : Captured(k)}

\* The inductive invariant of Skills.
SkillsInv ==
    /\ SkillsTypeOK /\ SnapshotIntact
    /\ ChosenFits /\ CopyFits /\ ContextFits
    /\ skillBudget.edits = 0 => ReadAsIs /\ CapturesAsWanted

\* The types and the assumption, part by part.
LEMMA SkillTypes ==
    ASSUME SkillsInv
    PROVE  /\ files \in [Source -> [Skill -> SkillDir]]
           /\ stage \in {"idle", "discover", "capture", "manifest", "text", "rename", "insert", "event", "load",
                         "ready", "failed"}
           /\ unread \subseteq Source
           /\ found \in [Source -> [Skill -> 0 .. 2]] /\ sources \in [Source -> [Skill -> 0 .. 2]]
           /\ \A k \in chosen : Catalog(k) \in SkillCatalogEntry
           /\ chosen \subseteq Skill /\ captured \subseteq Skill
           /\ copy \in SkillDir \cup {NoSkill}
           /\ stored \in [Skill -> SkillDir \cup {NoSkill}]
           /\ snapshots \in [Skill -> LedgerSkillSnapshotRow \cup {NoSkill}]
           /\ context = NoSkill \/ context \subseteq Skill
           /\ noted \in BOOLEAN
           /\ skillBudget \in [edits : 0 .. MaxSkillEdits, resumes : 0 .. MaxResumes, crashes : 0 .. MaxSkillCrashes]
  BY DEF SkillsInv, SkillsTypeOK

\* A nonempty set of numbers has a first one.
LEMMA FirstIsLeast ==
    ASSUME NEW S \in SUBSET Nat, S # {}
    PROVE  First(S) \in S /\ \A j \in S : First(S) <= j
<1>1. PICK x \in S : \A y \in S : ~ (<<y, x>> \in OpToRel(<, Nat)) BY NatLessThanWellFounded, WFMin
<1>2. ASSUME NEW y \in S PROVE x <= y
  <2>1. y \in Nat /\ x \in Nat /\ <<y, x>> \in Nat \X Nat OBVIOUS
  <2>2. <<y, x>>[1] = y /\ <<y, x>>[2] = x OBVIOUS
  <2>3. ~(y < x) BY <1>1, <2>1, <2>2, Zenon DEF OpToRel
  <2> QED BY <2>1, <2>3
<1> QED BY <1>2 DEF First

\* The skill that is captured next.
LEMMA NextChosen ==
    ASSUME SkillsInv, chosen # {}
    PROVE  /\ First(chosen) \in chosen /\ First(chosen) \in Skill
           /\ Catalog(First(chosen)) \in SkillCatalogEntry /\ Catalog(First(chosen)).manifest = 1
           /\ Catalog(First(chosen)).from \in Source /\ Catalog(First(chosen)).from = First(Candidates(First(chosen)))
<1>1. chosen \in SUBSET Nat BY SkillTypes, SkillsAssumption
<1>2. First(chosen) \in chosen BY <1>1, FirstIsLeast
<1>3. Catalog(First(chosen)) \in SkillCatalogEntry /\ Catalog(First(chosen)).manifest = 1
  BY <1>2, SkillTypes DEF SkillsInv, ChosenFits
<1>4. Catalog(First(chosen)).from \in Source BY <1>3 DEF SkillCatalogEntry
<1>5. Catalog(First(chosen)).from = First(Candidates(First(chosen))) BY DEF Catalog
<1> QED BY <1>2, <1>3, <1>4, <1>5, SkillTypes

\* A step of the resolution that changes no file, no row and no directory, and
\* chooses nothing: the places where it waits decide.
LEMMA SkillFrame ==
    ASSUME SkillsInv, UNCHANGED <<files, found, chosen, captured, sources, stored, snapshots, context, results>>,
           copy' \in SkillDir \cup {NoSkill}, unread' \subseteq Source, noted' \in BOOLEAN,
           skillBudget' \in [edits : 0 .. MaxSkillEdits, resumes : 0 .. MaxResumes, crashes : 0 .. MaxSkillCrashes],
           skillBudget'.edits = skillBudget.edits,
           \/ stage' \in {"idle", "ready", "failed"}
           \/ /\ stage' \in {"text", "rename"} /\ stage \in Copying
              /\ copy' \in SkillDir /\ (skillBudget.edits = 0 => copy'.manifest = 1)
    PROVE  SkillsInv'
<1>1. SkillsTypeOK'
  <2>1. stage' \in {"idle", "discover", "capture", "manifest", "text", "rename", "insert", "event", "load",
                    "ready", "failed"} OBVIOUS
  <2>2. \A k \in chosen' : Catalog(k)' \in SkillCatalogEntry BY SkillTypes DEF Catalog, Candidates
  <2> QED BY <2>1, <2>2, SkillTypes DEF SkillsTypeOK
<1>2. SnapshotIntact' BY DEF SkillsInv, SnapshotIntact, Captured
<1>3. ChosenFits' BY DEF SkillsInv, ChosenFits, Captured, Catalog, Candidates
<1>4. CopyFits' BY DEF SkillsInv, CopyFits, Captured, Copying
<1>5. ContextFits' BY DEF SkillsInv, ContextFits, Captured, HasContext, Given, Resolving, Copying
<1>6. ASSUME skillBudget'.edits = 0 PROVE ReadAsIs' BY <1>6 DEF SkillsInv, ReadAsIs, Copying
<1>7. ASSUME skillBudget'.edits = 0 PROVE CapturesAsWanted'
  <2>1. CapturesAsWanted BY <1>7 DEF SkillsInv
  <2>2. Wanted' = Wanted /\ \A k \in Skill : Healthy(k)' = Healthy(k) BY DEF Wanted, Healthy, Enabled
  <2> QED BY <1>7, <2>1, <2>2 DEF CapturesAsWanted, Captured, HasContext, Copying
<1> QED BY <1>1, <1>2, <1>3, <1>4, <1>5, <1>6, <1>7 DEF SkillsInv

\* A resolution begins by looking for the context.
LEMMA SkillResolves ==
    ASSUME SkillsInv, ResolveForRun
    PROVE  SkillsInv'
<1>1. /\ stage' = (IF HasContext THEN "load" ELSE "discover") /\ unread' = (IF HasContext THEN {} ELSE Source)
      /\ found' = NoneFound /\ chosen' = {} /\ captured' = {} /\ copy' = NoSkill
      /\ UNCHANGED <<files, sources, stored, snapshots, context, noted, results, skillBudget>>
  BY DEF ResolveForRun, durable
<1>2. NoneFound \in [Source -> [Skill -> 0 .. 2]] BY DEF NoneFound
<1>3. SkillsTypeOK' BY <1>1, <1>2, SkillTypes DEF SkillsTypeOK
<1>4. SnapshotIntact' BY <1>1 DEF SkillsInv, SnapshotIntact, Captured
<1>5. ChosenFits' BY <1>1 DEF ChosenFits
<1>6. CopyFits' BY <1>1 DEF CopyFits, Copying
<1>7. ContextFits' BY <1>1 DEF SkillsInv, ContextFits, Captured, HasContext, Given, Resolving, Copying
<1>8. ReadAsIs' BY <1>1 DEF ReadAsIs, Copying
<1>9. ASSUME skillBudget'.edits = 0 PROVE CapturesAsWanted'
  <2>1. CapturesAsWanted BY <1>1, <1>9 DEF SkillsInv
  <2>2. Wanted' = Wanted /\ \A k \in Skill : Healthy(k)' = Healthy(k) BY <1>1 DEF Wanted, Healthy, Enabled
  <2> QED BY <1>1, <2>1, <2>2 DEF CapturesAsWanted, Captured, HasContext, Copying
<1> QED BY <1>3, <1>4, <1>5, <1>6, <1>7, <1>8, <1>9 DEF SkillsInv

\* One source is read.
LEMMA SkillDiscovers ==
    ASSUME SkillsInv, DiscoverSource
    PROVE  SkillsInv'
<1> DEFINE s == First(unread)
<1>1. /\ stage = "discover" /\ unread # {}
      /\ found' = [found EXCEPT ![s] = [k \in Skill |-> files[s][k].manifest]] /\ unread' = unread \ {s}
      /\ UNCHANGED <<files, stage, chosen, captured, copy, sources, stored, snapshots, context, noted, results, skillBudget>>
  BY DEF DiscoverSource, durable
<1>2. unread \in SUBSET Nat BY SkillTypes, SkillsAssumption
<1>3. s \in unread /\ s \in Source BY <1>1, <1>2, FirstIsLeast, SkillTypes
<1> HIDE DEF s
<1>4. [k \in Skill |-> files[s][k].manifest] \in [Skill -> 0 .. 2] BY <1>3, SkillTypes DEF SkillDir
<1>5. found' \in [Source -> [Skill -> 0 .. 2]] BY <1>1, <1>4, SkillTypes
<1>6. chosen = {} /\ captured = {} BY <1>1 DEF SkillsInv, ChosenFits
<1>7. SkillsTypeOK' BY <1>1, <1>5, <1>6, SkillTypes DEF SkillsTypeOK
<1>8. SnapshotIntact' BY <1>1 DEF SkillsInv, SnapshotIntact, Captured
<1>9. ChosenFits' BY <1>1, <1>6 DEF ChosenFits
<1>10. CopyFits' BY <1>1 DEF CopyFits, Copying
<1>11. ContextFits' BY <1>1 DEF SkillsInv, ContextFits, Captured, HasContext, Given, Resolving, Copying
<1>12. ASSUME skillBudget'.edits = 0 PROVE ReadAsIs'
  <2>1. ReadAsIs BY <1>1, <1>12 DEF SkillsInv
  <2>2. ASSUME NEW x \in Source \ unread', NEW k \in Skill PROVE found'[x][k] = files'[x][k].manifest
    <3>1. CASE x = s BY <1>1, <1>3, <3>1, SkillTypes
    <3>2. CASE x # s BY <1>1, <2>1, <2>2, <3>2, SkillTypes DEF ReadAsIs
    <3> QED BY <3>1, <3>2
  <2> QED BY <1>1, <2>2 DEF ReadAsIs, Copying
<1>13. ASSUME skillBudget'.edits = 0 PROVE CapturesAsWanted'
  <2>1. CapturesAsWanted BY <1>1, <1>13 DEF SkillsInv
  <2>2. Wanted' = Wanted /\ \A k \in Skill : Healthy(k)' = Healthy(k) BY <1>1 DEF Wanted, Healthy, Enabled
  <2> QED BY <1>1, <2>1, <2>2 DEF CapturesAsWanted, Captured, HasContext, Copying
<1> QED BY <1>7, <1>8, <1>9, <1>10, <1>11, <1>12, <1>13 DEF SkillsInv

\* The text of the Run selects: without edits, exactly what is wanted.
LEMMA SkillSelects ==
    ASSUME SkillsInv, SelectActivatedSkills
    PROVE  SkillsInv'
<1>1. /\ stage = "discover" /\ unread = {} /\ sources' = found /\ stage' = "capture"
      /\ chosen' = {k \in Skill : Enabled(k) /\ Candidates(k) # {} /\ Catalog(k).manifest = 1}
      /\ UNCHANGED <<files, unread, found, captured, copy, stored, snapshots, context, noted, results, skillBudget>>
  BY DEF SelectActivatedSkills
<1>2. captured = {} BY <1>1 DEF SkillsInv, ChosenFits
<1>3. ASSUME NEW k \in chosen'
      PROVE  Candidates(k)' # {} /\ Catalog(k)'.manifest = 1 /\ Catalog(k)' \in SkillCatalogEntry
  <2>1. k \in Skill /\ Candidates(k) # {} /\ Catalog(k).manifest = 1 BY <1>1, <1>3
  <2>2. Candidates(k) \in SUBSET Nat BY SkillsAssumption DEF Candidates
  <2>3. First(Candidates(k)) \in Source BY <2>1, <2>2, FirstIsLeast DEF Candidates
  <2>4. Catalog(k) = [from |-> First(Candidates(k)), manifest |-> found[First(Candidates(k))][k]] BY DEF Catalog
  <2>5. Catalog(k) = [from |-> First(Candidates(k)), manifest |-> 1] BY <2>1, <2>4
  <2>6. Catalog(k) \in SkillCatalogEntry BY <2>3, <2>5 DEF SkillCatalogEntry
  <2> QED BY <1>1, <2>1, <2>6 DEF Catalog, Candidates
<1>4. SkillsTypeOK' BY <1>1, <1>3, SkillTypes DEF SkillsTypeOK
<1>5. SnapshotIntact' BY <1>1 DEF SkillsInv, SnapshotIntact, Captured
<1>6. ChosenFits' BY <1>1, <1>2, <1>3 DEF ChosenFits
<1>7. CopyFits' BY <1>1 DEF CopyFits, Copying
<1>8. ContextFits' BY <1>1 DEF SkillsInv, ContextFits, Captured, HasContext, Given, Resolving, Copying
<1>9. ASSUME skillBudget'.edits = 0 PROVE ReadAsIs' BY <1>1, <1>9 DEF SkillsInv, ReadAsIs
<1>10. ASSUME skillBudget'.edits = 0 PROVE CapturesAsWanted'
  <2>1. CapturesAsWanted /\ ReadAsIs BY <1>1, <1>10 DEF SkillsInv
  <2>2. Wanted' = Wanted /\ \A k \in Skill : Healthy(k)' = Healthy(k) BY <1>1 DEF Wanted, Healthy, Enabled
  <2>3. \A x \in Source, k \in Skill : found[x][k] = files[x][k].manifest BY <1>1, <2>1 DEF ReadAsIs
  <2>4. ASSUME NEW k \in Skill PROVE k \in Wanted <=> k \in chosen'
    <3>1. Candidates(k) = Healthy(k) BY <2>3 DEF Candidates, Healthy
    <3>2. Healthy(k) # {} => First(Healthy(k)) \in Source
      <4>1. Healthy(k) \in SUBSET Nat BY SkillsAssumption DEF Healthy
      <4> QED BY <4>1, FirstIsLeast DEF Healthy
    <3>3. Catalog(k).manifest = found[First(Healthy(k))][k] BY <3>1 DEF Catalog
    <3>4. Healthy(k) # {} => Catalog(k).manifest = files[First(Healthy(k))][k].manifest BY <2>3, <3>2, <3>3
    <3> QED BY <1>1, <3>1, <3>4 DEF Wanted
  <2>5. Wanted' = chosen' \cup captured' BY <1>1, <1>2, <2>2, <2>4 DEF Wanted
  <2> QED BY <1>1, <2>1, <2>2, <2>5 DEF CapturesAsWanted, Captured, HasContext, Copying
<1> QED BY <1>4, <1>5, <1>6, <1>7, <1>8, <1>9, <1>10 DEF SkillsInv

\* A snapshot that is there is loaded, or the Run fails.
LEMMA SkillReuses ==
    ASSUME SkillsInv, Capture, CaptureExisting(First(chosen))
    PROVE  SkillsInv'
<1> DEFINE k == First(chosen)
<1>1. /\ stage = "capture" /\ chosen # {} /\ Captured(k)
      /\ stage' = (IF LoadsSnapshot(k) THEN "capture" ELSE "failed")
      /\ chosen' = chosen \ {k} /\ captured' = captured \cup {k}
      /\ UNCHANGED <<files, unread, found, copy, sources, stored, snapshots, context, noted, results, skillBudget>>
  BY DEF Capture, CaptureExisting
<1>2. k \in chosen /\ k \in Skill BY <1>1, NextChosen
<1> HIDE DEF k
<1>3. SkillsTypeOK'
  <2>1. \A j \in chosen' : Catalog(j)' \in SkillCatalogEntry BY <1>1, SkillTypes DEF Catalog, Candidates
  <2> QED BY <1>1, <1>2, <2>1, SkillTypes DEF SkillsTypeOK
<1>4. SnapshotIntact' BY <1>1 DEF SkillsInv, SnapshotIntact, Captured
<1>5. ChosenFits' BY <1>1 DEF SkillsInv, ChosenFits, Captured, Catalog, Candidates
<1>6. CopyFits' BY <1>1 DEF CopyFits, Copying
<1>7. ContextFits' BY <1>1 DEF SkillsInv, ContextFits, Captured, HasContext, Given, Resolving, Copying
<1>8. ASSUME skillBudget'.edits = 0 PROVE ReadAsIs' BY <1>1, <1>8 DEF SkillsInv, ReadAsIs, Copying
<1>9. ASSUME skillBudget'.edits = 0 PROVE CapturesAsWanted'
  <2>1. CapturesAsWanted BY <1>1, <1>9 DEF SkillsInv
  <2>2. Wanted' = Wanted /\ \A j \in Skill : Healthy(j)' = Healthy(j) BY <1>1 DEF Wanted, Healthy, Enabled
  <2>3. chosen' \cup captured' = chosen \cup captured BY <1>1, <1>2
  <2> QED BY <1>1, <2>1, <2>2, <2>3 DEF CapturesAsWanted, Captured, HasContext, Copying
<1> QED BY <1>3, <1>4, <1>5, <1>6, <1>7, <1>8, <1>9 DEF SkillsInv

\* A capture begins, or what it was to copy has changed and the Run fails.  The
\* directory that is cleared has no row.
LEMMA SkillCaptures ==
    ASSUME SkillsInv, Capture, CaptureNew(First(chosen))
    PROVE  SkillsInv'
<1> DEFINE k == First(chosen)
<1>1. /\ stage = "capture" /\ chosen # {} /\ ~Captured(k)
      /\ stored' = [stored EXCEPT ![k] = NoSkill] /\ stage' \in {"manifest", "failed"}
      /\ UNCHANGED <<files, unread, found, chosen, captured, copy, sources, snapshots, context, noted, results, skillBudget>>
  BY DEF Capture, CaptureNew
<1>2. k \in chosen /\ k \in Skill BY <1>1, NextChosen
<1>3. CopyFits' BY <1>1 DEF CopyFits, Copying, Captured
<1> HIDE DEF k
<1>4. SkillsTypeOK'
  <2>1. \A j \in chosen' : Catalog(j)' \in SkillCatalogEntry BY <1>1, SkillTypes DEF Catalog, Candidates
  <2>2. stored' \in [Skill -> SkillDir \cup {NoSkill}] BY <1>1, SkillTypes
  <2> QED BY <1>1, <1>2, <2>1, <2>2, SkillTypes DEF SkillsTypeOK
<1>5. SnapshotIntact' BY <1>1, SkillTypes DEF SkillsInv, SnapshotIntact, Captured
<1>6. ChosenFits' BY <1>1 DEF SkillsInv, ChosenFits, Captured, Catalog, Candidates
<1>7. ContextFits' BY <1>1 DEF SkillsInv, ContextFits, Captured, HasContext, Given, Resolving, Copying
<1>8. ASSUME skillBudget'.edits = 0 PROVE ReadAsIs' BY <1>1, <1>8 DEF SkillsInv, ReadAsIs, Copying
<1>9. ASSUME skillBudget'.edits = 0 PROVE CapturesAsWanted'
  <2>1. CapturesAsWanted BY <1>1, <1>9 DEF SkillsInv
  <2>2. Wanted' = Wanted /\ \A j \in Skill : Healthy(j)' = Healthy(j) BY <1>1 DEF Wanted, Healthy, Enabled
  <2> QED BY <1>1, <2>1, <2>2 DEF CapturesAsWanted, Captured, HasContext, Copying
<1> QED BY <1>3, <1>4, <1>5, <1>6, <1>7, <1>8, <1>9 DEF SkillsInv

\* Without edits the copy of a chosen skill has the manifest that was found.
LEMMA SkillCopies ==
    ASSUME SkillsInv, CopyManifest \/ CopyInstructions
    PROVE  SkillsInv'
<1> DEFINE k == First(chosen)
           d == files[Catalog(k).from][k]
<1>1. stage \in {"manifest", "text"} /\ chosen # {} BY DEF CopyManifest, CopyInstructions, SkillsInv, CopyFits, Copying
<1>2. k \in Skill /\ Catalog(k).from \in Source /\ Catalog(k).manifest = 1 /\ Catalog(k).from = First(Candidates(k))
  BY <1>1, NextChosen
<1>3. d \in SkillDir BY <1>2, SkillTypes
<1>4. d.manifest \in 0 .. 2 /\ d.text \in 1 .. 2 BY <1>3 DEF SkillDir
<1>5. skillBudget.edits = 0 => d.manifest = 1
  <2> SUFFICES ASSUME skillBudget.edits = 0 PROVE d.manifest = 1
    OBVIOUS
  <2>1. ReadAsIs BY DEF SkillsInv
  <2>2. found[Catalog(k).from][k] = d.manifest BY <1>1, <1>2, <2>1 DEF ReadAsIs, Copying
  <2>3. Catalog(k).manifest = found[First(Candidates(k))][k] BY DEF Catalog
  <2> QED BY <1>2, <2>2, <2>3
<1>6. CASE CopyManifest
  <2>1. /\ copy' = [manifest |-> d.manifest, text |-> 1] /\ stage' = "text" /\ stage = "manifest"
        /\ UNCHANGED <<files, unread, found, chosen, captured, sources, stored, snapshots, context, noted, results, skillBudget>>
    BY <1>6 DEF CopyManifest, durable
  <2> HIDE DEF d, k
  <2>2. copy' \in SkillDir /\ copy'.manifest = d.manifest BY <1>4, <2>1 DEF SkillDir
  <2> QED BY <1>5, <2>1, <2>2, SkillTypes, SkillFrame DEF Copying
<1>7. CASE CopyInstructions
  <2>1. /\ copy' = [copy EXCEPT !.text = d.text] /\ stage' = "rename" /\ stage = "text"
        /\ UNCHANGED <<files, unread, found, chosen, captured, sources, stored, snapshots, context, noted, results, skillBudget>>
    BY <1>7 DEF CopyInstructions, durable
  <2> HIDE DEF d, k
  <2>2. copy \in SkillDir BY <2>1 DEF SkillsInv, CopyFits
  <2>3. copy' \in SkillDir /\ copy'.manifest = copy.manifest BY <1>4, <2>1, <2>2 DEF SkillDir
  <2>4. skillBudget.edits = 0 => copy.manifest = 1 BY <2>1 DEF SkillsInv, CapturesAsWanted
  <2> QED BY <2>1, <2>3, <2>4, SkillTypes, SkillFrame DEF Copying
<1> QED BY <1>6, <1>7

\* The copy becomes the directory of a skill that has no row.
LEMMA SkillRenames ==
    ASSUME SkillsInv, RenameSnapshot
    PROVE  SkillsInv'
<1> DEFINE k == First(chosen)
<1>1. /\ stage = "rename" /\ stored' = [stored EXCEPT ![k] = copy] /\ stage' = "insert"
      /\ UNCHANGED <<files, unread, found, chosen, captured, copy, sources, snapshots, context, noted, results, skillBudget>>
  BY DEF RenameSnapshot
<1>2. chosen # {} /\ ~Captured(k) /\ copy \in SkillDir BY <1>1 DEF SkillsInv, CopyFits, Copying
<1>3. k \in Skill BY <1>2, NextChosen
<1>4. CopyFits' BY <1>1, <1>2, <1>3, SkillTypes DEF CopyFits, Copying, Captured
<1> HIDE DEF k
<1>5. SkillsTypeOK'
  <2>1. \A j \in chosen' : Catalog(j)' \in SkillCatalogEntry BY <1>1, SkillTypes DEF Catalog, Candidates
  <2>2. stored' \in [Skill -> SkillDir \cup {NoSkill}] BY <1>1, <1>2, SkillTypes
  <2> QED BY <1>1, <2>1, <2>2, SkillTypes DEF SkillsTypeOK
<1>6. SnapshotIntact' BY <1>1, <1>2, SkillTypes DEF SkillsInv, SnapshotIntact, Captured
<1>7. ChosenFits' BY <1>1 DEF SkillsInv, ChosenFits, Captured, Catalog, Candidates
<1>8. ContextFits' BY <1>1 DEF SkillsInv, ContextFits, Captured, HasContext, Given, Resolving, Copying
<1>9. ASSUME skillBudget'.edits = 0 PROVE ReadAsIs' BY <1>1, <1>9 DEF SkillsInv, ReadAsIs, Copying
<1>10. ASSUME skillBudget'.edits = 0 PROVE CapturesAsWanted'
  <2>1. CapturesAsWanted BY <1>1, <1>10 DEF SkillsInv
  <2>2. Wanted' = Wanted /\ \A j \in Skill : Healthy(j)' = Healthy(j) BY <1>1 DEF Wanted, Healthy, Enabled
  <2> QED BY <1>1, <2>1, <2>2 DEF CapturesAsWanted, Captured, HasContext, Copying
<1> QED BY <1>4, <1>5, <1>6, <1>7, <1>8, <1>9, <1>10 DEF SkillsInv

\* The row is written: its files are those of the directory.
LEMMA SkillInserts ==
    ASSUME SkillsInv, InsertSnapshot
    PROVE  SkillsInv'
<1> DEFINE k == First(chosen)
           w == [from |-> Catalog(k).from, manifest |-> Catalog(k).manifest, files |-> copy]
<1>1. /\ stage = "insert" /\ snapshots' = [snapshots EXCEPT ![k] = w]
      /\ captured' = captured \cup {k} /\ chosen' = chosen \ {k} /\ stage' = "capture"
      /\ UNCHANGED <<files, unread, found, copy, sources, stored, context, noted, results, skillBudget>>
  BY DEF InsertSnapshot
<1>2. chosen # {} /\ ~Captured(k) /\ copy \in SkillDir /\ stored[k] = copy BY <1>1 DEF SkillsInv, CopyFits, Copying
<1>3. /\ k \in chosen /\ k \in Skill /\ Catalog(k).from \in Source /\ Catalog(k).manifest = 1
      /\ Catalog(k).from = First(Candidates(k))
  BY <1>2, NextChosen
<1>4. w \in LedgerSkillSnapshotRow BY <1>2, <1>3 DEF LedgerSkillSnapshotRow
<1>5. w # NoSkill BY <1>4, SkillsAssumption
<1>6. w.from = First(Candidates(k)) /\ w.manifest = 1 /\ w.files = copy BY <1>3
<1> HIDE DEF k, w
<1>7. /\ snapshots'[k] = w /\ \A j \in Skill : j # k => snapshots'[j] = snapshots[j] BY <1>1, <1>3, SkillTypes
<1>8. snapshots'[k] # NoSkill /\ \A j \in Skill : j # k => (Captured(j)' <=> Captured(j)) BY <1>5, <1>7 DEF Captured
<1>9. SkillsTypeOK'
  <2>1. \A j \in chosen' : Catalog(j)' \in SkillCatalogEntry BY <1>1, SkillTypes DEF Catalog, Candidates
  <2>2. snapshots' \in [Skill -> LedgerSkillSnapshotRow \cup {NoSkill}] BY <1>1, <1>4, SkillTypes
  <2> QED BY <1>1, <1>3, <2>1, <2>2, SkillTypes DEF SkillsTypeOK
<1>10. SnapshotIntact' BY <1>1, <1>2, <1>6, <1>7, <1>8 DEF SkillsInv, SnapshotIntact, Captured
<1>11. ChosenFits'
  <2>1. \A j \in chosen' : Candidates(j)' # {} /\ Catalog(j)'.manifest = 1
    BY <1>1 DEF SkillsInv, ChosenFits, Catalog, Candidates
  <2>2. \A j \in captured' : snapshots'[j] # NoSkill BY <1>1, <1>7, <1>8, SkillTypes DEF SkillsInv, ChosenFits, Captured
  <2> QED BY <1>1, <2>1, <2>2 DEF ChosenFits, Captured
<1>12. CopyFits' BY <1>1 DEF CopyFits, Copying
<1>13. ContextFits'
  <2>1. ~HasContext /\ results = {} BY <1>1 DEF SkillsInv, ContextFits, Resolving, Copying
  <2> QED BY <1>1, <2>1 DEF ContextFits, HasContext
<1>14. ASSUME skillBudget'.edits = 0 PROVE ReadAsIs' BY <1>1, <1>14 DEF SkillsInv, ReadAsIs, Copying
<1>15. ASSUME skillBudget'.edits = 0 PROVE CapturesAsWanted'
  <2>1. CapturesAsWanted /\ ReadAsIs BY <1>1, <1>15 DEF SkillsInv
  <2>2. Wanted' = Wanted /\ \A j \in Skill : Healthy(j)' = Healthy(j) BY <1>1 DEF Wanted, Healthy, Enabled
  <2>3. chosen' \cup captured' = chosen \cup captured BY <1>1, <1>3
  <2>4. k \in Wanted BY <1>1, <1>3, <2>1 DEF CapturesAsWanted, Copying
  <2>5. Candidates(k) = Healthy(k) BY <1>1, <1>3, <2>1 DEF ReadAsIs, Copying, Candidates, Healthy
  <2>6. copy.manifest = 1 BY <1>1, <2>1 DEF CapturesAsWanted
  <2>7. \A j \in Skill : Captured(j)' =>
          /\ j \in Wanted' /\ snapshots'[j].from = First(Healthy(j)') /\ snapshots'[j].manifest = 1
          /\ snapshots'[j].files.manifest = 1
    BY <1>3, <1>6, <1>7, <1>8, <2>1, <2>2, <2>4, <2>5, <2>6 DEF CapturesAsWanted
  <2>8. ~HasContext' BY <1>1 DEF SkillsInv, ContextFits, Resolving, Copying, HasContext
  <2> QED BY <1>1, <2>1, <2>2, <2>3, <2>7, <2>8 DEF CapturesAsWanted, Copying
<1> QED BY <1>9, <1>10, <1>11, <1>12, <1>13, <1>14, <1>15 DEF SkillsInv

\* A read fails after an edit: both directories are cleared, and the skill had no
\* row.
LEMMA SkillFails ==
    ASSUME SkillsInv, CaptureFails
    PROVE  SkillsInv'
<1> DEFINE k == First(chosen)
<1>1. /\ stage \in {"manifest", "text"} /\ skillBudget.edits > 0
      /\ stored' = [stored EXCEPT ![k] = NoSkill] /\ copy' = NoSkill /\ stage' = "failed"
      /\ UNCHANGED <<files, unread, found, chosen, captured, sources, snapshots, context, noted, results, skillBudget>>
  BY DEF CaptureFails
<1>2. ~Captured(k) BY <1>1 DEF SkillsInv, CopyFits, Copying
<1> HIDE DEF k
<1>3. SkillsTypeOK'
  <2>1. \A j \in chosen' : Catalog(j)' \in SkillCatalogEntry BY <1>1, SkillTypes DEF Catalog, Candidates
  <2>2. stored' \in [Skill -> SkillDir \cup {NoSkill}] BY <1>1, SkillTypes
  <2> QED BY <1>1, <2>1, <2>2, SkillTypes DEF SkillsTypeOK
<1>4. SnapshotIntact' BY <1>1, <1>2, SkillTypes DEF SkillsInv, SnapshotIntact, Captured
<1>5. ChosenFits' BY <1>1 DEF SkillsInv, ChosenFits, Captured, Catalog, Candidates
<1>6. CopyFits' BY <1>1 DEF CopyFits, Copying
<1>7. ContextFits' BY <1>1 DEF SkillsInv, ContextFits, Captured, HasContext, Given, Resolving, Copying
<1>8. skillBudget'.edits # 0
  <2>1. skillBudget.edits \in 0 .. MaxSkillEdits BY SkillTypes
  <2> QED BY <1>1, <2>1, SkillsAssumption
<1> QED BY <1>3, <1>4, <1>5, <1>6, <1>7, <1>8 DEF SkillsInv

\* The context lists what this resolution captured or found captured.
LEMMA SkillContext ==
    ASSUME SkillsInv, InsertRunContext
    PROVE  SkillsInv'
<1>1. /\ stage = "capture" /\ chosen = {} /\ context' = captured /\ stage' = "event"
      /\ UNCHANGED <<files, unread, found, chosen, captured, copy, sources, stored, snapshots, noted, results, skillBudget>>
  BY DEF InsertRunContext
<1>2. captured \subseteq Skill /\ captured # NoSkill BY SkillTypes, SkillsAssumption
<1>3. SkillsTypeOK' BY <1>1, <1>2, SkillTypes DEF SkillsTypeOK
<1>4. SnapshotIntact' BY <1>1 DEF SkillsInv, SnapshotIntact, Captured
<1>5. ChosenFits' BY <1>1 DEF SkillsInv, ChosenFits, Captured
<1>6. CopyFits' BY <1>1 DEF CopyFits, Copying
<1>7. ContextFits'
  <2>1. results = {} /\ \A k \in captured : Captured(k)
    BY <1>1 DEF SkillsInv, ContextFits, Resolving, ChosenFits
  <2> QED BY <1>1, <1>2, <2>1 DEF ContextFits, HasContext, Captured, Resolving, Copying
<1>8. ASSUME skillBudget'.edits = 0 PROVE ReadAsIs' BY <1>1 DEF ReadAsIs, Copying
<1>9. ASSUME skillBudget'.edits = 0 PROVE CapturesAsWanted'
  <2>1. CapturesAsWanted BY <1>1, <1>9 DEF SkillsInv
  <2>2. Wanted' = Wanted /\ \A j \in Skill : Healthy(j)' = Healthy(j) BY <1>1 DEF Wanted, Healthy, Enabled
  <2>3. Wanted = captured BY <1>1, <2>1 DEF CapturesAsWanted
  <2>4. captured = {k \in Skill : Captured(k)}
    BY <1>2, <2>1, <2>3 DEF CapturesAsWanted, SkillsInv, ChosenFits
  <2>5. context' = {k \in Skill : Captured(k)'} BY <1>1, <2>4 DEF Captured
  <2> QED BY <1>1, <2>1, <2>2, <2>5 DEF CapturesAsWanted, Captured, Copying
<1> QED BY <1>3, <1>4, <1>5, <1>6, <1>7, <1>8, <1>9 DEF SkillsInv

\* A resolution that succeeds gives what the context lists.
LEMMA SkillResult ==
    ASSUME SkillsInv, HasContext, stage' = "ready", results' = results \cup {Given(context)}, noted' \in BOOLEAN,
           UNCHANGED <<files, unread, found, chosen, captured, copy, sources, stored, snapshots, context, skillBudget>>
    PROVE  SkillsInv'
<1>1. SkillsTypeOK'
  <2>1. \A j \in chosen' : Catalog(j)' \in SkillCatalogEntry BY SkillTypes DEF Catalog, Candidates
  <2> QED BY <2>1, SkillTypes DEF SkillsTypeOK
<1>2. SnapshotIntact' BY DEF SkillsInv, SnapshotIntact, Captured
<1>3. ChosenFits' BY DEF SkillsInv, ChosenFits, Captured, Catalog, Candidates
<1>4. CopyFits' BY DEF CopyFits, Copying
<1>5. ContextFits' BY DEF SkillsInv, ContextFits, Captured, HasContext, Given, Resolving, Copying
<1>6. ReadAsIs' BY DEF ReadAsIs, Copying
<1>7. ASSUME skillBudget'.edits = 0 PROVE CapturesAsWanted'
  <2>1. CapturesAsWanted BY <1>7 DEF SkillsInv
  <2>2. Wanted' = Wanted /\ \A k \in Skill : Healthy(k)' = Healthy(k) BY DEF Wanted, Healthy, Enabled
  <2> QED BY <2>1, <2>2 DEF CapturesAsWanted, Captured, HasContext, Copying
<1> QED BY <1>1, <1>2, <1>3, <1>4, <1>5, <1>6, <1>7 DEF SkillsInv

\* A resolution gives the files of the context, the first as the later ones.
LEMMA SkillGives ==
    ASSUME SkillsInv, AppendCaptured \/ LoadRun
    PROVE  SkillsInv'
<1>1. CASE AppendCaptured
  <2>1. /\ stage = "event" /\ stage' = "ready" /\ noted' = TRUE /\ results' = results \cup {Given(captured)}
        /\ UNCHANGED <<files, unread, found, chosen, captured, copy, sources, stored, snapshots, context, skillBudget>>
    BY <1>1 DEF AppendCaptured
  <2>2. HasContext /\ context = captured BY <2>1 DEF SkillsInv, ContextFits
  <2> QED BY <2>1, <2>2, SkillResult
<1>2. CASE LoadRun
  <2> DEFINE have == {k \in Skill : Captured(k)}
  <2>1. /\ stage = "load"
        /\ UNCHANGED <<files, unread, found, chosen, captured, copy, sources, stored, snapshots, context, noted, skillBudget>>
        /\ \/ have = context /\ stage' = "ready" /\ results' = results \cup {Given(have)}
           \/ stage' = "failed" /\ UNCHANGED results
    BY <1>2 DEF LoadRun, durable
  <2> HIDE DEF have
  <2>2. HasContext BY <2>1 DEF SkillsInv, ContextFits
  <2>3. CASE have = context /\ stage' = "ready" /\ results' = results \cup {Given(have)}
    BY <2>1, <2>2, <2>3, SkillTypes, SkillResult
  <2>4. CASE stage' = "failed" /\ UNCHANGED results BY <2>1, <2>4, SkillTypes, SkillFrame
  <2> QED BY <2>1, <2>3, <2>4
<1> QED BY <1>1, <1>2

\* The Run waits and is resumed, or the Host dies: what is durable stays.
LEMMA SkillWaits ==
    ASSUME SkillsInv, ResumeRun \/ HostDies
    PROVE  SkillsInv'
<1>1. /\ stage' = "idle"
      /\ UNCHANGED <<files, unread, found, chosen, captured, copy, sources, stored, snapshots, context, noted, results>>
  BY DEF ResumeRun, HostDies, durable
<1>2. /\ skillBudget' \in [edits : 0 .. MaxSkillEdits, resumes : 0 .. MaxResumes, crashes : 0 .. MaxSkillCrashes]
      /\ skillBudget'.edits = skillBudget.edits
  <2>1. CASE ResumeRun
    <3>1. skillBudget' = [skillBudget EXCEPT !.resumes = @ + 1] /\ skillBudget.resumes < MaxResumes BY <2>1 DEF ResumeRun
    <3> QED BY <3>1, SkillTypes, SkillsAssumption
  <2>2. CASE HostDies
    <3>1. skillBudget' = [skillBudget EXCEPT !.crashes = @ + 1] /\ skillBudget.crashes < MaxSkillCrashes BY <2>2 DEF HostDies
    <3> QED BY <3>1, SkillTypes, SkillsAssumption
  <2> QED BY <2>1, <2>2
<1> QED BY <1>1, <1>2, SkillTypes, SkillFrame

\* The user edits a file: what was captured is not the user's file.
LEMMA SkillEdit ==
    ASSUME SkillsInv, EditSkill
    PROVE  SkillsInv'
<1>1. /\ skillBudget' = [skillBudget EXCEPT !.edits = @ + 1] /\ skillBudget.edits < MaxSkillEdits
      /\ UNCHANGED <<stage, unread, found, chosen, captured, copy, sources, stored, snapshots, context, noted, results>>
  BY DEF EditSkill, resolution, durable
<1>2. files' \in [Source -> [Skill -> SkillDir]]
  <2>1. PICK s \in Source, k \in Skill, d \in SkillDir : files' = [files EXCEPT ![s][k] = d] BY DEF EditSkill
  <2> QED BY <2>1, SkillTypes
<1>3. /\ skillBudget' \in [edits : 0 .. MaxSkillEdits, resumes : 0 .. MaxResumes, crashes : 0 .. MaxSkillCrashes]
      /\ skillBudget'.edits # 0
  BY <1>1, SkillTypes, SkillsAssumption
<1>4. SkillsTypeOK'
  <2>1. \A j \in chosen' : Catalog(j)' \in SkillCatalogEntry BY <1>1, SkillTypes DEF Catalog, Candidates
  <2> QED BY <1>1, <1>2, <1>3, <2>1, SkillTypes DEF SkillsTypeOK
<1>5. SnapshotIntact' BY <1>1 DEF SkillsInv, SnapshotIntact, Captured
<1>6. ChosenFits' BY <1>1 DEF SkillsInv, ChosenFits, Captured, Catalog, Candidates
<1>7. CopyFits' BY <1>1 DEF SkillsInv, CopyFits, Captured
<1>8. ContextFits' BY <1>1 DEF SkillsInv, ContextFits, Captured, HasContext, Given
<1> QED BY <1>3, <1>4, <1>5, <1>6, <1>7, <1>8 DEF SkillsInv

\* Before the first resolution.
LEMMA SkillsInitially ==
    ASSUME SkillsInit
    PROVE  SkillsInv
<1>1. files \in [Source -> [Skill -> SkillDir]]
  <2>1. {[manifest |-> m, text |-> 1] : m \in 0 .. 1} \subseteq SkillDir BY DEF SkillDir
  <2> QED BY <2>1 DEF SkillsInit
<1>2. NoneFound \in [Source -> [Skill -> 0 .. 2]] /\ Nothing \in [Skill -> {NoSkill}] BY DEF NoneFound, Nothing
<1>3. SkillsTypeOK
  <2>1. \A k \in chosen : Catalog(k) \in SkillCatalogEntry BY DEF SkillsInit
  <2>2. skillBudget \in [edits : 0 .. MaxSkillEdits, resumes : 0 .. MaxResumes, crashes : 0 .. MaxSkillCrashes]
    BY SkillsAssumption DEF SkillsInit
  <2>3. /\ unread \subseteq Source /\ chosen \subseteq Skill /\ captured \subseteq Skill
        /\ copy \in SkillDir \cup {NoSkill} /\ (context = NoSkill \/ context \subseteq Skill) /\ noted \in BOOLEAN
        /\ stored \in [Skill -> SkillDir \cup {NoSkill}]
        /\ snapshots \in [Skill -> LedgerSkillSnapshotRow \cup {NoSkill}]
        /\ found \in [Source -> [Skill -> 0 .. 2]] /\ sources \in [Source -> [Skill -> 0 .. 2]] /\ stage = "idle"
    BY <1>2 DEF SkillsInit
  <2> QED BY <1>1, <2>1, <2>2, <2>3 DEF SkillsTypeOK
<1>4. \A k \in Skill : ~Captured(k) BY DEF SkillsInit, Nothing, Captured
<1>5. SnapshotIntact BY <1>4 DEF SnapshotIntact
<1>6. ChosenFits BY DEF SkillsInit, ChosenFits
<1>7. CopyFits BY DEF SkillsInit, CopyFits, Copying
<1>8. ContextFits BY DEF SkillsInit, ContextFits, HasContext, Resolving, Copying
<1>9. ReadAsIs BY DEF SkillsInit, ReadAsIs, Copying
<1>10. CapturesAsWanted BY <1>4 DEF SkillsInit, CapturesAsWanted, HasContext, Copying
<1> QED BY <1>3, <1>5, <1>6, <1>7, <1>8, <1>9, <1>10 DEF SkillsInv

\* SkillsInv is kept by every step of a resolution, by crashes, resumptions and
\* edits.
THEOREM SkillsInductive == SkillsSpec => []SkillsInv
<1>1. SkillsInit => SkillsInv BY SkillsInitially
<1>2. SkillsInv /\ [SkillsNext]_skillVars => SkillsInv'
  <2> SUFFICES ASSUME SkillsInv, [SkillsNext]_skillVars PROVE SkillsInv'
    OBVIOUS
  <2>1. CASE UNCHANGED skillVars
    <3>1. UNCHANGED <<files, stage, unread, found, chosen, captured, copy, sources, stored, snapshots, context, noted,
                      results, skillBudget>>
      BY <2>1 DEF skillVars, resolution, durable
    <3>2. SkillsTypeOK' BY <3>1 DEF SkillsInv, SkillsTypeOK, Catalog, Candidates
    <3>3. SnapshotIntact' BY <3>1 DEF SkillsInv, SnapshotIntact, Captured
    <3>4. ChosenFits' BY <3>1 DEF SkillsInv, ChosenFits, Captured, Catalog, Candidates
    <3>5. CopyFits' BY <3>1 DEF SkillsInv, CopyFits, Captured
    <3>6. ContextFits' BY <3>1 DEF SkillsInv, ContextFits, Captured, HasContext, Given
    <3>7. skillBudget'.edits = 0 => ReadAsIs' BY <3>1 DEF SkillsInv, ReadAsIs
    <3>8. ASSUME skillBudget'.edits = 0 PROVE CapturesAsWanted'
      <4>1. CapturesAsWanted BY <3>1, <3>8 DEF SkillsInv
      <4>2. Wanted' = Wanted /\ \A k \in Skill : Healthy(k)' = Healthy(k) BY <3>1 DEF Wanted, Healthy, Enabled
      <4> QED BY <3>1, <4>1, <4>2 DEF CapturesAsWanted, Captured, HasContext
    <3> QED BY <3>2, <3>3, <3>4, <3>5, <3>6, <3>7, <3>8 DEF SkillsInv
  <2>2. CASE ResolveForRun BY <2>2, SkillResolves
  <2>3. CASE DiscoverSource BY <2>3, SkillDiscovers
  <2>4. CASE SelectActivatedSkills BY <2>4, SkillSelects
  <2>5. CASE Capture
    <3>1. CaptureExisting(First(chosen)) \/ CaptureNew(First(chosen)) BY <2>5 DEF Capture
    <3> QED BY <2>5, <3>1, SkillReuses, SkillCaptures
  <2>6. CASE CopyManifest \/ CopyInstructions BY <2>6, SkillCopies
  <2>7. CASE RenameSnapshot BY <2>7, SkillRenames
  <2>8. CASE InsertSnapshot BY <2>8, SkillInserts
  <2>9. CASE CaptureFails BY <2>9, SkillFails
  <2>10. CASE InsertRunContext BY <2>10, SkillContext
  <2>11. CASE AppendCaptured \/ LoadRun BY <2>11, SkillGives
  <2>12. CASE ResumeRun \/ HostDies BY <2>12, SkillWaits
  <2>13. CASE EditSkill BY <2>13, SkillEdit
  <2> QED BY <2>1, <2>2, <2>3, <2>4, <2>5, <2>6, <2>7, <2>8, <2>9, <2>10, <2>11, <2>12, <2>13 DEF SkillsNext
<1> QED BY <1>1, <1>2, PTL DEF SkillsSpec

\* The skills of a Run are what its first capture found best, never change for
\* the model, and can be read again unless the user edited them: for every number
\* of skills, sources, crashes and resumptions.
THEOREM SkillsCorrect == SkillsSpec => []SkillsAgree
<1>1. SkillsInv => SkillsAgree
  <2> SUFFICES ASSUME SkillsInv PROVE SkillsAgree
    OBVIOUS
  <2>1. SkillsTypeOK /\ SnapshotIntact BY DEF SkillsInv
  <2>2. InstructionsImmutable
    <3>1. results \subseteq {Given(context)} BY DEF SkillsInv, ContextFits
    <3>2. IsFiniteSet({Given(context)}) /\ Cardinality({Given(context)}) = 1 BY FS_Singleton
    <3>3. Cardinality(results) <= Cardinality({Given(context)}) BY <3>1, <3>2, FS_Subset
    <3> QED BY <3>2, <3>3 DEF InstructionsImmutable
  <2>3. ResumableUnlessEdited
    <3> SUFFICES ASSUME HasContext, skillBudget.edits = 0
                 PROVE  context = {k \in Skill : Captured(k)} /\ \A k \in context : LoadsSnapshot(k)
      BY DEF ResumableUnlessEdited
    <3>1. CapturesAsWanted BY DEF SkillsInv
    <3>2. context = {k \in Skill : Captured(k)} BY <3>1 DEF CapturesAsWanted
    <3>3. \A k \in context : LoadsSnapshot(k)
      BY <2>1, <3>1, <3>2 DEF CapturesAsWanted, SnapshotIntact, LoadsSnapshot
    <3> QED BY <3>2, <3>3
  <2>4. CapturedFromBest
    <3> SUFFICES ASSUME skillBudget.edits = 0, NEW k \in Skill, Captured(k), NEW s \in Source, s < snapshots[k].from
                 PROVE  files[s][k].manifest = 0
      BY DEF CapturedFromBest
    <3>1. CapturesAsWanted BY DEF SkillsInv
    <3>2. k \in Wanted /\ snapshots[k].from = First(Healthy(k)) BY <3>1 DEF CapturesAsWanted
    <3>3. Healthy(k) # {} /\ Healthy(k) \in SUBSET Nat BY <3>2, SkillsAssumption DEF Wanted, Healthy
    <3>4. First(Healthy(k)) \in Nat /\ \A j \in Healthy(k) : First(Healthy(k)) <= j BY <3>3, FirstIsLeast
    <3>5. s \notin Healthy(k) BY <3>2, <3>4, SkillsAssumption
    <3> QED BY <3>5 DEF Healthy
  <2> QED BY <2>1, <2>2, <2>3, <2>4 DEF SkillsAgree
<1> QED BY <1>1, SkillsInductive, PTL

-----------------------------------------------------------------------------
\* Extensions: ExtInv is inductive while the calls of the registry do not
\* overlap.  Caller, Active and Going name who calls, the states of an
\* extension that is active, and the places where a call is activating one.
Caller == Client \cup {Boot}
Active == {"READY", "DEACTIVATING"}
Going == {"secret", "import", "cleanup"}

\* One call of the registry is under way at a time.
OneCall == \A c, d \in Caller : call[c].pc # "idle" /\ call[d].pc # "idle" => c = d

\* What a call has in hand: who is to be activated is enabled, and nobody owns
\* what it declares.
CallFits ==
    \A c \in Caller :
        /\ call[c].pc # "done"
        /\ call[c].pc \in Going \cup {"deactivate"} => call[c].ext \in Ext
        /\ call[c].pc \in Going =>
              rec[call[c].ext].enabled /\ \A n \in Declares[call[c].ext] : owner[n] = NoExt

\* A record moves exactly while a call has it in hand.
TransitFits ==
    \A x \in Ext :
        /\ rec[x].state = "ACTIVATING" <=> \E c \in Caller : call[c].ext = x /\ call[c].pc \in {"import", "cleanup"}
        /\ rec[x].state = "DEACTIVATING" <=> \E c \in Caller : call[c].ext = x /\ call[c].pc = "deactivate"
        /\ \A c \in Caller : call[c].ext = x /\ call[c].pc = "secret" => rec[x].state = "DISCOVERED"
        /\ rec[x].state \in {"READY", "ACTIVATING"} => rec[x].enabled
        /\ rec[x].state # "BLOCKED" => rec[x].issue # "conflict"
        /\ rec[x].runtime <=> rec[x].state \in Active

\* What waits for a capability has a rival that wants it, or one whose end will
\* restate every record.
RivalFits ==
    \A x \in Ext : rec[x].issue = "conflict" =>
        \E y \in Ext \ {x} :
           /\ Declares[x] \cap Declares[y] # {}
           /\ \/ rec[y].enabled
              \/ \E c \in Caller : call[c].op = "disable" /\ call[c].pc = "deactivate" /\ call[c].ext = y

\* close deactivates what is active, each once.
OrderFits ==
    /\ {order[i] : i \in DOMAIN order} = {x \in Ext : rec[x].state \in Active}
    /\ \A i, j \in DOMAIN order : order[i] = order[j] => i = j

\* The owners are the active ones, and an adapter is that of a READY one.
OwnersFit ==
    /\ \A k \in Cap, x \in Ext : owner[k] = x <=> k \in Declares[x] /\ rec[x].state \in Active
    /\ \A k \in Connector : adapters[k] # NoExt => adapters[k] = owner[k] /\ rec[adapters[k]].state = "READY"

\* The runtimes of an extension are those given up, the one of a record and the
\* one that is taken back at once.
LiveFits ==
    \A x \in Ext :
        live[x] = leaked[x] + (IF \E c \in Caller : call[c].pc = "cleanup" /\ call[c].ext = x THEN 1 ELSE 0)
                    + (IF rec[x].runtime THEN 1 ELSE 0)

ExtInv == ExtTypeOK /\ OneCall /\ CallFits /\ TransitFits /\ RivalFits /\ OrderFits /\ OwnersFit /\ LiveFits

-----------------------------------------------------------------------------
CallRecord ==
    [op : {"none", "start", "enable", "disable", "close"}, ext : Ext \cup {NoExt},
     pc : {"idle", "next", "secret", "import", "cleanup", "deactivate", "done"},
     todo : SUBSET Ext, requested : BOOLEAN]

LEMMA ExtTypes ==
    ASSUME ExtTypeOK
    PROVE  /\ rec \in [Ext -> ExtRecord]
           /\ owner \in [Cap -> Ext \cup {NoExt}] /\ adapters \in [Connector -> Ext \cup {NoExt}]
           /\ order \in Seq(Ext)
           /\ live \in [Ext -> Nat] /\ leaked \in [Ext -> Nat]
           /\ call \in [Client \cup {Boot} -> CallRecord]
           /\ extCalls \in 0 .. MaxCalls /\ timeouts \in 0 .. MaxTimeouts
           /\ MaxCalls \in Nat /\ MaxTimeouts \in Nat
           /\ NoExt \notin Ext /\ Declares \in [Ext -> SUBSET Cap] /\ Connector \subseteq Cap
BY ExtensionAssumption DEF ExtTypeOK, CallRecord

\* Two that want a capability: more than one is another one.
LEMMA AnotherOne ==
    ASSUME NEW S, NEW x \in S, Cardinality(S) > 1
    PROVE  \E y \in S : y # x
<1> SUFFICES ASSUME \A y \in S : y = x PROVE FALSE
  OBVIOUS
<1>1. S = {x}
  OBVIOUS
<1>2. Cardinality({x}) = 1
  BY FS_Singleton
<1> QED
  BY <1>1, <1>2

\* What a reconciliation makes of the records when none of them is in transit.
Wants(R, k) == {x \in Ext : R[x].enabled /\ x \notin Intrinsic /\ R[x].state # "READY" /\ k \in Declares[x]}
LEMMA ReconciledRecords ==
    ASSUME NEW R \in [Ext -> ExtRecord], NEW own \in [Cap -> Ext \cup {NoExt}],
           \A x \in Ext : R[x].state \notin InTransit,
           \A x \in Ext : R[x].state = "READY" => R[x].issue # "conflict",
           \A k \in Cap, x \in Ext : own[k] = x => k \in Declares[x] /\ R[x].state = "READY" /\ R[x].enabled
    PROVE  /\ Reconciled(R, own) \in [Ext -> ExtRecord]
           /\ \A x \in Ext :
                /\ Reconciled(R, own)[x].enabled = R[x].enabled
                /\ Reconciled(R, own)[x].runtime = R[x].runtime
                /\ R[x].state = "READY" => Reconciled(R, own)[x] = R[x]
                /\ R[x].state # "READY" => Reconciled(R, own)[x].state \in {"DISCOVERED", "BLOCKED", "DISABLED"}
                /\ Reconciled(R, own)[x].state \in {"DISCOVERED", "DISABLED"} =>
                      Reconciled(R, own)[x].issue # "conflict"
                /\ Reconciled(R, own)[x].issue = "conflict" =>
                      /\ Reconciled(R, own)[x].state = "BLOCKED"
                      /\ \E y \in Ext \ {x} : Declares[x] \cap Declares[y] # {} /\ R[y].enabled
                /\ Reconciled(R, own)[x].state \in {"DISCOVERED", "DISABLED"} /\ R[x].enabled =>
                      /\ Reconciled(R, own)[x].state = "DISCOVERED"
                      /\ \A k \in Declares[x] : own[k] \in {NoExt, x}
<1> DEFINE S == [x \in Ext |-> Restated(R[x], x)]
           cand == {x \in Ext : S[x].enabled /\ x \notin Intrinsic /\ S[x].state # "READY"}
           wants(c) == {x \in cand : c \in Declares[x]}
           lost(x) == \E c \in Declares[x] :
                         IF own[c] # NoExt THEN own[c] # x ELSE Cardinality(wants(c)) > 1
           Q == Reconciled(R, own)
<1>1. /\ NoExt \notin Ext /\ Declares \in [Ext -> SUBSET Cap]
  BY ExtensionAssumption
<1>2. Q = [x \in Ext |-> IF x \in cand /\ lost(x)
                         THEN [S[x] EXCEPT !.state = "BLOCKED", !.issue = "conflict"] ELSE S[x]]
  BY DEF Reconciled
<1>3. \A x \in Ext :
         /\ S[x] \in ExtRecord /\ S[x].enabled = R[x].enabled /\ S[x].runtime = R[x].runtime
         /\ R[x].state = "READY" => S[x] = R[x]
         /\ R[x].state # "READY" /\ x \in Intrinsic => S[x].state = "BLOCKED" /\ S[x].issue = "intrinsic"
         /\ R[x].state # "READY" /\ x \notin Intrinsic =>
               /\ S[x].state = IF R[x].enabled THEN "DISCOVERED" ELSE "DISABLED"
               /\ S[x].issue = "none"
  <2> TAKE x \in Ext
  <2> DEFINE r == R[x]
  <2>1. S[x] = Restated(r, x) /\ r \in ExtRecord /\ r.state \notin {"ACTIVATING", "DEACTIVATING"}
    BY DEF InTransit
  <2> HIDE DEF S, r
  <2>2. CASE r.state = "READY"
    BY <2>1, <2>2 DEF Restated, r
  <2>3. CASE r.state # "READY" /\ x \in Intrinsic
    <3>1. S[x] = [r EXCEPT !.state = "BLOCKED", !.issue = "intrinsic"]
      BY <2>1, <2>3 DEF Restated, InTransit
    <3> QED
      BY <2>1, <2>3, <3>1 DEF ExtRecord, InTransit, r
  <2>4. CASE r.state # "READY" /\ x \notin Intrinsic
    <3>1. S[x] = [r EXCEPT !.state = IF r.enabled THEN "DISCOVERED" ELSE "DISABLED", !.issue = "none"]
      BY <2>1, <2>4 DEF Restated, InTransit
    <3> QED
      BY <2>1, <2>4, <3>1 DEF ExtRecord, InTransit, r
  <2> QED
    BY <2>2, <2>3, <2>4
<1>4. \A x \in cand : R[x].state # "READY" /\ R[x].enabled /\ x \notin Intrinsic /\ x \in Ext
  BY <1>3
<1>5. \A x \in Ext : x \in cand /\ lost(x) =>
         \E y \in Ext \ {x} : Declares[x] \cap Declares[y] # {} /\ R[y].enabled
  <2> TAKE x \in Ext
  <2> HAVE x \in cand /\ lost(x)
  <2>1. PICK c \in Declares[x] : IF own[c] # NoExt THEN own[c] # x ELSE Cardinality(wants(c)) > 1
    OBVIOUS
  <2>2. c \in Cap
    BY <1>1
  <2>3. CASE own[c] # NoExt
    <3>1. own[c] \in Ext \ {x}
      BY <2>1, <2>2, <2>3
    <3>2. c \in Declares[own[c]] /\ R[own[c]].enabled
      BY <2>2, <3>1
    <3> QED
      BY <2>1, <3>1, <3>2
  <2>4. CASE own[c] = NoExt
    <3>1. x \in wants(c) /\ Cardinality(wants(c)) > 1
      BY <2>1, <2>4
    <3> HIDE DEF wants
    <3>2. PICK y \in wants(c) : y # x
      BY <3>1, AnotherOne
    <3>3. y \in cand /\ c \in Declares[y]
      BY DEF wants
    <3> HIDE DEF cand
    <3>4. y \in Ext \ {x} /\ R[y].enabled
      BY <3>2, <3>3, <1>4
    <3> QED
      BY <3>3, <3>4
  <2> QED
    BY <2>3, <2>4
<1>6. \A x \in Ext : Q[x] = IF x \in cand /\ lost(x)
                            THEN [S[x] EXCEPT !.state = "BLOCKED", !.issue = "conflict"] ELSE S[x]
  BY <1>2
<1>7. \A x \in Ext : x \notin cand => R[x].state = "READY" \/ ~R[x].enabled \/ x \in Intrinsic
  BY <1>3
<1>8. \A x \in Ext : ~lost(x) => \A k \in Declares[x] : own[k] \in {NoExt, x}
  OBVIOUS
<1> HIDE DEF S, cand, lost, Q
<1>9. \A x \in Ext : Q[x] \in ExtRecord
  <2> TAKE x \in Ext
  <2>1. S[x] \in ExtRecord
    BY <1>3
  <2>2. [S[x] EXCEPT !.state = "BLOCKED", !.issue = "conflict"] \in ExtRecord
    BY <2>1 DEF ExtRecord
  <2> QED
    BY <2>1, <2>2, <1>6
<1>10. Q \in [Ext -> ExtRecord]
  BY <1>2, <1>9
<1>11. \A x \in Ext :
          /\ Q[x].enabled = R[x].enabled
          /\ Q[x].runtime = R[x].runtime
          /\ R[x].state = "READY" => Q[x] = R[x]
          /\ R[x].state # "READY" => Q[x].state \in {"DISCOVERED", "BLOCKED", "DISABLED"}
          /\ Q[x].state \in {"DISCOVERED", "DISABLED"} => Q[x].issue # "conflict"
          /\ Q[x].issue = "conflict" => Q[x].state = "BLOCKED" /\ x \in cand /\ lost(x)
          /\ Q[x].state \in {"DISCOVERED", "DISABLED"} /\ R[x].enabled =>
                Q[x].state = "DISCOVERED" /\ ~lost(x)
  <2> TAKE x \in Ext
  <2>1. S[x] \in ExtRecord /\ R[x] \in ExtRecord
    BY <1>3
  <2>2. CASE x \in cand /\ lost(x)
    <3>1. Q[x] = [S[x] EXCEPT !.state = "BLOCKED", !.issue = "conflict"]
      BY <2>2, <1>6
    <3>2. /\ Q[x].state = "BLOCKED" /\ Q[x].issue = "conflict"
          /\ Q[x].enabled = S[x].enabled /\ Q[x].runtime = S[x].runtime
      BY <2>1, <3>1 DEF ExtRecord
    <3> QED
      BY <2>2, <3>2, <1>3, <1>4
  <2>3. CASE ~(x \in cand /\ lost(x))
    <3>1. Q[x] = S[x]
      BY <2>3, <1>6
    <3>2. CASE R[x].state = "READY"
      BY <3>1, <3>2, <1>3
    <3>3. CASE R[x].state # "READY" /\ x \in Intrinsic
      BY <3>1, <3>3, <1>3
    <3>4. CASE R[x].state # "READY" /\ x \notin Intrinsic
      BY <3>1, <3>4, <2>1, <2>3, <1>3, <1>7 DEF ExtRecord
    <3> QED
      BY <3>2, <3>3, <3>4
  <2> QED
    BY <2>2, <2>3
<1> QED
  BY <1>5, <1>8, <1>10, <1>11 DEF Q

\* The invariant while the call k of a client is the only one under way.
SoloCall(k, R, own) ==
    /\ k.pc # "done"
    /\ k.pc \in Going \cup {"deactivate"} => k.ext \in Ext
    /\ k.pc \in Going => R[k.ext].enabled /\ \A n \in Declares[k.ext] : own[n] = NoExt
SoloTransit(k, R) ==
    \A x \in Ext :
        /\ R[x].state = "ACTIVATING" <=> k.ext = x /\ k.pc \in {"import", "cleanup"}
        /\ R[x].state = "DEACTIVATING" <=> k.ext = x /\ k.pc = "deactivate"
        /\ k.ext = x /\ k.pc = "secret" => R[x].state = "DISCOVERED"
        /\ R[x].state \in {"READY", "ACTIVATING"} => R[x].enabled
        /\ R[x].state # "BLOCKED" => R[x].issue # "conflict"
        /\ R[x].runtime <=> R[x].state \in Active
SoloRival(k, R) ==
    \A x \in Ext : R[x].issue = "conflict" =>
        \E y \in Ext \ {x} :
           /\ Declares[x] \cap Declares[y] # {}
           /\ R[y].enabled \/ (k.op = "disable" /\ k.pc = "deactivate" /\ k.ext = y)
SoloOrder(R, o) ==
    /\ {o[i] : i \in DOMAIN o} = {x \in Ext : R[x].state \in Active}
    /\ \A i, j \in DOMAIN o : o[i] = o[j] => i = j
SoloOwners(R, own, ad) ==
    /\ \A n \in Cap, x \in Ext : own[n] = x <=> n \in Declares[x] /\ R[x].state \in Active
    /\ \A n \in Connector : ad[n] # NoExt => ad[n] = own[n] /\ R[ad[n]].state = "READY"
SoloLive(k, R, lv, lk) ==
    \A x \in Ext :
        lv[x] = lk[x] + (IF k.pc = "cleanup" /\ k.ext = x THEN 1 ELSE 0) + (IF R[x].runtime THEN 1 ELSE 0)
SoloFits(k, R, own, ad, o, lv, lk) ==
    /\ SoloCall(k, R, own) /\ SoloTransit(k, R) /\ SoloRival(k, R) /\ SoloOrder(R, o)
    /\ SoloOwners(R, own, ad) /\ SoloLive(k, R, lv, lk)

LEMMA SoloNow ==
    ASSUME ExtInv, NEW c \in Caller, \A d \in Caller \ {c} : call[d].pc = "idle"
    PROVE  SoloFits(call[c], rec, owner, adapters, order, live, leaked)
<1>1. SoloCall(call[c], rec, owner)
  BY DEF ExtInv, CallFits, SoloCall
<1>2. SoloTransit(call[c], rec)
  BY DEF ExtInv, TransitFits, SoloTransit
<1>3. SoloRival(call[c], rec)
  BY DEF ExtInv, RivalFits, SoloRival
<1>4. SoloOrder(rec, order) /\ SoloOwners(rec, owner, adapters)
  BY DEF ExtInv, OrderFits, OwnersFit, SoloOrder, SoloOwners
<1>5. SoloLive(call[c], rec, live, leaked)
  <2> SUFFICES ASSUME NEW x \in Ext
      PROVE live[x] = leaked[x] + (IF call[c].pc = "cleanup" /\ call[c].ext = x THEN 1 ELSE 0)
                                + (IF rec[x].runtime THEN 1 ELSE 0)
    BY DEF SoloLive
  <2>1. (\E d \in Caller : call[d].pc = "cleanup" /\ call[d].ext = x) <=> call[c].pc = "cleanup" /\ call[c].ext = x
    OBVIOUS
  <2> QED
    BY <2>1 DEF ExtInv, LiveFits
<1> QED
  BY <1>1, <1>2, <1>3, <1>4, <1>5 DEF SoloFits

LEMMA SoloNext ==
    ASSUME ExtTypeOK', NEW c \in Caller, \A d \in Caller \ {c} : call'[d].pc = "idle",
           SoloFits(call'[c], rec', owner', adapters', order', live', leaked')
    PROVE  ExtInv'
<1>0. /\ SoloCall(call'[c], rec', owner') /\ SoloTransit(call'[c], rec') /\ SoloRival(call'[c], rec')
      /\ SoloOrder(rec', order') /\ SoloOwners(rec', owner', adapters')
      /\ SoloLive(call'[c], rec', live', leaked')
  BY DEF SoloFits
<1>1. OneCall'
  BY DEF OneCall, Caller
<1>2. CallFits'
  BY <1>0 DEF CallFits, SoloCall, Caller, Going
<1>3. TransitFits'
  BY <1>0 DEF TransitFits, SoloTransit, Caller
<1>4. RivalFits'
  BY <1>0 DEF RivalFits, SoloRival, Caller
<1>5. OrderFits' /\ OwnersFit'
  BY <1>0 DEF OrderFits, OwnersFit, SoloOrder, SoloOwners
<1>6. LiveFits'
  <2> SUFFICES ASSUME NEW x \in Ext
      PROVE live'[x] = leaked'[x]
              + (IF \E d \in Caller : call'[d].pc = "cleanup" /\ call'[d].ext = x THEN 1 ELSE 0)
              + (IF rec'[x].runtime THEN 1 ELSE 0)
    BY DEF LiveFits, Caller
  <2>1. (\E d \in Caller : call'[d].pc = "cleanup" /\ call'[d].ext = x)
          <=> call'[c].pc = "cleanup" /\ call'[c].ext = x
    OBVIOUS
  <2> QED
    BY <1>0, <2>1 DEF SoloLive
<1> QED
  BY <1>1, <1>2, <1>3, <1>4, <1>5, <1>6 DEF ExtInv

\* The call that is under way is the only one.
LEMMA TheOnlyCall ==
    ASSUME ExtInv, NEW c \in Caller, call[c].pc # "idle"
    PROVE  \A d \in Caller \ {c} : call[d].pc = "idle"
BY DEF ExtInv, OneCall

-----------------------------------------------------------------------------
LEMMA InitExtensions ==
    ASSUME ExtInit
    PROVE  ExtInv
<1> DEFINE R == [x \in Ext |-> [enabled |-> x \in Configured, runtime |-> FALSE,
                                state |-> "DISCOVERED", issue |-> "none"]]
           own == [n \in Cap |-> NoExt]
<1>1. /\ R \in [Ext -> ExtRecord] /\ own \in [Cap -> Ext \cup {NoExt}]
      /\ NoExt \notin Ext /\ Connector \subseteq Cap /\ MaxCalls \in Nat /\ MaxTimeouts \in Nat
  BY ExtensionAssumption DEF ExtRecord, InTransit
<1>2. \A n \in Cap, x \in Ext : own[n] # x
  BY <1>1
<1>3. \A x \in Ext : R[x].state = "DISCOVERED" /\ R[x].issue = "none" /\ ~R[x].runtime
  OBVIOUS
<1>4. rec = Reconciled(R, own)
  BY DEF ExtInit, Discover
<1> HIDE DEF R, own
<1>5. /\ rec \in [Ext -> ExtRecord]
      /\ \A x \in Ext :
           /\ rec[x].state \in {"DISCOVERED", "BLOCKED", "DISABLED"} /\ ~rec[x].runtime
           /\ rec[x].state # "BLOCKED" => rec[x].issue # "conflict"
           /\ rec[x].issue = "conflict" =>
                \E y \in Ext \ {x} : Declares[x] \cap Declares[y] # {} /\ rec[y].enabled
  BY <1>1, <1>2, <1>3, <1>4, ReconciledRecords DEF InTransit
<1>6. /\ owner = [n \in Cap |-> NoExt] /\ adapters = [n \in Connector |-> NoExt] /\ order = <<>>
      /\ live = [x \in Ext |-> 0] /\ leaked = [x \in Ext |-> 0] /\ extCalls = 0 /\ timeouts = 0
  BY DEF ExtInit
<1>7. /\ call \in [Caller -> CallRecord]
      /\ \A c \in Caller : call[c].pc \in {"idle", "next"} /\ (c # Boot => call[c].pc = "idle")
  <2>1. call = [c \in Caller |->
           IF c = Boot THEN [NoCall EXCEPT !.op = "start", !.pc = "next", !.todo = Ext] ELSE NoCall]
    BY DEF ExtInit, Caller
  <2> QED
    BY <2>1 DEF NoCall, CallRecord
<1>8. ExtTypeOK
  <2>1. order \in Seq(Ext)
    BY <1>6
  <2>2. extCalls \in 0 .. MaxCalls /\ timeouts \in 0 .. MaxTimeouts
    BY <1>1, <1>6
  <2> QED
    BY <1>1, <1>5, <1>6, <1>7, <2>1, <2>2 DEF ExtTypeOK, Caller, CallRecord
<1>9. OneCall
  BY <1>7 DEF OneCall
<1>10. CallFits
  BY <1>7 DEF CallFits, Going
<1>11. TransitFits
  BY <1>5, <1>7 DEF TransitFits, Active
<1>12. RivalFits
  BY <1>5 DEF RivalFits
<1>13. OrderFits
  <2>1. DOMAIN order = {}
    BY <1>6
  <2> QED
    BY <2>1, <1>5 DEF OrderFits, Active
<1>14. OwnersFit
  BY <1>1, <1>5, <1>6 DEF OwnersFit, Active
<1>15. LiveFits
  BY <1>5, <1>6, <1>7 DEF LiveFits
<1> QED
  BY <1>8, <1>9, <1>10, <1>11, <1>12, <1>13, <1>14, <1>15 DEF ExtInv

\* What a step makes of the call of c.
LEMMA CallReplaced ==
    ASSUME ExtTypeOK, NEW c \in Caller, NEW k \in CallRecord, call' = [call EXCEPT ![c] = k]
    PROVE  /\ call' \in [Caller -> CallRecord] /\ call'[c] = k
           /\ \A d \in Caller \ {c} : call'[d] = call[d]
BY ExtTypes DEF Caller

\* A call that goes on with the next extension, or ends.
LEMMA CallGoesOn ==
    ASSUME ExtTypeOK, NEW c \in Caller
    PROVE  /\ NoCall \in CallRecord /\ NoCall.pc = "idle" /\ NoCall.ext = NoExt
           /\ Continued(c) \in CallRecord
           /\ Continued(c).pc \in {"idle", "next"} /\ Continued(c).ext = NoExt
<1>1. call[c] \in CallRecord
  BY ExtTypes DEF Caller
<1>2. NoCall \in CallRecord /\ NoCall.pc = "idle" /\ NoCall.ext = NoExt
  BY DEF NoCall, CallRecord
<1>3. [call[c] EXCEPT !.pc = "next", !.ext = NoExt] \in CallRecord
  BY <1>1 DEF CallRecord
<1>4. [call[c] EXCEPT !.pc = "next", !.ext = NoExt].pc = "next"
      /\ [call[c] EXCEPT !.pc = "next", !.ext = NoExt].ext = NoExt
  BY <1>1 DEF CallRecord
<1> QED
  BY <1>2, <1>3, <1>4 DEF Continued

\* A step of the only call: the invariant of what it leaves is the invariant.
LEMMA OnlyCallSteps ==
    ASSUME ExtInv, NEW c \in Caller, \A d \in Caller \ {c} : call[d].pc = "idle",
           NEW k \in CallRecord, call' = [call EXCEPT ![c] = k],
           rec' \in [Ext -> ExtRecord], owner' \in [Cap -> Ext \cup {NoExt}],
           adapters' \in [Connector -> Ext \cup {NoExt}], order' \in Seq(Ext),
           live' \in [Ext -> Nat], leaked' \in [Ext -> Nat],
           extCalls' \in 0 .. MaxCalls, timeouts' \in 0 .. MaxTimeouts,
           SoloFits(k, rec', owner', adapters', order', live', leaked')
    PROVE  ExtInv'
<1>1. ExtTypeOK
  BY DEF ExtInv
<1>2. /\ call' \in [Caller -> CallRecord] /\ call'[c] = k
      /\ \A d \in Caller \ {c} : call'[d].pc = "idle"
  BY <1>1, CallReplaced
<1>3. ExtTypeOK'
  BY <1>2 DEF ExtTypeOK, Caller, CallRecord
<1> QED
  BY <1>2, <1>3, SoloNext

-----------------------------------------------------------------------------
\* What a call that has an extension in hand knows.
LEMMA InHand ==
    ASSUME ExtInv, NEW c \in Caller, call[c].pc # "idle"
    PROVE  /\ \A d \in Caller \ {c} : call[d].pc = "idle"
           /\ call[c] \in CallRecord
           /\ SoloCall(call[c], rec, owner) /\ SoloTransit(call[c], rec) /\ SoloRival(call[c], rec)
           /\ SoloOrder(rec, order) /\ SoloOwners(rec, owner, adapters)
           /\ SoloLive(call[c], rec, live, leaked)
<1>1. \A d \in Caller \ {c} : call[d].pc = "idle"
  BY TheOnlyCall
<1>2. SoloFits(call[c], rec, owner, adapters, order, live, leaked)
  BY <1>1, SoloNow
<1>3. call[c] \in CallRecord
  BY ExtTypes DEF ExtInv, Caller
<1> QED
  BY <1>1, <1>2, <1>3 DEF SoloFits

\* One field or more of one record: what it is then.
LEMMA RecordPut ==
    ASSUME NEW x \in Ext, NEW r \in ExtRecord, rec \in [Ext -> ExtRecord], rec' = [rec EXCEPT ![x] = r]
    PROVE  rec' \in [Ext -> ExtRecord] /\ rec'[x] = r /\ \A y \in Ext \ {x} : rec'[y] = rec[y]
OBVIOUS

\* A module that was activated.
LEMMA ActivatedStep ==
    ASSUME ExtInv, NEW c \in Caller, Activated(c)
    PROVE  ExtInv'
<1> DEFINE x == call[c].ext
           k == Continued(c)
           r == [rec[x] EXCEPT !.state = "READY", !.runtime = TRUE]
<1>1. /\ call[c].pc = "import" /\ CanRegister(x)
      /\ rec' = [rec EXCEPT ![x].state = "READY", ![x].runtime = TRUE]
      /\ owner' = [n \in Cap |-> IF n \in Declares[x] THEN x ELSE owner[n]]
      /\ order' = Append(order, x)
      /\ adapters' = Registered(x)
      /\ live' = [live EXCEPT ![x] = @ + 1]
      /\ call' = [call EXCEPT ![c] = k]
      /\ leaked' = leaked /\ extCalls' = extCalls /\ timeouts' = timeouts
  BY DEF Activated, CallContinues
<1>2. ExtTypeOK /\ \A d \in Caller \ {c} : call[d].pc = "idle"
  BY <1>1, InHand DEF ExtInv
<1>3. /\ SoloCall(call[c], rec, owner) /\ SoloTransit(call[c], rec) /\ SoloRival(call[c], rec)
      /\ SoloOrder(rec, order) /\ SoloOwners(rec, owner, adapters)
      /\ SoloLive(call[c], rec, live, leaked)
  BY <1>1, InHand
<1>4. x \in Ext /\ \A n \in Declares[x] : owner[n] = NoExt
  BY <1>1, <1>3 DEF SoloCall, Going
<1>5. rec[x].state = "ACTIVATING" /\ rec[x].enabled /\ ~rec[x].runtime /\ rec[x].issue # "conflict"
  BY <1>1, <1>3, <1>4 DEF SoloTransit, Active
<1>6. k \in CallRecord /\ k.pc \in {"idle", "next"} /\ k.ext = NoExt /\ NoExt \notin Ext
  BY <1>2, CallGoesOn, ExtTypes
<1>7. /\ rec' \in [Ext -> ExtRecord] /\ rec'[x] = r /\ \A y \in Ext \ {x} : rec'[y] = rec[y]
      /\ r.state = "READY" /\ r.runtime /\ r.enabled /\ r.issue # "conflict"
  <2>1. rec \in [Ext -> ExtRecord] /\ rec[x] \in ExtRecord
    BY <1>2, <1>4, ExtTypes
  <2>2. /\ r \in ExtRecord /\ r.state = "READY" /\ r.runtime
        /\ r.enabled = rec[x].enabled /\ r.issue = rec[x].issue
    BY <2>1 DEF ExtRecord
  <2>3. rec' = [rec EXCEPT ![x] = r]
    BY <1>1, <2>1
  <2> HIDE DEF r, x
  <2> QED
    BY <1>4, <1>5, <2>1, <2>2, <2>3, RecordPut
<1> HIDE DEF x, k, r
<1>8. /\ owner' \in [Cap -> Ext \cup {NoExt}] /\ adapters' \in [Connector -> Ext \cup {NoExt}]
      /\ order' \in Seq(Ext) /\ live' \in [Ext -> Nat] /\ leaked' \in [Ext -> Nat]
      /\ extCalls' \in 0 .. MaxCalls /\ timeouts' \in 0 .. MaxTimeouts
  BY <1>1, <1>2, <1>4, ExtTypes DEF Registered
<1>9. SoloFits(k, rec', owner', adapters', order', live', leaked')
  <2>1. SoloCall(k, rec', owner')
    BY <1>6 DEF SoloCall, Going
  <2>2. SoloTransit(k, rec')
    BY <1>1, <1>3, <1>4, <1>6, <1>7 DEF SoloTransit, Active, x
  <2>3. SoloRival(k, rec')
    <3> SUFFICES ASSUME NEW y \in Ext, rec'[y].issue = "conflict"
        PROVE \E z \in Ext \ {y} : Declares[y] \cap Declares[z] # {} /\ rec'[z].enabled
      BY DEF SoloRival
    <3>1. rec[y].issue = "conflict"
      BY <1>7
    <3>2. PICK z \in Ext \ {y} : Declares[y] \cap Declares[z] # {} /\ rec[z].enabled
      BY <1>1, <1>3, <3>1 DEF SoloRival
    <3> QED
      BY <3>2, <1>5, <1>7
  <2>4. SoloOrder(rec', order')
    <3>1. order \in Seq(Ext)
      BY <1>2, ExtTypes
    <3>2. /\ DOMAIN order' = DOMAIN order \cup {Len(order) + 1} /\ order'[Len(order) + 1] = x
          /\ \A i \in DOMAIN order : order'[i] = order[i] /\ i # Len(order) + 1
      BY <1>1, <1>4, <3>1
    <3>3. \A i \in DOMAIN order : order[i] # x
      BY <1>3, <1>4, <1>5 DEF SoloOrder, Active
    <3>4. {order'[i] : i \in DOMAIN order'} = {order[i] : i \in DOMAIN order} \cup {x}
      BY <3>2
    <3>5. {y \in Ext : rec'[y].state \in Active} = {y \in Ext : rec[y].state \in Active} \cup {x}
      BY <1>4, <1>7 DEF Active
    <3> QED
      BY <1>3, <3>2, <3>3, <3>4, <3>5 DEF SoloOrder
  <2>5. SoloOwners(rec', owner', adapters')
    <3>1. \A n \in Cap, y \in Ext : owner'[n] = y <=> n \in Declares[y] /\ rec'[y].state \in Active
      <4> TAKE n \in Cap, y \in Ext
      <4>1. owner'[n] = IF n \in Declares[x] THEN x ELSE owner[n]
        BY <1>1
      <4>2. owner[n] = y <=> n \in Declares[y] /\ rec[y].state \in Active
        BY <1>3 DEF SoloOwners
      <4> QED
        BY <4>1, <4>2, <1>4, <1>5, <1>6, <1>7 DEF Active
    <3>2. \A n \in Connector : adapters'[n] # NoExt =>
             adapters'[n] = owner'[n] /\ rec'[adapters'[n]].state = "READY"
      <4> TAKE n \in Connector
      <4> HAVE adapters'[n] # NoExt
      <4>1. n \in Cap /\ adapters[n] \in Ext \cup {NoExt}
        BY <1>2, ExtTypes
      <4>2. /\ adapters'[n] = IF n \in Declares[x] THEN x ELSE adapters[n]
            /\ owner'[n] = IF n \in Declares[x] THEN x ELSE owner[n]
        BY <1>1, <4>1 DEF Registered
      <4>3. CASE n \in Declares[x]
        BY <4>2, <4>3, <1>7
      <4>4. CASE n \notin Declares[x]
        <5>1. adapters[n] = owner[n] /\ rec[adapters[n]].state = "READY" /\ adapters[n] \in Ext
          BY <4>1, <4>2, <4>4, <1>3 DEF SoloOwners
        <5> QED
          BY <4>2, <4>4, <5>1, <1>5, <1>7
      <4> QED
        BY <4>3, <4>4
    <3> QED
      BY <3>1, <3>2 DEF SoloOwners
  <2>6. SoloLive(k, rec', live', leaked')
    <3> SUFFICES ASSUME NEW y \in Ext
        PROVE live'[y] = leaked'[y] + 0 + (IF rec'[y].runtime THEN 1 ELSE 0)
      BY <1>6 DEF SoloLive
    <3>1. live[y] = leaked[y] + 0 + (IF rec[y].runtime THEN 1 ELSE 0) /\ live[y] \in Nat /\ leaked[y] \in Nat
      BY <1>1, <1>2, <1>3, ExtTypes DEF SoloLive
    <3>2. live'[y] = IF y = x THEN live[y] + 1 ELSE live[y]
      BY <1>1, <1>2, <1>4, ExtTypes
    <3> QED
      BY <1>1, <3>1, <3>2, <1>5, <1>7
  <2> QED
    BY <2>1, <2>2, <2>3, <2>4, <2>5, <2>6 DEF SoloFits
<1> QED
  BY <1>1, <1>2, <1>6, <1>7, <1>8, <1>9, OnlyCallSteps

\* An activation that ends without a runtime.
LEMMA ActivationEnds ==
    ASSUME ExtInv, NEW c \in Caller, call[c].pc \in {"import", "cleanup"},
           ActivationFailed(call[c].ext), CallContinues(c),
           owner' = owner, order' = order, adapters' \in [Connector -> Ext \cup {NoExt}],
           \A n \in Connector : adapters'[n] \in {NoExt, adapters[n]},
           live' \in [Ext -> Nat], leaked' \in [Ext -> Nat],
           \A y \in Ext \ {call[c].ext} : live'[y] = live[y] /\ leaked'[y] = leaked[y],
           live'[call[c].ext] = leaked'[call[c].ext],
           extCalls' \in 0 .. MaxCalls, timeouts' \in 0 .. MaxTimeouts
    PROVE  ExtInv'
<1> DEFINE x == call[c].ext
           k == Continued(c)
           r == [rec[x] EXCEPT !.state = "FAILED", !.issue = "failed", !.runtime = FALSE]
<1>1. /\ rec' = [rec EXCEPT ![x].state = "FAILED", ![x].issue = "failed", ![x].runtime = FALSE]
      /\ call' = [call EXCEPT ![c] = k]
  BY DEF ActivationFailed, CallContinues
<1>2. ExtTypeOK /\ \A d \in Caller \ {c} : call[d].pc = "idle"
  BY InHand DEF ExtInv
<1>3. /\ SoloCall(call[c], rec, owner) /\ SoloTransit(call[c], rec) /\ SoloRival(call[c], rec)
      /\ SoloOrder(rec, order) /\ SoloOwners(rec, owner, adapters)
      /\ SoloLive(call[c], rec, live, leaked)
  BY InHand
<1>4. x \in Ext
  BY <1>3 DEF SoloCall, Going
<1>5. rec[x].state = "ACTIVATING" /\ rec[x].enabled /\ ~rec[x].runtime
  BY <1>3, <1>4 DEF SoloTransit, Active
<1>6. k \in CallRecord /\ k.pc \in {"idle", "next"} /\ k.ext = NoExt /\ NoExt \notin Ext
  BY <1>2, CallGoesOn, ExtTypes
<1>7. /\ rec' \in [Ext -> ExtRecord] /\ rec'[x] = r /\ \A y \in Ext \ {x} : rec'[y] = rec[y]
      /\ r.state = "FAILED" /\ ~r.runtime /\ r.enabled /\ r.issue = "failed"
  <2>1. rec \in [Ext -> ExtRecord] /\ rec[x] \in ExtRecord
    BY <1>2, <1>4, ExtTypes
  <2>2. /\ r \in ExtRecord /\ r.state = "FAILED" /\ ~r.runtime
        /\ r.enabled = rec[x].enabled /\ r.issue = "failed"
    BY <2>1 DEF ExtRecord
  <2>3. rec' = [rec EXCEPT ![x] = r]
    BY <1>1, <2>1
  <2> HIDE DEF r, x
  <2> QED
    BY <1>4, <1>5, <2>1, <2>2, <2>3, RecordPut
<1>8. /\ \A y \in Ext \ {x} : live'[y] = live[y] /\ leaked'[y] = leaked[y]
      /\ live'[x] = leaked'[x]
  OBVIOUS
<1> HIDE DEF x, k, r
<1>9. SoloFits(k, rec', owner', adapters', order', live', leaked')
  <2>1. SoloCall(k, rec', owner')
    BY <1>6 DEF SoloCall, Going
  <2>2. SoloTransit(k, rec')
    BY <1>3, <1>4, <1>6, <1>7 DEF SoloTransit, Active, x
  <2>3. SoloRival(k, rec')
    <3> SUFFICES ASSUME NEW y \in Ext, rec'[y].issue = "conflict"
        PROVE \E z \in Ext \ {y} : Declares[y] \cap Declares[z] # {} /\ rec'[z].enabled
      BY DEF SoloRival
    <3>1. rec[y].issue = "conflict"
      BY <1>7
    <3>2. PICK z \in Ext \ {y} : Declares[y] \cap Declares[z] # {} /\ rec[z].enabled
      BY <1>3, <3>1 DEF SoloRival
    <3> QED
      BY <3>2, <1>5, <1>7
  <2>4. {y \in Ext : rec'[y].state \in Active} = {y \in Ext : rec[y].state \in Active}
    BY <1>5, <1>7 DEF Active
  <2>5. SoloOrder(rec', order')
    BY <1>3, <2>4 DEF SoloOrder
  <2>6. SoloOwners(rec', owner', adapters')
    <3>1. \A y \in Ext : rec'[y].state \in Active <=> rec[y].state \in Active
      BY <2>4
    <3>2. \A n \in Connector : adapters'[n] # NoExt =>
             adapters'[n] = owner'[n] /\ rec'[adapters'[n]].state = "READY"
      <4> TAKE n \in Connector
      <4> HAVE adapters'[n] # NoExt
      <4>1. adapters[n] = adapters'[n] /\ adapters[n] = owner[n] /\ rec[adapters[n]].state = "READY"
        BY <1>3 DEF SoloOwners
      <4>2. adapters[n] \in Ext
        BY <1>2, <4>1, ExtTypes
      <4> QED
        BY <4>1, <4>2, <1>5, <1>7
    <3>3. \A n \in Cap, y \in Ext : owner'[n] = y <=> n \in Declares[y] /\ rec'[y].state \in Active
      BY <1>3, <3>1 DEF SoloOwners
    <3> QED
      BY <3>2, <3>3 DEF SoloOwners
  <2>7. SoloLive(k, rec', live', leaked')
    <3> SUFFICES ASSUME NEW y \in Ext
        PROVE live'[y] = leaked'[y] + 0 + (IF rec'[y].runtime THEN 1 ELSE 0)
      BY <1>6 DEF SoloLive
    <3>1. live'[y] \in Nat /\ leaked'[y] \in Nat
      OBVIOUS
    <3>2. CASE y = x
      BY <1>7, <1>8, <3>1, <3>2
    <3>3. CASE y # x
      <4>1. live[y] = leaked[y] + 0 + (IF rec[y].runtime THEN 1 ELSE 0)
        BY <1>3, <3>3 DEF SoloLive, x
      <4> QED
        BY <1>7, <1>8, <3>3, <4>1
    <3> QED
      BY <3>2, <3>3
  <2> QED
    BY <2>1, <2>2, <2>3, <2>5, <2>6, <2>7 DEF SoloFits
<1>10. owner' \in [Cap -> Ext \cup {NoExt}] /\ order' \in Seq(Ext)
  BY <1>2, ExtTypes
<1> QED
  BY <1>1, <1>2, <1>6, <1>7, <1>9, <1>10, OnlyCallSteps

\* A module that throws, that does not end in time, and one whose claims were missing.
LEMMA ActivationEndsStep ==
    ASSUME ExtInv, NEW c \in Caller, ActivationFails(c) \/ ActivationTimesOut(c) \/ CleanedUp(c)
    PROVE  ExtInv'
<1> DEFINE x == call[c].ext
<1>1. ExtTypeOK /\ call[c].pc \in {"import", "cleanup"}
  BY DEF ExtInv, ActivationFails, ActivationTimesOut, CleanedUp
<1>2. SoloCall(call[c], rec, owner) /\ SoloTransit(call[c], rec) /\ SoloLive(call[c], rec, live, leaked)
  BY <1>1, InHand
<1>3. x \in Ext
  BY <1>1, <1>2 DEF SoloCall, Going
<1>4. ~rec[x].runtime
  BY <1>1, <1>2, <1>3 DEF SoloTransit, Active
<1>5. /\ live \in [Ext -> Nat] /\ leaked \in [Ext -> Nat] /\ adapters \in [Connector -> Ext \cup {NoExt}]
      /\ extCalls \in 0 .. MaxCalls /\ timeouts \in 0 .. MaxTimeouts /\ MaxTimeouts \in Nat
  BY <1>1, ExtTypes
<1>6. live[x] = leaked[x] + (IF call[c].pc = "cleanup" THEN 1 ELSE 0)
  BY <1>2, <1>3, <1>4, <1>5 DEF SoloLive
<1>7. ActivationFailed(x) /\ CallContinues(c) /\ owner' = owner /\ order' = order
  BY DEF ActivationFails, ActivationTimesOut, CleanedUp
<1>8. /\ adapters' \in [Connector -> Ext \cup {NoExt}]
      /\ \A n \in Connector : adapters'[n] \in {NoExt, adapters[n]}
  BY <1>5 DEF ActivationFails, ActivationTimesOut, CleanedUp, Unregistered
<1>9. extCalls' \in 0 .. MaxCalls /\ timeouts' \in 0 .. MaxTimeouts
  BY <1>5 DEF ActivationFails, ActivationTimesOut, CleanedUp
<1>10. /\ live' \in [Ext -> Nat] /\ leaked' \in [Ext -> Nat]
       /\ \A y \in Ext \ {x} : live'[y] = live[y] /\ leaked'[y] = leaked[y]
       /\ live'[x] = leaked'[x]
  <2>1. CASE ActivationFails(c)
    <3>1. live' = live /\ leaked' = leaked /\ call[c].pc = "import"
      BY <2>1 DEF ActivationFails
    <3> HIDE DEF x
    <3> QED
      BY <1>3, <1>5, <1>6, <3>1
  <2>2. CASE ActivationTimesOut(c)
    <3>1. /\ live' = [live EXCEPT ![x] = @ + 1] /\ leaked' = [leaked EXCEPT ![x] = @ + 1]
          /\ call[c].pc = "import"
      BY <2>2 DEF ActivationTimesOut
    <3> HIDE DEF x
    <3> QED
      BY <1>3, <1>5, <1>6, <3>1
  <2>3. CASE CleanedUp(c)
    <3>1. live' = [live EXCEPT ![x] = @ - 1] /\ leaked' = leaked /\ call[c].pc = "cleanup"
      BY <2>3 DEF CleanedUp
    <3> HIDE DEF x
    <3>2. live[x] = leaked[x] + 1 /\ leaked[x] \in Nat /\ live[x] - 1 = leaked[x]
      BY <1>3, <1>5, <1>6, <3>1
    <3> QED
      BY <1>3, <1>5, <3>1, <3>2
  <2> QED
    BY <2>1, <2>2, <2>3
<1> QED
  BY <1>1, <1>7, <1>8, <1>9, <1>10, ActivationEnds

\* A runtime that is returned without its claims.
LEMMA ClaimMissingStep ==
    ASSUME ExtInv, NEW c \in Caller, ClaimMissing(c)
    PROVE  ExtInv'
<1> DEFINE x == call[c].ext
           k == [call[c] EXCEPT !.pc = "cleanup"]
<1>1. /\ call[c].pc = "import" /\ call' = [call EXCEPT ![c].pc = "cleanup"]
      /\ live' = [live EXCEPT ![x] = @ + 1]
      /\ rec' = rec /\ owner' = owner /\ adapters' = adapters /\ order' = order
      /\ leaked' = leaked /\ extCalls' = extCalls /\ timeouts' = timeouts
  BY DEF ClaimMissing, CallAt, extRow
<1>2. /\ ExtTypeOK /\ \A d \in Caller \ {c} : call[d].pc = "idle"
      /\ call[c] \in CallRecord /\ call \in [Caller -> CallRecord]
  BY <1>1, InHand, ExtTypes DEF ExtInv, Caller
<1>3. /\ SoloCall(call[c], rec, owner) /\ SoloTransit(call[c], rec) /\ SoloRival(call[c], rec)
      /\ SoloOrder(rec, order) /\ SoloOwners(rec, owner, adapters)
      /\ SoloLive(call[c], rec, live, leaked)
  BY <1>1, InHand
<1>4. x \in Ext
  BY <1>1, <1>3 DEF SoloCall, Going
<1>5. ~rec[x].runtime
  BY <1>1, <1>3, <1>4 DEF SoloTransit, Active
<1>6. k \in CallRecord /\ k.pc = "cleanup" /\ k.ext = x /\ k.op = call[c].op /\ call' = [call EXCEPT ![c] = k]
  BY <1>1, <1>2 DEF CallRecord
<1>7. \A y \in Ext : live'[y] = IF y = x THEN live[y] + 1 ELSE live[y]
  BY <1>1, <1>2, <1>4, ExtTypes
<1> HIDE DEF k
<1>8. SoloCall(k, rec, owner) /\ SoloTransit(k, rec) /\ SoloRival(k, rec)
  BY <1>1, <1>3, <1>6 DEF SoloCall, SoloTransit, SoloRival, Going
<1>9. SoloLive(k, rec, live', leaked)
  <2> SUFFICES ASSUME NEW y \in Ext
      PROVE live'[y] = leaked[y] + (IF k.pc = "cleanup" /\ k.ext = y THEN 1 ELSE 0)
                                 + (IF rec[y].runtime THEN 1 ELSE 0)
    BY DEF SoloLive
  <2>1. live[y] = leaked[y] + 0 + (IF rec[y].runtime THEN 1 ELSE 0) /\ live[y] \in Nat /\ leaked[y] \in Nat
    BY <1>1, <1>2, <1>3, ExtTypes DEF SoloLive
  <2> HIDE DEF x
  <2>2. CASE y = x
    BY <1>5, <1>6, <1>7, <2>1, <2>2
  <2>3. CASE y # x
    BY <1>6, <1>7, <2>1, <2>3
  <2> QED
    BY <2>2, <2>3
<1>10. /\ rec' \in [Ext -> ExtRecord] /\ owner' \in [Cap -> Ext \cup {NoExt}]
       /\ adapters' \in [Connector -> Ext \cup {NoExt}]
       /\ order' \in Seq(Ext) /\ live' \in [Ext -> Nat] /\ leaked' \in [Ext -> Nat]
       /\ extCalls' \in 0 .. MaxCalls /\ timeouts' \in 0 .. MaxTimeouts
  BY <1>1, <1>2, <1>4, ExtTypes
<1>11. SoloFits(k, rec', owner', adapters', order', live', leaked')
  BY <1>1, <1>3, <1>8, <1>9 DEF SoloFits
<1> QED
  BY <1>2, <1>6, <1>10, <1>11, OnlyCallSteps

\* A step that changes at most one record, which is and stays inactive, and the
\* call: what the record and the call have to fit.
LEMMA RecordMoves ==
    ASSUME ExtInv, NEW c \in Caller, \A d \in Caller \ {c} : call[d].pc = "idle",
           NEW k \in CallRecord, call' = [call EXCEPT ![c] = k],
           NEW x \in Ext, rec[x].state \in {"DISCOVERED", "BLOCKED", "DISABLED"},
           call[c].pc \in {"idle", "next", "secret"},
           call[c].pc = "secret" => call[c].ext = x,
           rec' \in [Ext -> ExtRecord], \A y \in Ext \ {x} : rec'[y] = rec[y],
           rec[x].enabled, rec'[x].enabled, ~rec'[x].runtime,
           \/ /\ rec'[x].state = "BLOCKED"
              /\ k.pc \in {"idle", "next"} /\ k.ext = NoExt
              /\ rec'[x].issue = "conflict" =>
                   \E z \in Ext \ {x} : Declares[x] \cap Declares[z] # {} /\ rec[z].enabled
           \/ /\ rec'[x].state = "DISCOVERED" /\ rec'[x].issue # "conflict"
              /\ k.pc = "secret" /\ k.ext = x /\ \A n \in Declares[x] : owner[n] = NoExt
           \/ /\ rec'[x].state = "ACTIVATING" /\ rec'[x].issue # "conflict"
              /\ k.pc = "import" /\ k.ext = x /\ \A n \in Declares[x] : owner[n] = NoExt,
           owner' = owner, adapters' = adapters, order' = order, live' = live, leaked' = leaked,
           extCalls' \in 0 .. MaxCalls, timeouts' = timeouts
    PROVE  ExtInv'
<1>2. ExtTypeOK
  BY DEF ExtInv
<1>3. /\ SoloCall(call[c], rec, owner) /\ SoloTransit(call[c], rec) /\ SoloRival(call[c], rec)
      /\ SoloOrder(rec, order) /\ SoloOwners(rec, owner, adapters)
      /\ SoloLive(call[c], rec, live, leaked)
  BY SoloNow DEF SoloFits
<1>4. NoExt \notin Ext
  BY ExtensionAssumption
<1>5. ~rec[x].runtime
  BY <1>3 DEF SoloTransit, Active
<1>6. \A y \in Ext : rec'[y].state \in Active <=> rec[y].state \in Active
  BY DEF Active
<1>7. \A y \in Ext : rec'[y].runtime <=> rec[y].runtime
  BY <1>5
<1>8. SoloCall(k, rec', owner')
  BY DEF SoloCall, Going
<1>9. SoloTransit(k, rec')
  <2> SUFFICES ASSUME NEW y \in Ext
      PROVE /\ rec'[y].state = "ACTIVATING" <=> k.ext = y /\ k.pc \in {"import", "cleanup"}
            /\ rec'[y].state = "DEACTIVATING" <=> k.ext = y /\ k.pc = "deactivate"
            /\ k.ext = y /\ k.pc = "secret" => rec'[y].state = "DISCOVERED"
            /\ rec'[y].state \in {"READY", "ACTIVATING"} => rec'[y].enabled
            /\ rec'[y].state # "BLOCKED" => rec'[y].issue # "conflict"
            /\ rec'[y].runtime <=> rec'[y].state \in Active
    BY DEF SoloTransit
  <2>1. CASE y = x
    BY <2>1, <1>4 DEF Active
  <2>2. CASE y # x
    BY <2>2, <1>3, <1>4 DEF SoloTransit
  <2> QED
    BY <2>1, <2>2
<1>10. SoloRival(k, rec')
  <2> SUFFICES ASSUME NEW y \in Ext, rec'[y].issue = "conflict"
      PROVE \E z \in Ext \ {y} : Declares[y] \cap Declares[z] # {} /\ rec'[z].enabled
    BY DEF SoloRival
  <2>1. CASE y = x
    BY <2>1
  <2>2. CASE y # x
    <3>1. rec[y].issue = "conflict"
      BY <2>2
    <3>2. PICK z \in Ext \ {y} : Declares[y] \cap Declares[z] # {} /\ rec[z].enabled
      BY <1>3, <3>1 DEF SoloRival
    <3> QED
      BY <3>2
  <2> QED
    BY <2>1, <2>2
<1>11. SoloOrder(rec', order')
  <2>1. {y \in Ext : rec'[y].state \in Active} = {y \in Ext : rec[y].state \in Active}
    BY <1>6
  <2> QED
    BY <1>3, <2>1 DEF SoloOrder
<1>12. SoloOwners(rec', owner', adapters')
  <2>1. \A n \in Connector : adapters'[n] # NoExt =>
           adapters'[n] = owner'[n] /\ rec'[adapters'[n]].state = "READY"
    <3> TAKE n \in Connector
    <3> HAVE adapters'[n] # NoExt
    <3>1. adapters[n] = owner[n] /\ rec[adapters[n]].state = "READY"
      BY <1>3 DEF SoloOwners
    <3>2. adapters[n] \in Ext
      BY <1>2, ExtTypes
    <3> QED
      BY <3>1, <3>2
  <2>2. \A n \in Cap, y \in Ext : owner'[n] = y <=> n \in Declares[y] /\ rec'[y].state \in Active
    BY <1>3, <1>6 DEF SoloOwners
  <2> QED
    BY <2>1, <2>2 DEF SoloOwners
<1>13. SoloLive(k, rec', live', leaked')
  BY <1>3, <1>7 DEF SoloLive
<1>14. SoloFits(k, rec', owner', adapters', order', live', leaked')
  BY <1>8, <1>9, <1>10, <1>11, <1>12, <1>13 DEF SoloFits
<1>15. /\ owner' \in [Cap -> Ext \cup {NoExt}] /\ adapters' \in [Connector -> Ext \cup {NoExt}]
       /\ order' \in Seq(Ext) /\ live' \in [Ext -> Nat] /\ leaked' \in [Ext -> Nat]
       /\ timeouts' \in 0 .. MaxTimeouts
  BY <1>2, ExtTypes
<1> QED
  BY <1>14, <1>15, OnlyCallSteps

\* A step that changes nothing but a call that has no extension in hand.
LEMMA CallMoves ==
    ASSUME ExtInv, NEW c \in Caller, \A d \in Caller \ {c} : call[d].pc = "idle",
           NEW k \in CallRecord, call' = [call EXCEPT ![c] = k],
           call[c].pc \in {"idle", "next"}, k.pc \in {"idle", "next"},
           UNCHANGED <<extRow, live, leaked, timeouts>>, extCalls' \in 0 .. MaxCalls
    PROVE  ExtInv'
<1>1. /\ rec' = rec /\ owner' = owner /\ adapters' = adapters /\ order' = order
      /\ live' = live /\ leaked' = leaked /\ timeouts' = timeouts
  BY DEF extRow
<1>2. /\ SoloCall(call[c], rec, owner) /\ SoloTransit(call[c], rec) /\ SoloRival(call[c], rec)
      /\ SoloOrder(rec, order) /\ SoloOwners(rec, owner, adapters)
      /\ SoloLive(call[c], rec, live, leaked)
  BY SoloNow DEF SoloFits
<1>3. SoloCall(k, rec', owner') /\ SoloTransit(k, rec') /\ SoloRival(k, rec') /\ SoloLive(k, rec', live', leaked')
  BY <1>1, <1>2 DEF SoloCall, SoloTransit, SoloRival, SoloLive, Going
<1>4. SoloFits(k, rec', owner', adapters', order', live', leaked')
  BY <1>1, <1>2, <1>3 DEF SoloFits
<1>5. /\ rec' \in [Ext -> ExtRecord] /\ owner' \in [Cap -> Ext \cup {NoExt}]
      /\ adapters' \in [Connector -> Ext \cup {NoExt}]
      /\ order' \in Seq(Ext) /\ live' \in [Ext -> Nat] /\ leaked' \in [Ext -> Nat]
      /\ timeouts' \in 0 .. MaxTimeouts
  BY <1>1, ExtTypes DEF ExtInv
<1> QED
  BY <1>4, <1>5, OnlyCallSteps

\* The fields of a record that a step assigns.
LEMMA RecordSet ==
    ASSUME ExtTypeOK, NEW x \in Ext, NEW s, NEW i,
           [rec[x] EXCEPT !.state = s, !.issue = i] \in ExtRecord,
           rec' = [rec EXCEPT ![x].state = s, ![x].issue = i]
    PROVE  /\ rec' \in [Ext -> ExtRecord] /\ \A y \in Ext \ {x} : rec'[y] = rec[y]
           /\ rec'[x].state = s /\ rec'[x].issue = i
           /\ rec'[x].enabled = rec[x].enabled /\ rec'[x].runtime = rec[x].runtime
<1> DEFINE r == [rec[x] EXCEPT !.state = s, !.issue = i]
<1>1. rec \in [Ext -> ExtRecord] /\ rec[x] \in ExtRecord /\ r \in ExtRecord
  BY ExtTypes
<1>2. r.state = s /\ r.issue = i /\ r.enabled = rec[x].enabled /\ r.runtime = rec[x].runtime
  BY <1>1 DEF ExtRecord
<1>3. rec' = [rec EXCEPT ![x] = r]
  BY <1>1
<1> HIDE DEF r
<1> QED
  BY <1>1, <1>2, <1>3, RecordPut

\* The answer about a secret.
LEMMA SecretStep ==
    ASSUME ExtInv, NEW c \in Caller, NEW b \in BOOLEAN, SecretInspected(c, b)
    PROVE  ExtInv'
<1> DEFINE x == call[c].ext
<1>1. /\ call[c].pc = "secret"
      /\ IF b
         THEN rec' = [rec EXCEPT ![x].state = "ACTIVATING", ![x].issue = "none"] /\ CallAt(c, "import")
         ELSE rec' = [rec EXCEPT ![x].state = "BLOCKED", ![x].issue = "secret"] /\ CallContinues(c)
      /\ owner' = owner /\ order' = order /\ adapters' = adapters /\ live' = live /\ leaked' = leaked
      /\ extCalls' = extCalls /\ timeouts' = timeouts
  BY DEF SecretInspected
<1>2. /\ ExtTypeOK /\ \A d \in Caller \ {c} : call[d].pc = "idle"
      /\ call[c] \in CallRecord /\ call \in [Caller -> CallRecord] /\ extCalls' \in 0 .. MaxCalls
  BY <1>1, InHand, ExtTypes DEF ExtInv, Caller
<1>3. SoloCall(call[c], rec, owner) /\ SoloTransit(call[c], rec)
  BY <1>1, InHand
<1>4. x \in Ext /\ rec[x].enabled /\ \A n \in Declares[x] : owner[n] = NoExt
  BY <1>1, <1>3 DEF SoloCall, Going
<1>5. rec[x].state = "DISCOVERED" /\ ~rec[x].runtime
  BY <1>1, <1>3, <1>4 DEF SoloTransit, Active
<1>6. rec[x] \in ExtRecord
  BY <1>2, <1>4, ExtTypes
<1>7. CASE b
  <2> DEFINE k == [call[c] EXCEPT !.pc = "import"]
  <2>1. k \in CallRecord /\ k.pc = "import" /\ k.ext = x /\ call' = [call EXCEPT ![c] = k]
    BY <1>1, <1>2, <1>7 DEF CallRecord, CallAt
  <2>2. [rec[x] EXCEPT !.state = "ACTIVATING", !.issue = "none"] \in ExtRecord
    BY <1>6 DEF ExtRecord, InTransit
  <2>3. rec' = [rec EXCEPT ![x].state = "ACTIVATING", ![x].issue = "none"]
    BY <1>1, <1>7
  <2> HIDE DEF x, k
  <2>4. /\ rec' \in [Ext -> ExtRecord] /\ \A y \in Ext \ {x} : rec'[y] = rec[y]
        /\ rec'[x].state = "ACTIVATING" /\ rec'[x].issue = "none"
        /\ rec'[x].enabled = rec[x].enabled /\ rec'[x].runtime = rec[x].runtime
    BY <1>2, <1>4, <2>2, <2>3, RecordSet
  <2>5. call[c].ext = x
    BY DEF x
  <2> QED
    BY <1>1, <1>2, <1>4, <1>5, <2>1, <2>4, <2>5, RecordMoves
<1>8. CASE ~b
  <2> DEFINE k == Continued(c)
  <2>1. k \in CallRecord /\ k.pc \in {"idle", "next"} /\ k.ext = NoExt /\ call' = [call EXCEPT ![c] = k]
    BY <1>1, <1>2, <1>8, CallGoesOn DEF CallContinues
  <2>2. [rec[x] EXCEPT !.state = "BLOCKED", !.issue = "secret"] \in ExtRecord
    BY <1>6 DEF ExtRecord
  <2>3. rec' = [rec EXCEPT ![x].state = "BLOCKED", ![x].issue = "secret"]
    BY <1>1, <1>8
  <2> HIDE DEF x, k
  <2>4. /\ rec' \in [Ext -> ExtRecord] /\ \A y \in Ext \ {x} : rec'[y] = rec[y]
        /\ rec'[x].state = "BLOCKED" /\ rec'[x].issue = "secret"
        /\ rec'[x].enabled = rec[x].enabled /\ rec'[x].runtime = rec[x].runtime
    BY <1>2, <1>4, <2>2, <2>3, RecordSet
  <2>5. call[c].ext = x
    BY DEF x
  <2> QED
    BY <1>1, <1>2, <1>4, <1>5, <2>1, <2>4, <2>5, RecordMoves
<1> QED
  BY <1>7, <1>8

\* The next extension of a loop.
LEMMA ActivateNextStep ==
    ASSUME ExtInv, NEW c \in Caller, ActivateNext(c)
    PROVE  ExtInv'
<1>1. /\ call[c].pc = "next"
      /\ owner' = owner /\ order' = order /\ adapters' = adapters /\ live' = live /\ leaked' = leaked
      /\ extCalls' = extCalls /\ timeouts' = timeouts
  BY DEF ActivateNext
<1>2. /\ ExtTypeOK /\ \A d \in Caller \ {c} : call[d].pc = "idle"
      /\ call[c] \in CallRecord /\ call \in [Caller -> CallRecord] /\ extCalls' \in 0 .. MaxCalls
      /\ NoCall \in CallRecord /\ NoCall.pc = "idle" /\ NoCall.ext = NoExt /\ NoExt \notin Ext
  BY <1>1, InHand, ExtTypes, CallGoesOn DEF ExtInv, Caller
<1>3. SoloCall(call[c], rec, owner) /\ SoloTransit(call[c], rec) /\ SoloOwners(rec, owner, adapters)
  BY <1>1, InHand
<1>4. CASE call[c].todo = {}
  <2>1. call' = [call EXCEPT ![c] = NoCall] /\ rec' = rec
    BY <1>4 DEF ActivateNext, CallEnds
  <2> QED
    BY <1>1, <1>2, <2>1, CallMoves DEF extRow
<1>5. CASE call[c].todo # {}
  <2>1. PICK x \in call[c].todo :
          LET rest == [call EXCEPT ![c].todo = @ \ {x}]
          IN  IF ~(rec[x].enabled /\ rec[x].state = "DISCOVERED")
              THEN call' = rest /\ UNCHANGED rec
              ELSE IF \E k \in Declares[x] : owner[k] \notin {NoExt, x}
              THEN rec' = [rec EXCEPT ![x].state = "BLOCKED", ![x].issue = "conflict"] /\ CallEnds(c)
              ELSE IF x \in Secretive
              THEN call' = [rest EXCEPT ![c].pc = "secret", ![c].ext = x] /\ UNCHANGED rec
              ELSE /\ rec' = [rec EXCEPT ![x].state = "ACTIVATING", ![x].issue = "none"]
                   /\ call' = [rest EXCEPT ![c].pc = "import", ![c].ext = x]
    BY <1>5 DEF ActivateNext
  <2> DEFINE rest == [call EXCEPT ![c].todo = @ \ {x}]
             kr == [call[c] EXCEPT !.todo = @ \ {x}]
             ks == [kr EXCEPT !.pc = "secret", !.ext = x]
             ki == [kr EXCEPT !.pc = "import", !.ext = x]
  <2>2. x \in Ext /\ call[c].todo \in SUBSET Ext
    BY <1>2 DEF CallRecord
  <2>3. kr \in CallRecord /\ kr.pc = "next"
    BY <1>1, <1>2, <2>2 DEF CallRecord
  <2>4. ks \in CallRecord /\ ks.pc = "secret" /\ ks.ext = x /\ ki \in CallRecord /\ ki.pc = "import" /\ ki.ext = x
    BY <2>2, <2>3 DEF CallRecord
  <2>5. /\ rest = [call EXCEPT ![c] = kr]
        /\ [rest EXCEPT ![c].pc = "secret", ![c].ext = x] = [call EXCEPT ![c] = ks]
        /\ [rest EXCEPT ![c].pc = "import", ![c].ext = x] = [call EXCEPT ![c] = ki]
    BY <1>2
  <2>6. rec[x] \in ExtRecord /\ Declares[x] \subseteq Cap
    BY <1>2, <2>2, ExtTypes
  <2> DEFINE ready == rec[x].enabled /\ rec[x].state = "DISCOVERED"
             taken == \E k \in Declares[x] : owner[k] \notin {NoExt, x}
  <2>7. CASE ~ready
    <3>1. call' = [call EXCEPT ![c] = kr] /\ rec' = rec
      BY <2>1, <2>5, <2>7
    <3> HIDE DEF kr
    <3> QED
      BY <1>1, <1>2, <2>3, <3>1, CallMoves DEF extRow
  <2>8. CASE ready /\ taken
    <3>1. rec' = [rec EXCEPT ![x].state = "BLOCKED", ![x].issue = "conflict"] /\ call' = [call EXCEPT ![c] = NoCall]
      BY <2>1, <2>8 DEF CallEnds
    <3>2. [rec[x] EXCEPT !.state = "BLOCKED", !.issue = "conflict"] \in ExtRecord
      BY <2>6 DEF ExtRecord
    <3>3. /\ rec' \in [Ext -> ExtRecord] /\ \A y \in Ext \ {x} : rec'[y] = rec[y]
          /\ rec'[x].state = "BLOCKED" /\ rec'[x].issue = "conflict"
          /\ rec'[x].enabled = rec[x].enabled /\ rec'[x].runtime = rec[x].runtime
      BY <1>2, <2>2, <3>1, <3>2, RecordSet
    <3>4. PICK n \in Declares[x] : owner[n] \notin {NoExt, x}
      BY <2>8
    <3>5. n \in Cap /\ owner[n] \in Ext \ {x}
      BY <1>2, <2>6, <3>4, ExtTypes
    <3>6. n \in Declares[owner[n]] /\ rec[owner[n]].state \in Active
      BY <1>3, <3>5 DEF SoloOwners
    <3>7. rec[owner[n]].enabled
      BY <1>1, <1>3, <3>5, <3>6 DEF SoloTransit, Active
    <3>8. \E z \in Ext \ {x} : Declares[x] \cap Declares[z] # {} /\ rec[z].enabled
      BY <3>4, <3>5, <3>6, <3>7
    <3>9. ~rec[x].runtime
      BY <1>3, <2>2, <2>8 DEF SoloTransit, Active
    <3> HIDE DEF rest, kr, ks, ki, taken
    <3> QED
      BY <1>1, <1>2, <2>2, <2>8, <3>1, <3>3, <3>8, <3>9, RecordMoves
  <2>9. CASE ready /\ ~taken
    <3>1. \A n \in Declares[x] : owner[n] = NoExt
      <4> SUFFICES ASSUME NEW n \in Declares[x], owner[n] # NoExt PROVE FALSE
        OBVIOUS
      <4>1. owner[n] = x
        BY <2>9
      <4>2. rec[x].state \in Active
        BY <1>3, <2>2, <2>6, <4>1 DEF SoloOwners
      <4> QED
        BY <2>9, <4>2 DEF Active
    <3>2. ~rec[x].runtime /\ rec[x].issue # "conflict"
      BY <1>3, <2>2, <2>9 DEF SoloTransit, Active
    <3>3. CASE x \in Secretive
      <4>1. call' = [call EXCEPT ![c] = ks] /\ rec' = rec
        BY <2>1, <2>5, <2>9, <3>3
      <4> HIDE DEF rest, kr, ks, ki, taken
      <4>2. rec' \in [Ext -> ExtRecord]
        BY <1>2, <4>1, ExtTypes
      <4> QED
        BY <1>1, <1>2, <2>2, <2>4, <2>9, <3>1, <3>2, <4>1, <4>2, RecordMoves
    <3>4. CASE x \notin Secretive
      <4>1. /\ rec' = [rec EXCEPT ![x].state = "ACTIVATING", ![x].issue = "none"]
            /\ call' = [call EXCEPT ![c] = ki]
        BY <2>1, <2>5, <2>9, <3>4
      <4>2. [rec[x] EXCEPT !.state = "ACTIVATING", !.issue = "none"] \in ExtRecord
        BY <2>6 DEF ExtRecord, InTransit
      <4>3. /\ rec' \in [Ext -> ExtRecord] /\ \A y \in Ext \ {x} : rec'[y] = rec[y]
            /\ rec'[x].state = "ACTIVATING" /\ rec'[x].issue = "none"
            /\ rec'[x].enabled = rec[x].enabled /\ rec'[x].runtime = rec[x].runtime
        BY <1>2, <2>2, <4>1, <4>2, RecordSet
      <4>4. /\ rec[x].state \in {"DISCOVERED", "BLOCKED", "DISABLED"} /\ rec[x].enabled
            /\ rec'[x].enabled /\ ~rec'[x].runtime /\ rec'[x].issue # "conflict"
        BY <2>9, <3>2, <4>3
      <4> HIDE DEF rest, kr, ks, ki, ready, taken
      <4> QED
        BY <1>1, <1>2, <2>2, <2>4, <3>1, <4>1, <4>3, <4>4, RecordMoves
    <3> QED
      BY <3>3, <3>4
  <2> QED
    BY <2>7, <2>8, <2>9
<1> QED
  BY <1>4, <1>5

-----------------------------------------------------------------------------
Once(s) == \A i, j \in DOMAIN s : s[i] = s[j] => i = j
Unlisted(t, s, x) ==
    /\ t \in Seq(Ext)
    /\ \A y : (\E i \in DOMAIN t : t[i] = y) <=> y # x /\ \E i \in DOMAIN s : s[i] = y
    /\ Once(t)

\* An extension that is listed once is no longer listed.
LEMMA WithoutTheOnly ==
    ASSUME NEW s \in Seq(Ext), NEW x \in Ext, Once(s)
    PROVE  Unlisted(WithoutLast(s, x), s, x)
<1> DEFINE t == WithoutLast(s, x)
<1>0. \A i, j \in DOMAIN s : s[i] = s[j] => i = j
  BY DEF Once
<1> HIDE DEF t
<1>1. CASE \A i \in DOMAIN s : s[i] # x
  <2>1. t = s
    BY <1>1 DEF WithoutLast, t
  <2> QED
    BY <1>1, <2>1 DEF Unlisted, t
<1>2. CASE \E i \in DOMAIN s : s[i] = x
  <2>1. PICK m \in DOMAIN s : s[m] = x
    BY <1>2
  <2>2. \A i \in DOMAIN s : s[i] = x /\ (\A j \in DOMAIN s : s[j] = x => j <= i) <=> i = m
    BY <1>0, <2>1
  <2>3. (CHOOSE i \in DOMAIN s : s[i] = x /\ \A j \in DOMAIN s : s[j] = x => j <= i) = m
    BY <2>2
  <2>4. t = [i \in 1 .. Len(s) - 1 |-> IF i < m THEN s[i] ELSE s[i + 1]]
    BY <1>2, <2>3 DEF WithoutLast, t
  <2>5. /\ Len(s) \in Nat /\ DOMAIN s = 1 .. Len(s) /\ m \in 1 .. Len(s) /\ Len(s) - 1 \in Nat
        /\ \A i \in 1 .. Len(s) : s[i] \in Ext
    BY <2>1
  <2>6. t \in [1 .. Len(s) - 1 -> Ext]
    BY <2>4, <2>5
  <2>7. t \in Seq(Ext) /\ DOMAIN t = 1 .. Len(s) - 1
    BY <2>5, <2>6
  <2>8. \A i \in 1 .. Len(s) - 1 : t[i] = (IF i < m THEN s[i] ELSE s[i + 1]) /\ t[i] # x
    BY <1>0, <2>1, <2>4, <2>5
  <2>9. \A i, j \in DOMAIN t : t[i] = t[j] => i = j
    BY <1>0, <2>5, <2>7, <2>8
  <2>10. \A y : (\E i \in DOMAIN t : t[i] = y) <=> y # x /\ \E i \in DOMAIN s : s[i] = y
    <3>1. ASSUME NEW i \in DOMAIN t PROVE t[i] # x /\ \E j \in DOMAIN s : s[j] = t[i]
      BY <2>5, <2>7, <2>8
    <3>2. ASSUME NEW j \in DOMAIN s, s[j] # x PROVE \E i \in DOMAIN t : t[i] = s[j]
      <4>1. CASE j < m
        <5>1. j \in DOMAIN t /\ t[j] = s[j]
          BY <2>5, <2>7, <2>8, <3>2, <4>1
        <5> QED
          BY <5>1
      <4>2. CASE j > m
        <5>1. j - 1 \in DOMAIN t /\ t[j - 1] = s[j]
          BY <2>5, <2>7, <2>8, <3>2, <4>2
        <5> QED
          BY <5>1
      <4>3. j # m
        BY <2>1, <3>2
      <4> QED
        BY <2>5, <4>1, <4>2, <4>3
    <3> QED
      BY <3>1, <3>2
  <2> QED
    BY <2>7, <2>9, <2>10 DEF Unlisted, Once, t
<1> QED
  BY <1>1, <1>2

\* Of the numbers up to a bound there is a last one.
LEMMA TheLastOfThem ==
    ASSUME NEW n \in Nat, NEW D \in SUBSET (1 .. n), D # {}
    PROVE  \E m \in D : \A j \in D : j <= m
<1> DEFINE S == {n - j : j \in D}
<1>1. S \subseteq Nat /\ S # {}
  <2>1. \A j \in D : j \in 1 .. n /\ n - j \in Nat
    OBVIOUS
  <2>2. PICK j \in D : TRUE
    OBVIOUS
  <2>3. n - j \in S
    BY <2>2
  <2> QED
    BY <2>1, <2>3
<1>2. PICK x \in S : \A y \in S : ~ (<<y, x>> \in OpToRel(<, Nat))
  BY <1>1, NatLessThanWellFounded, WFMin
<1>3. ASSUME NEW y \in S PROVE x <= y
  <2>1. y \in Nat /\ x \in Nat /\ <<y, x>> \in Nat \X Nat
    BY <1>1
  <2>2. <<y, x>>[1] = y /\ <<y, x>>[2] = x
    OBVIOUS
  <2>3. ~(y < x)
    BY <1>2, <1>3, <2>1, <2>2, Zenon DEF OpToRel
  <2> QED
    BY <2>1, <2>3
<1>4. PICK m \in D : x = n - m
  OBVIOUS
<1>5. \A j \in D : n - m <= n - j
  BY <1>3, <1>4
<1> QED
  BY <1>5

\* close: the next of those that are active.
LEMMA CloseNextStep ==
    ASSUME ExtInv, NEW c \in Caller, CloseNext(c)
    PROVE  ExtInv'
<1>1. /\ call[c].pc = "next" /\ call[c].op = "close"
      /\ owner' = owner /\ order' = order /\ live' = live /\ leaked' = leaked
      /\ extCalls' = extCalls /\ timeouts' = timeouts
  BY DEF CloseNext
<1>2. /\ ExtTypeOK /\ \A d \in Caller \ {c} : call[d].pc = "idle"
      /\ call[c] \in CallRecord /\ call \in [Caller -> CallRecord] /\ extCalls' \in 0 .. MaxCalls
      /\ NoCall \in CallRecord /\ NoCall.pc = "idle" /\ NoCall.ext = NoExt /\ NoExt \notin Ext
  BY <1>1, InHand, ExtTypes, CallGoesOn DEF ExtInv, Caller
<1>3. /\ SoloCall(call[c], rec, owner) /\ SoloTransit(call[c], rec) /\ SoloRival(call[c], rec)
      /\ SoloOrder(rec, order) /\ SoloOwners(rec, owner, adapters)
      /\ SoloLive(call[c], rec, live, leaked)
  BY <1>1, InHand
<1>4. CASE ~\E i \in DOMAIN order : rec[order[i]].state = "READY"
  <2>1. call' = [call EXCEPT ![c] = NoCall] /\ rec' = rec /\ adapters' = adapters
    BY <1>4 DEF CloseNext, CallEnds
  <2> QED
    BY <1>1, <1>2, <2>1, CallMoves DEF extRow
<1>5. CASE \E i \in DOMAIN order : rec[order[i]].state = "READY"
  <2> DEFINE P(i) == rec[order[i]].state = "READY"
                       /\ \A j \in DOMAIN order : j > i => rec[order[j]].state # "READY"
             i == CHOOSE i \in DOMAIN order : P(i)
             x == order[i]
             k == [call[c] EXCEPT !.ext = x, !.pc = "deactivate"]
             r == [rec[x] EXCEPT !.state = "DEACTIVATING"]
  <2>1. /\ rec' = [rec EXCEPT ![x].state = "DEACTIVATING"] /\ adapters' = Unregistered(x)
        /\ call' = [call EXCEPT ![c].ext = x, ![c].pc = "deactivate"]
    BY <1>5 DEF CloseNext, Deactivating
  <2>2. \E j \in DOMAIN order : P(j)
    <3> DEFINE D == {j \in DOMAIN order : rec[order[j]].state = "READY"}
    <3>1. order \in Seq(Ext)
      BY <1>2, ExtTypes
    <3>2. D # {} /\ D \subseteq 1 .. Len(order) /\ Len(order) \in Nat
      BY <1>5, <3>1
    <3>4. \E m \in D : \A j \in D : j <= m
      BY <3>2, TheLastOfThem
    <3> QED
      BY <3>2, <3>4
  <2>3. i \in DOMAIN order /\ P(i)
    BY <2>2
  <2> HIDE DEF i
  <2>4. x \in Ext /\ rec[x].state = "READY" /\ rec[x].enabled /\ rec[x].runtime
    <3>1. x \in Ext
      BY <1>2, <2>3, ExtTypes
    <3> QED
      BY <1>3, <2>3, <3>1 DEF SoloTransit, Active
  <2>5. rec[x].issue # "conflict" /\ rec[x] \in ExtRecord /\ rec \in [Ext -> ExtRecord]
    BY <1>2, <1>3, <2>4, ExtTypes DEF SoloTransit
  <2>6. k \in CallRecord /\ k.pc = "deactivate" /\ k.ext = x /\ k.op = "close" /\ call' = [call EXCEPT ![c] = k]
    BY <1>1, <1>2, <2>1, <2>4 DEF CallRecord
  <2>7. /\ rec' \in [Ext -> ExtRecord] /\ rec'[x] = r /\ \A y \in Ext \ {x} : rec'[y] = rec[y]
        /\ r.state = "DEACTIVATING" /\ r.enabled /\ r.runtime /\ r.issue # "conflict"
    <3>1. /\ r \in ExtRecord /\ r.state = "DEACTIVATING" /\ r.enabled = rec[x].enabled
          /\ r.runtime = rec[x].runtime /\ r.issue = rec[x].issue
      BY <2>5 DEF ExtRecord, InTransit
    <3>2. rec' = [rec EXCEPT ![x] = r]
      BY <2>1, <2>5
    <3> HIDE DEF r, x
    <3> QED
      BY <2>4, <2>5, <3>1, <3>2, RecordPut
  <2> HIDE DEF x, k, r
  <2>8. /\ adapters' \in [Connector -> Ext \cup {NoExt}]
        /\ \A n \in Connector : adapters'[n] # NoExt => adapters'[n] = adapters[n] /\ adapters[n] \in Ext \ {x}
    BY <1>2, <2>1, ExtTypes DEF Unregistered
  <2>9. \A y \in Ext : (rec'[y].state \in Active <=> rec[y].state \in Active) /\ (rec'[y].runtime <=> rec[y].runtime)
    BY <2>4, <2>7 DEF Active
  <2>10. SoloCall(k, rec', owner')
    BY <2>4, <2>6 DEF SoloCall, Going
  <2>11. SoloTransit(k, rec')
    BY <1>1, <1>2, <1>3, <2>4, <2>6, <2>7 DEF SoloTransit, Active
  <2>12. SoloRival(k, rec')
    <3> SUFFICES ASSUME NEW y \in Ext, rec'[y].issue = "conflict"
        PROVE \E z \in Ext \ {y} : Declares[y] \cap Declares[z] # {} /\ rec'[z].enabled
      BY DEF SoloRival
    <3>1. rec[y].issue = "conflict"
      BY <2>7
    <3>2. PICK z \in Ext \ {y} : Declares[y] \cap Declares[z] # {} /\ rec[z].enabled
      BY <1>1, <1>3, <3>1 DEF SoloRival
    <3> QED
      BY <3>2, <2>4, <2>7
  <2>13. SoloOrder(rec', order')
    <3>1. {y \in Ext : rec'[y].state \in Active} = {y \in Ext : rec[y].state \in Active}
      BY <2>9
    <3> QED
      BY <1>1, <1>3, <3>1 DEF SoloOrder
  <2>14. SoloOwners(rec', owner', adapters')
    <3>1. \A n \in Connector : adapters'[n] # NoExt =>
             adapters'[n] = owner'[n] /\ rec'[adapters'[n]].state = "READY"
      BY <1>1, <1>3, <2>7, <2>8 DEF SoloOwners
    <3>2. \A n \in Cap, y \in Ext : owner'[n] = y <=> n \in Declares[y] /\ rec'[y].state \in Active
      BY <1>1, <1>3, <2>9 DEF SoloOwners
    <3> QED
      BY <3>1, <3>2 DEF SoloOwners
  <2>15. SoloLive(k, rec', live', leaked')
    BY <1>1, <1>3, <2>6, <2>9 DEF SoloLive
  <2>16. SoloFits(k, rec', owner', adapters', order', live', leaked')
    BY <2>10, <2>11, <2>12, <2>13, <2>14, <2>15 DEF SoloFits
  <2>17. /\ owner' \in [Cap -> Ext \cup {NoExt}] /\ order' \in Seq(Ext)
         /\ live' \in [Ext -> Nat] /\ leaked' \in [Ext -> Nat] /\ timeouts' \in 0 .. MaxTimeouts
    BY <1>1, <1>2, ExtTypes
  <2> QED
    BY <1>2, <2>6, <2>7, <2>8, <2>16, <2>17, OnlyCallSteps
<1> QED
  BY <1>4, <1>5

-----------------------------------------------------------------------------
\* The registry after every record that does not move has begun anew.
RestsAt(R, own, ad, o, lv, lk) ==
    /\ \A x \in Ext :
         /\ R[x].state \notin InTransit
         /\ R[x].state = "READY" => R[x].issue # "conflict" /\ R[x].enabled
         /\ R[x].runtime <=> R[x].state = "READY"
         /\ lv[x] = lk[x] + (IF R[x].runtime THEN 1 ELSE 0)
    /\ \A n \in Cap, x \in Ext : own[n] = x <=> n \in Declares[x] /\ R[x].state = "READY"
    /\ \A n \in Connector : ad[n] # NoExt => ad[n] = own[n]
    /\ {o[i] : i \in DOMAIN o} = {x \in Ext : R[x].state = "READY"}
    /\ \A i, j \in DOMAIN o : o[i] = o[j] => i = j

LEMMA RecordsBeginAnew ==
    ASSUME NEW R \in [Ext -> ExtRecord], NEW own \in [Cap -> Ext \cup {NoExt}], NEW k \in CallRecord,
           NEW ad, NEW o, NEW lv \in [Ext -> Nat], NEW lk \in [Ext -> Nat], RestsAt(R, own, ad, o, lv, lk), k.pc \in {"idle", "next"}
    PROVE  /\ Reconciled(R, own) \in [Ext -> ExtRecord]
           /\ SoloFits(k, Reconciled(R, own), own, ad, o, lv, lk)
<1> DEFINE Q == Reconciled(R, own)
<1>1. /\ \A x \in Ext :
           /\ R[x].state \notin InTransit
           /\ R[x].state = "READY" => R[x].issue # "conflict" /\ R[x].enabled
           /\ R[x].runtime <=> R[x].state = "READY"
           /\ lv[x] = lk[x] + (IF R[x].runtime THEN 1 ELSE 0)
      /\ \A n \in Cap, x \in Ext : own[n] = x <=> n \in Declares[x] /\ R[x].state = "READY"
      /\ \A n \in Connector : ad[n] # NoExt => ad[n] = own[n]
      /\ {o[i] : i \in DOMAIN o} = {x \in Ext : R[x].state = "READY"}
      /\ \A i, j \in DOMAIN o : o[i] = o[j] => i = j
  BY DEF RestsAt
<1>2. /\ Q \in [Ext -> ExtRecord]
      /\ \A x \in Ext :
           /\ Q[x].enabled = R[x].enabled
           /\ Q[x].runtime = R[x].runtime
           /\ R[x].state = "READY" => Q[x] = R[x]
           /\ R[x].state # "READY" => Q[x].state \in {"DISCOVERED", "BLOCKED", "DISABLED"}
           /\ Q[x].state \in {"DISCOVERED", "DISABLED"} => Q[x].issue # "conflict"
           /\ Q[x].issue = "conflict" =>
                /\ Q[x].state = "BLOCKED"
                /\ \E y \in Ext \ {x} : Declares[x] \cap Declares[y] # {} /\ R[y].enabled
  BY <1>1, ReconciledRecords
<1> HIDE DEF Q
<1>3. \A x \in Ext : Q[x].state \in Active <=> R[x].state = "READY"
  BY <1>2 DEF Active
<1>4. SoloCall(k, Q, own)
  BY DEF SoloCall, Going
<1>5. SoloTransit(k, Q)
  <2> SUFFICES ASSUME NEW y \in Ext
      PROVE /\ Q[y].state \notin InTransit
            /\ Q[y].state = "READY" => Q[y].enabled
            /\ Q[y].state # "BLOCKED" => Q[y].issue # "conflict"
            /\ Q[y].runtime <=> Q[y].state \in Active
    BY DEF SoloTransit, InTransit
  <2>1. CASE R[y].state = "READY"
    BY <1>1, <1>2, <1>3, <2>1 DEF InTransit
  <2>2. CASE R[y].state # "READY"
    BY <1>1, <1>2, <1>3, <2>2 DEF InTransit
  <2> QED
    BY <2>1, <2>2
<1>6. SoloRival(k, Q)
  BY <1>2 DEF SoloRival
<1>7. SoloOrder(Q, o)
  <2>1. {x \in Ext : Q[x].state \in Active} = {x \in Ext : R[x].state = "READY"}
    BY <1>3
  <2> QED
    BY <1>1, <2>1 DEF SoloOrder
<1>8. SoloOwners(Q, own, ad)
  <2>1. \A n \in Connector : ad[n] # NoExt => ad[n] = own[n] /\ Q[ad[n]].state = "READY"
    <3> TAKE n \in Connector
    <3> HAVE ad[n] # NoExt
    <3>1. ad[n] = own[n] /\ n \in Cap
      BY <1>1, ExtensionAssumption
    <3>2. own[n] \in Ext
      BY <3>1
    <3>3. R[own[n]].state = "READY"
      BY <1>1, <3>1, <3>2
    <3> QED
      BY <1>2, <3>1, <3>2, <3>3
  <2> QED
    BY <1>1, <1>3, <2>1 DEF SoloOwners
<1>9. SoloLive(k, Q, lv, lk)
  <2> SUFFICES ASSUME NEW y \in Ext
      PROVE lv[y] = lk[y] + 0 + (IF Q[y].runtime THEN 1 ELSE 0)
    BY DEF SoloLive
  <2>1. lv[y] = lk[y] + (IF R[y].runtime THEN 1 ELSE 0) /\ Q[y].runtime = R[y].runtime
    BY <1>1, <1>2
  <2> QED
    BY <2>1
<1> QED
  BY <1>2, <1>4, <1>5, <1>6, <1>7, <1>8, <1>9 DEF SoloFits, Q

\* The end of a deactivation, in time or not.
LEMMA DeactivatedStep ==
    ASSUME ExtInv, NEW c \in Caller, NEW ok \in BOOLEAN, Deactivated(c, ok)
    PROVE  ExtInv'
<1> DEFINE x == call[c].ext
           k == [call[c] EXCEPT !.pc = "next", !.ext = NoExt]
           st == IF ok THEN "DISABLED" ELSE "FAILED"
           is == IF ok THEN "none" ELSE "failed"
           R == [rec EXCEPT ![x].state = st, ![x].issue = is, ![x].runtime = FALSE]
           r == [rec[x] EXCEPT !.state = st, !.issue = is, !.runtime = FALSE]
<1>1. /\ call[c].pc = "deactivate" /\ (~ok => timeouts < MaxTimeouts)
      /\ timeouts' = IF ok THEN timeouts ELSE timeouts + 1
      /\ owner' = [n \in Cap |-> IF owner[n] = x THEN NoExt ELSE owner[n]]
      /\ order' = WithoutLast(order, x)
      /\ live' = IF ok THEN [live EXCEPT ![x] = @ - 1] ELSE live
      /\ leaked' = IF ok THEN leaked ELSE [leaked EXCEPT ![x] = @ + 1]
      /\ call' = [call EXCEPT ![c].pc = "next", ![c].ext = NoExt]
      /\ rec' = IF call[c].op = "disable" THEN Reconciled(R, owner') ELSE R
      /\ adapters' = adapters /\ extCalls' = extCalls
  BY DEF Deactivated, Forgotten
<1>2. /\ ExtTypeOK /\ \A d \in Caller \ {c} : call[d].pc = "idle"
      /\ call[c] \in CallRecord /\ call \in [Caller -> CallRecord] /\ NoExt \notin Ext
      /\ rec \in [Ext -> ExtRecord] /\ owner \in [Cap -> Ext \cup {NoExt}] /\ order \in Seq(Ext)
      /\ adapters \in [Connector -> Ext \cup {NoExt}] /\ Connector \subseteq Cap
      /\ live \in [Ext -> Nat] /\ leaked \in [Ext -> Nat] /\ extCalls' \in 0 .. MaxCalls
      /\ timeouts' \in 0 .. MaxTimeouts
  BY <1>1, InHand, ExtTypes DEF ExtInv, Caller
<1>3. /\ SoloCall(call[c], rec, owner) /\ SoloTransit(call[c], rec) /\ SoloRival(call[c], rec)
      /\ SoloOrder(rec, order) /\ SoloOwners(rec, owner, adapters)
      /\ SoloLive(call[c], rec, live, leaked)
  BY <1>1, InHand
<1>4. x \in Ext /\ rec[x].state = "DEACTIVATING" /\ rec[x].runtime
  <2>1. x \in Ext
    BY <1>1, <1>3 DEF SoloCall
  <2> QED
    BY <2>1, <1>1, <1>3 DEF SoloTransit, Active
<1>5. k \in CallRecord /\ k.pc = "next" /\ k.ext = NoExt /\ call' = [call EXCEPT ![c] = k]
  BY <1>1, <1>2 DEF CallRecord
<1>6. /\ R \in [Ext -> ExtRecord] /\ R[x] = r /\ \A y \in Ext \ {x} : R[y] = rec[y]
      /\ r.state = st /\ r.issue = is /\ ~r.runtime /\ r.enabled = rec[x].enabled
  <2>1. /\ r \in ExtRecord /\ r.state = st /\ r.issue = is /\ ~r.runtime /\ r.enabled = rec[x].enabled
    BY <1>2, <1>4 DEF ExtRecord
  <2>2. R = [rec EXCEPT ![x] = r]
    BY <1>2
  <2> HIDE DEF r, x, R
  <2> QED
    BY <1>2, <1>4, <2>1, <2>2
<1>7. call[c].ext = x /\ st \in {"DISABLED", "FAILED"} /\ is \in {"none", "failed"}
  OBVIOUS
<1> HIDE DEF x, k, r, R, st, is
<1>8. /\ live' \in [Ext -> Nat] /\ leaked' \in [Ext -> Nat]
      /\ \A y \in Ext : live'[y] = leaked'[y] + (IF R[y].runtime THEN 1 ELSE 0)
  <2>1. /\ live[x] = leaked[x] + 1
        /\ \A y \in Ext : live[y] = leaked[y] + (IF rec[y].runtime THEN 1 ELSE 0)
    <3>1. \A y \in Ext : live[y] = leaked[y] + 0 + (IF rec[y].runtime THEN 1 ELSE 0)
      BY <1>1, <1>3 DEF SoloLive
    <3> QED
      BY <3>1, <1>2, <1>4
  <2>2. CASE ok
    <3>1. live' = [live EXCEPT ![x] = @ - 1] /\ leaked' = leaked
      BY <1>1, <2>2
    <3>2. live[x] - 1 = leaked[x] /\ leaked[x] \in Nat
      BY <1>2, <1>4, <2>1
    <3> QED
      BY <1>2, <1>4, <1>6, <2>1, <3>1, <3>2
  <2>3. CASE ~ok
    <3>1. live' = live /\ leaked' = [leaked EXCEPT ![x] = @ + 1]
      BY <1>1, <2>3
    <3> QED
      BY <1>2, <1>4, <1>6, <2>1, <3>1
  <2> QED
    BY <2>2, <2>3
<1>9. /\ order' \in Seq(Ext)
      /\ {order'[i] : i \in DOMAIN order'} = {y \in Ext : rec[y].state \in Active} \ {x}
      /\ \A i, j \in DOMAIN order' : order'[i] = order'[j] => i = j
  <2>1. /\ {order[i] : i \in DOMAIN order} = {y \in Ext : rec[y].state \in Active}
        /\ \A i, j \in DOMAIN order : order[i] = order[j] => i = j
    BY <1>3 DEF SoloOrder
  <2>2. /\ order' \in Seq(Ext)
        /\ \A y : (\E i \in DOMAIN order' : order'[i] = y) <=> y # x /\ \E i \in DOMAIN order : order[i] = y
        /\ \A i, j \in DOMAIN order' : order'[i] = order'[j] => i = j
    <3>1. order \in Seq(Ext) /\ x \in Ext /\ order' = WithoutLast(order, x)
      BY <1>1, <1>2, <1>4
    <3>2. Once(order)
      BY <2>1 DEF Once
    <3>3. Unlisted(order', order, x)
      BY <3>1, <3>2, WithoutTheOnly
    <3> QED
      BY <3>3 DEF Unlisted, Once
  <2>3. {order'[i] : i \in DOMAIN order'} = {order[i] : i \in DOMAIN order} \ {x}
    BY ONLY <2>2
  <2> QED
    BY <2>1, <2>2, <2>3
<1>10. \A y \in Ext \ {x} : rec[y].state \notin InTransit
  BY <1>1, <1>3, <1>7 DEF SoloTransit, InTransit
<1>11. \A y \in Ext : R[y].state = "READY" <=> rec[y].state \in Active /\ y # x
  BY <1>4, <1>6, <1>7, <1>10 DEF Active, InTransit
<1>12. RestsAt(R, owner', adapters', order', live', leaked')
  <2>1. \A y \in Ext :
          /\ R[y].state \notin InTransit
          /\ R[y].state = "READY" => R[y].issue # "conflict" /\ R[y].enabled
          /\ R[y].runtime <=> R[y].state = "READY"
    <3> TAKE y \in Ext
    <3>1. CASE y = x
      BY <1>6, <1>7, <3>1 DEF InTransit
    <3>2. CASE y # x
      BY <1>3, <1>6, <1>10, <3>2 DEF InTransit, SoloTransit, Active
    <3> QED
      BY <3>1, <3>2
  <2>2. \A n \in Cap, y \in Ext : owner'[n] = y <=> n \in Declares[y] /\ R[y].state = "READY"
    <3> TAKE n \in Cap, y \in Ext
    <3>1. owner'[n] = IF owner[n] = x THEN NoExt ELSE owner[n]
      BY <1>1
    <3>2. owner[n] = y <=> n \in Declares[y] /\ rec[y].state \in Active
      BY <1>3 DEF SoloOwners
    <3> QED
      BY <1>2, <1>11, <3>1, <3>2
  <2>3. \A n \in Connector : adapters'[n] # NoExt => adapters'[n] = owner'[n]
    <3> SUFFICES ASSUME NEW n \in Connector, adapters[n] # NoExt PROVE adapters[n] = owner'[n]
      BY <1>1
    <3>1. adapters[n] = owner[n] /\ rec[adapters[n]].state = "READY" /\ n \in Cap
      BY <1>2, <1>3 DEF SoloOwners
    <3>2. owner[n] # x
      BY <1>4, <3>1
    <3> QED
      BY <1>1, <3>1, <3>2
  <2>4. {order'[i] : i \in DOMAIN order'} = {y \in Ext : R[y].state = "READY"}
    BY <1>9, <1>11
  <2> QED
    BY <1>8, <1>9, <2>1, <2>2, <2>3, <2>4 DEF RestsAt
<1>13. CASE call[c].op = "disable"
  <2>1. rec' = Reconciled(R, owner') /\ owner' \in [Cap -> Ext \cup {NoExt}]
    BY <1>1, <1>2, <1>13
  <2>2. rec' \in [Ext -> ExtRecord] /\ SoloFits(k, rec', owner', adapters', order', live', leaked')
    BY <1>5, <1>6, <1>8, <1>12, <2>1, RecordsBeginAnew
  <2>3. adapters' \in [Connector -> Ext \cup {NoExt}] /\ order' \in Seq(Ext)
    BY <1>1, <1>2, <1>9
  <2> QED
    BY <1>2, <1>5, <1>8, <2>1, <2>2, <2>3, OnlyCallSteps
<1>14. CASE call[c].op # "disable"
  <2>1. rec' = R /\ owner' \in [Cap -> Ext \cup {NoExt}]
    BY <1>1, <1>2, <1>14
  <2>2. SoloCall(k, rec', owner')
    BY <1>5 DEF SoloCall, Going
  <2>3. SoloTransit(k, rec')
    <3> SUFFICES ASSUME NEW y \in Ext
        PROVE /\ R[y].state \notin InTransit
              /\ R[y].state = "READY" => R[y].enabled
              /\ R[y].state # "BLOCKED" => R[y].issue # "conflict"
              /\ R[y].runtime <=> R[y].state \in Active
      BY <1>5, <2>1 DEF SoloTransit, InTransit
    <3>1. /\ R[y].state \notin InTransit
          /\ R[y].state = "READY" => R[y].enabled
          /\ R[y].runtime <=> R[y].state \in Active
      BY <1>12 DEF RestsAt, Active, InTransit
    <3>2. CASE y = x
      BY <1>6, <1>7, <3>1, <3>2
    <3>3. CASE y # x
      BY <1>3, <1>6, <3>1, <3>3 DEF SoloTransit
    <3> QED
      BY <3>1, <3>2, <3>3
  <2>4. SoloRival(k, rec')
    <3> SUFFICES ASSUME NEW y \in Ext, R[y].issue = "conflict"
        PROVE \E z \in Ext \ {y} : Declares[y] \cap Declares[z] # {} /\ R[z].enabled
      BY <2>1 DEF SoloRival
    <3>1. rec[y].issue = "conflict"
      BY <1>6, <1>7
    <3>2. PICK z \in Ext \ {y} : Declares[y] \cap Declares[z] # {} /\ rec[z].enabled
      BY <1>3, <1>14, <3>1 DEF SoloRival
    <3> QED
      BY <3>2, <1>6
  <2>5. \A y \in Ext : R[y].state \in Active <=> R[y].state = "READY"
    BY <1>12 DEF RestsAt, Active, InTransit
  <2>6. SoloOrder(rec', order')
    <3>1. {y \in Ext : R[y].state \in Active} = {y \in Ext : R[y].state = "READY"}
      BY <2>5
    <3> QED
      BY <1>12, <2>1, <3>1 DEF RestsAt, SoloOrder
  <2>7. SoloOwners(rec', owner', adapters')
    <3>1. \A n \in Cap, y \in Ext : owner'[n] = y <=> n \in Declares[y] /\ R[y].state = "READY"
      BY <1>12 DEF RestsAt
    <3>2. \A n \in Connector : adapters'[n] # NoExt => adapters'[n] = owner'[n] /\ R[adapters'[n]].state = "READY"
      <4> TAKE n \in Connector
      <4> HAVE adapters'[n] # NoExt
      <4>1. adapters'[n] = owner'[n] /\ n \in Cap
        BY <1>2, <1>12 DEF RestsAt
      <4>2. owner'[n] \in Ext
        BY <2>1, <4>1
      <4> QED
        BY <3>1, <4>1, <4>2
    <3> QED
      BY <2>1, <2>5, <3>1, <3>2 DEF SoloOwners
  <2>8. SoloLive(k, rec', live', leaked')
    <3> SUFFICES ASSUME NEW y \in Ext
        PROVE live'[y] = leaked'[y] + 0 + (IF R[y].runtime THEN 1 ELSE 0)
      BY <1>5, <2>1 DEF SoloLive
    <3> QED
      BY <1>8
  <2>9. SoloFits(k, rec', owner', adapters', order', live', leaked')
    BY <2>2, <2>3, <2>4, <2>6, <2>7, <2>8 DEF SoloFits
  <2>10. /\ adapters' \in [Connector -> Ext \cup {NoExt}] /\ order' \in Seq(Ext)
         /\ rec' \in [Ext -> ExtRecord]
    BY <1>1, <1>2, <1>6, <1>9, <2>1
  <2> QED
    BY <1>2, <1>5, <1>8, <2>1, <2>9, <2>10, OnlyCallSteps
<1> QED
  BY <1>13, <1>14

\* A call begins: no other is under way.
LEMMA NoneUnderWay ==
    ASSUME ExtInv, ~Overlap, NEW c \in Client, CallBegins(c)
    PROVE  /\ c \in Caller /\ \A d \in Caller : call[d].pc = "idle"
           /\ extCalls' \in 0 .. MaxCalls
<1>1. extCalls \in 0 .. MaxCalls /\ MaxCalls \in Nat
  BY ExtTypes DEF ExtInv
<1> QED
  BY <1>1 DEF CallBegins, Caller

\* The registry at rest.
LEMMA AllAtRest ==
    ASSUME ExtInv, \A d \in Caller : call[d].pc = "idle"
    PROVE  RestsAt(rec, owner, adapters, order, live, leaked)
<1>1. Boot \in Caller
  BY DEF Caller
<1>2. SoloFits(call[Boot], rec, owner, adapters, order, live, leaked)
  BY <1>1, SoloNow
<1>3. /\ SoloTransit(call[Boot], rec) /\ SoloOrder(rec, order) /\ SoloOwners(rec, owner, adapters)
      /\ SoloLive(call[Boot], rec, live, leaked) /\ call[Boot].pc = "idle"
  BY <1>1, <1>2 DEF SoloFits
<1>4. live \in [Ext -> Nat] /\ leaked \in [Ext -> Nat]
  BY ExtTypes DEF ExtInv
<1>5. \A x \in Ext : rec[x].state \notin InTransit /\ (rec[x].state \in Active <=> rec[x].state = "READY")
  BY <1>3 DEF SoloTransit, InTransit, Active
<1>6. \A x \in Ext :
        /\ rec[x].state = "READY" => rec[x].issue # "conflict" /\ rec[x].enabled
        /\ rec[x].runtime <=> rec[x].state = "READY"
  BY <1>3, <1>5 DEF SoloTransit
<1>7. \A x \in Ext : live[x] = leaked[x] + (IF rec[x].runtime THEN 1 ELSE 0)
  <2> TAKE x \in Ext
  <2>1. live[x] = leaked[x] + 0 + (IF rec[x].runtime THEN 1 ELSE 0)
    BY <1>3 DEF SoloLive
  <2> QED
    BY <1>4, <2>1
<1>8. {x \in Ext : rec[x].state \in Active} = {x \in Ext : rec[x].state = "READY"}
  BY <1>5
<1> QED
  BY <1>3, <1>5, <1>6, <1>7, <1>8 DEF RestsAt, SoloOrder, SoloOwners

\* enabled is assigned in a registry at rest, of an extension that is to be
\* enabled or is not active.
LEMMA EnabledAssigned ==
    ASSUME ExtInv, \A d \in Caller : call[d].pc = "idle", NEW x \in Ext, NEW b \in BOOLEAN,
           b \/ rec[x].state # "READY"
    PROVE  /\ [rec EXCEPT ![x].enabled = b] \in [Ext -> ExtRecord]
           /\ [rec EXCEPT ![x].enabled = b][x].enabled = b
           /\ [rec EXCEPT ![x].enabled = b][x].state = rec[x].state
           /\ RestsAt([rec EXCEPT ![x].enabled = b], owner, adapters, order, live, leaked)
<1> DEFINE R == [rec EXCEPT ![x].enabled = b]
<1>1. rec \in [Ext -> ExtRecord]
  BY ExtTypes DEF ExtInv
<1>2. /\ R \in [Ext -> ExtRecord] /\ R[x].enabled = b
      /\ \A y \in Ext : /\ R[y].state = rec[y].state /\ R[y].issue = rec[y].issue
                        /\ R[y].runtime = rec[y].runtime
                        /\ y # x => R[y].enabled = rec[y].enabled
  BY <1>1 DEF ExtRecord
<1>3. RestsAt(rec, owner, adapters, order, live, leaked)
  BY AllAtRest
<1> HIDE DEF R
<1>4. {y \in Ext : R[y].state = "READY"} = {y \in Ext : rec[y].state = "READY"}
  BY <1>2
<1>5. \A y \in Ext :
        /\ R[y].state \notin InTransit
        /\ R[y].state = "READY" => R[y].issue # "conflict" /\ R[y].enabled
        /\ R[y].runtime <=> R[y].state = "READY"
        /\ live[y] = leaked[y] + (IF R[y].runtime THEN 1 ELSE 0)
  BY <1>2, <1>3 DEF RestsAt
<1>6. \A n \in Cap, y \in Ext : owner[n] = y <=> n \in Declares[y] /\ R[y].state = "READY"
  BY <1>2, <1>3 DEF RestsAt
<1>7. RestsAt(R, owner, adapters, order, live, leaked)
  BY <1>3, <1>4, <1>5, <1>6 DEF RestsAt
<1> QED
  BY <1>2, <1>7 DEF R

-----------------------------------------------------------------------------
\* enable.
LEMMA EnableStep ==
    ASSUME ExtInv, ~Overlap, NEW c \in Client, NEW x \in Ext, Enable(c, x)
    PROVE  ExtInv'
<1> DEFINE R0 == [rec EXCEPT ![x].enabled = TRUE]
           R == Reconciled(R0, owner)
           ks == [NoCall EXCEPT !.op = "enable", !.ext = x, !.requested = TRUE, !.pc = "secret"]
           ki == [NoCall EXCEPT !.op = "enable", !.ext = x, !.requested = TRUE, !.pc = "import"]
<1>1. /\ CallBegins(c) /\ rec[x].state \notin InTransit
      /\ IF R[x].state \in {"READY", "BLOCKED"}
         THEN rec' = R /\ UNCHANGED call
         ELSE IF x \in Secretive
         THEN rec' = R /\ call' = [call EXCEPT ![c] = ks]
         ELSE rec' = [R EXCEPT ![x].state = "ACTIVATING"] /\ call' = [call EXCEPT ![c] = ki]
      /\ owner' = owner /\ order' = order /\ adapters' = adapters /\ live' = live
      /\ leaked' = leaked /\ timeouts' = timeouts
  BY DEF Enable
<1>2. c \in Caller /\ (\A d \in Caller : call[d].pc = "idle") /\ extCalls' \in 0 .. MaxCalls
  BY <1>1, NoneUnderWay
<1>3. /\ ExtTypeOK /\ call[c] \in CallRecord /\ call \in [Caller -> CallRecord] /\ NoExt \notin Ext
      /\ rec \in [Ext -> ExtRecord] /\ owner \in [Cap -> Ext \cup {NoExt}] /\ order \in Seq(Ext)
      /\ adapters \in [Connector -> Ext \cup {NoExt}] /\ Declares[x] \subseteq Cap
      /\ live \in [Ext -> Nat] /\ leaked \in [Ext -> Nat] /\ timeouts \in 0 .. MaxTimeouts
  BY <1>2, ExtTypes DEF ExtInv, Caller
<1>4. /\ R0 \in [Ext -> ExtRecord] /\ R0[x].enabled /\ R0[x].state = rec[x].state
      /\ RestsAt(R0, owner, adapters, order, live, leaked)
  BY <1>2, EnabledAssigned
<1>5. /\ ks \in CallRecord /\ ks.pc = "secret" /\ ks.ext = x /\ ki \in CallRecord /\ ki.pc = "import" /\ ki.ext = x
  BY DEF NoCall, CallRecord
<1> HIDE DEF R0, ks, ki
\* The records as they begin anew, with the registry still at rest.
<1>6. /\ R \in [Ext -> ExtRecord]
      /\ SoloFits(call[c], R, owner, adapters, order, live, leaked)
  BY <1>2, <1>3, <1>4, RecordsBeginAnew
<1>7. /\ R[x].enabled /\ R[x].runtime = R0[x].runtime
      /\ R[x].state \in {"DISCOVERED", "DISABLED"} =>
           R[x].state = "DISCOVERED" /\ \A n \in Declares[x] : owner[n] \in {NoExt, x}
      /\ R0[x].state # "READY" => R[x].state \in {"DISCOVERED", "BLOCKED", "DISABLED"}
      /\ R0[x].state = "READY" => R[x].state = "READY"
  <2>1. /\ \A y \in Ext : R0[y].state \notin InTransit
        /\ \A y \in Ext : R0[y].state = "READY" => R0[y].issue # "conflict"
        /\ \A n \in Cap, y \in Ext : owner[n] = y => n \in Declares[y] /\ R0[y].state = "READY" /\ R0[y].enabled
    BY <1>4 DEF RestsAt
  <2>2. /\ R[x].enabled = R0[x].enabled /\ R[x].runtime = R0[x].runtime
        /\ R0[x].state = "READY" => R[x] = R0[x]
        /\ R0[x].state # "READY" => R[x].state \in {"DISCOVERED", "BLOCKED", "DISABLED"}
        /\ R[x].state \in {"DISCOVERED", "DISABLED"} /\ R0[x].enabled =>
              R[x].state = "DISCOVERED" /\ \A n \in Declares[x] : owner[n] \in {NoExt, x}
    <3>1. R0 \in [Ext -> ExtRecord] /\ owner \in [Cap -> Ext \cup {NoExt}]
      BY <1>3, <1>4
    <3> QED
      BY <2>1, <3>1, ReconciledRecords
  <2> QED
    BY <1>4, <2>2
<1> HIDE DEF R
<1>8. /\ SoloTransit(call[c], R) /\ SoloRival(call[c], R) /\ SoloOrder(R, order)
      /\ SoloOwners(R, owner, adapters) /\ SoloLive(call[c], R, live, leaked)
  BY <1>6 DEF SoloFits
<1>9. /\ owner' \in [Cap -> Ext \cup {NoExt}] /\ adapters' \in [Connector -> Ext \cup {NoExt}]
      /\ order' \in Seq(Ext) /\ live' \in [Ext -> Nat] /\ leaked' \in [Ext -> Nat]
      /\ timeouts' \in 0 .. MaxTimeouts
  BY <1>1, <1>3
<1>10. CASE R[x].state \in {"READY", "BLOCKED"}
  <2>1. rec' = R /\ call' = [call EXCEPT ![c] = call[c]]
    BY <1>1, <1>2, <1>3, <1>10
  <2>2. SoloFits(call[c], rec', owner', adapters', order', live', leaked')
    BY <1>1, <1>6, <2>1
  <2> QED
    BY <1>2, <1>3, <1>6, <1>9, <2>1, <2>2, OnlyCallSteps
<1>11. CASE R[x].state \notin {"READY", "BLOCKED"}
  <2>1. R[x].state = "DISCOVERED" /\ \A n \in Declares[x] : owner[n] \in {NoExt, x}
    BY <1>7, <1>11
  <2>2. \A n \in Declares[x] : owner[n] = NoExt
    BY <1>3, <1>8, <2>1 DEF SoloOwners, Active
  <2>3. ~R[x].runtime /\ R[x].issue # "conflict"
    BY <1>8, <2>1 DEF SoloTransit, Active
  <2>4. CASE x \in Secretive
    <3>1. rec' = R /\ call' = [call EXCEPT ![c] = ks]
      BY <1>1, <1>11, <2>4
    <3>2. SoloCall(ks, R, owner)
      BY <1>5, <1>7, <2>2 DEF SoloCall, Going
    <3>3. SoloTransit(ks, R) /\ SoloRival(ks, R) /\ SoloLive(ks, R, live, leaked)
      BY <1>2, <1>5, <1>8, <2>1 DEF SoloTransit, SoloRival, SoloLive
    <3>4. SoloFits(ks, rec', owner', adapters', order', live', leaked')
      BY <1>1, <1>8, <3>1, <3>2, <3>3 DEF SoloFits
    <3> QED
      BY <1>2, <1>5, <1>6, <1>9, <3>1, <3>4, OnlyCallSteps
  <2>5. CASE x \notin Secretive
    <3> DEFINE r == [R[x] EXCEPT !.state = "ACTIVATING"]
               Q == [R EXCEPT ![x].state = "ACTIVATING"]
    <3>1. rec' = Q /\ call' = [call EXCEPT ![c] = ki]
      BY <1>1, <1>11, <2>5
    <3>2. /\ Q \in [Ext -> ExtRecord] /\ (\A y \in Ext \ {x} : Q[y] = R[y])
          /\ Q[x].state = "ACTIVATING" /\ Q[x].enabled /\ ~Q[x].runtime /\ Q[x].issue # "conflict"
      <4>1. /\ r \in ExtRecord /\ r.state = "ACTIVATING" /\ r.enabled = R[x].enabled
            /\ r.runtime = R[x].runtime /\ r.issue = R[x].issue
        BY <1>6 DEF ExtRecord, InTransit
      <4>2. Q = [R EXCEPT ![x] = r]
        BY <1>6
      <4> HIDE DEF r, Q
      <4> QED
        BY <1>6, <1>7, <2>3, <4>1, <4>2
    <3> HIDE DEF r, Q
    <3>3. SoloCall(ki, Q, owner)
      BY <1>5, <2>2, <3>2 DEF SoloCall, Going
    <3>4. SoloTransit(ki, Q)
      <4> SUFFICES ASSUME NEW y \in Ext
          PROVE /\ Q[y].state = "ACTIVATING" <=> y = x
                /\ Q[y].state # "DEACTIVATING"
                /\ Q[y].state \in {"READY", "ACTIVATING"} => Q[y].enabled
                /\ Q[y].state # "BLOCKED" => Q[y].issue # "conflict"
                /\ Q[y].runtime <=> Q[y].state \in Active
        BY <1>5 DEF SoloTransit
      <4>1. CASE y = x
        BY <3>2, <4>1 DEF Active
      <4>2. CASE y # x
        BY <1>2, <1>8, <3>2, <4>2 DEF SoloTransit
      <4> QED
        BY <4>1, <4>2
    <3>5. SoloRival(ki, Q)
      <4> SUFFICES ASSUME NEW y \in Ext, Q[y].issue = "conflict"
          PROVE \E z \in Ext \ {y} : Declares[y] \cap Declares[z] # {} /\ Q[z].enabled
        BY DEF SoloRival
      <4>1. R[y].issue = "conflict"
        BY <3>2
      <4>2. PICK z \in Ext \ {y} : Declares[y] \cap Declares[z] # {} /\ R[z].enabled
        BY <1>2, <1>8, <4>1 DEF SoloRival
      <4> QED
        BY <3>2, <4>2
    <3>6. \A y \in Ext : (Q[y].state \in Active <=> R[y].state \in Active) /\ (Q[y].runtime <=> R[y].runtime)
      BY <2>1, <2>3, <3>2 DEF Active
    <3>7. SoloOrder(Q, order)
      <4>1. {y \in Ext : Q[y].state \in Active} = {y \in Ext : R[y].state \in Active}
        BY <3>6
      <4> QED
        BY <1>8, <4>1 DEF SoloOrder
    <3>8. SoloOwners(Q, owner, adapters)
      <4>1. \A n \in Connector : adapters[n] # NoExt => adapters[n] = owner[n] /\ Q[adapters[n]].state = "READY"
        <5> TAKE n \in Connector
        <5> HAVE adapters[n] # NoExt
        <5>1. adapters[n] = owner[n] /\ R[adapters[n]].state = "READY" /\ adapters[n] \in Ext
          BY <1>3, <1>8 DEF SoloOwners
        <5> QED
          BY <2>1, <3>2, <5>1
      <4> QED
        BY <1>8, <3>6, <4>1 DEF SoloOwners
    <3>9. SoloLive(ki, Q, live, leaked)
      BY <1>2, <1>5, <1>8, <3>6 DEF SoloLive
    <3>10. SoloFits(ki, rec', owner', adapters', order', live', leaked')
      BY <1>1, <3>1, <3>3, <3>4, <3>5, <3>7, <3>8, <3>9 DEF SoloFits
    <3>11. rec' \in [Ext -> ExtRecord]
      BY <3>1, <3>2
    <3> QED
      BY <1>2, <1>5, <1>9, <3>1, <3>10, <3>11, OnlyCallSteps
  <2> QED
    BY <2>4, <2>5
<1> QED
  BY <1>10, <1>11

\* disable.
LEMMA DisableStep ==
    ASSUME ExtInv, ~Overlap, NEW c \in Client, NEW x \in Ext, Disable(c, x)
    PROVE  ExtInv'
<1> DEFINE R0 == [rec EXCEPT ![x].enabled = FALSE]
           kd == [NoCall EXCEPT !.op = "disable", !.ext = x, !.pc = "deactivate", !.todo = Ext]
           kn == [NoCall EXCEPT !.op = "disable", !.pc = "next", !.todo = Ext]
           Q == Deactivating(x, R0)
           r == [rec[x] EXCEPT !.enabled = FALSE, !.state = "DEACTIVATING"]
<1>1. /\ CallBegins(c) /\ rec[x].state \notin InTransit
      /\ IF rec[x].state = "READY"
         THEN rec' = Q /\ adapters' = Unregistered(x) /\ call' = [call EXCEPT ![c] = kd]
         ELSE rec' = Reconciled(R0, owner) /\ call' = [call EXCEPT ![c] = kn] /\ adapters' = adapters
      /\ owner' = owner /\ order' = order /\ live' = live /\ leaked' = leaked /\ timeouts' = timeouts
  BY DEF Disable
<1>2. c \in Caller /\ (\A d \in Caller : call[d].pc = "idle") /\ extCalls' \in 0 .. MaxCalls
  BY <1>1, NoneUnderWay
<1>3. /\ ExtTypeOK /\ NoExt \notin Ext
      /\ rec \in [Ext -> ExtRecord] /\ owner \in [Cap -> Ext \cup {NoExt}] /\ order \in Seq(Ext)
      /\ adapters \in [Connector -> Ext \cup {NoExt}]
      /\ live \in [Ext -> Nat] /\ leaked \in [Ext -> Nat] /\ timeouts \in 0 .. MaxTimeouts
  BY ExtTypes DEF ExtInv
<1>4. /\ kd \in CallRecord /\ kd.pc = "deactivate" /\ kd.ext = x /\ kd.op = "disable"
      /\ kn \in CallRecord /\ kn.pc = "next"
  BY DEF NoCall, CallRecord
<1>5. /\ owner' \in [Cap -> Ext \cup {NoExt}] /\ adapters' \in [Connector -> Ext \cup {NoExt}]
      /\ order' \in Seq(Ext) /\ live' \in [Ext -> Nat] /\ leaked' \in [Ext -> Nat]
      /\ timeouts' \in 0 .. MaxTimeouts
  BY <1>1, <1>3 DEF Unregistered
<1>6. CASE rec[x].state # "READY"
  <2>1. R0 \in [Ext -> ExtRecord] /\ RestsAt(R0, owner, adapters, order, live, leaked)
    BY <1>2, <1>6, EnabledAssigned
  <2> HIDE DEF R0, kn, kd, Q
  <2>2. /\ rec' = Reconciled(R0, owner) /\ call' = [call EXCEPT ![c] = kn] /\ adapters' = adapters
    BY <1>1, <1>6
  <2>3. /\ rec' \in [Ext -> ExtRecord]
        /\ SoloFits(kn, rec', owner, adapters, order, live, leaked)
    BY <1>3, <1>4, <2>1, <2>2, RecordsBeginAnew
  <2>4. SoloFits(kn, rec', owner', adapters', order', live', leaked')
    BY <1>1, <2>2, <2>3
  <2> QED
    BY <1>2, <1>4, <1>5, <2>2, <2>3, <2>4, OnlyCallSteps
<1>7. CASE rec[x].state = "READY"
  <2>1. /\ rec' = Q /\ call' = [call EXCEPT ![c] = kd]
        /\ \A n \in Connector : adapters'[n] # NoExt => adapters'[n] = adapters[n] /\ adapters[n] # x
    BY <1>1, <1>7 DEF Unregistered
  <2>2. SoloFits(call[c], rec, owner, adapters, order, live, leaked)
    BY <1>2, SoloNow
  <2>3. /\ SoloTransit(call[c], rec) /\ SoloRival(call[c], rec) /\ SoloOrder(rec, order)
        /\ SoloOwners(rec, owner, adapters) /\ SoloLive(call[c], rec, live, leaked)
    BY <2>2 DEF SoloFits
  <2>4. rec[x].runtime /\ rec[x].issue # "conflict"
    BY <1>7, <2>3 DEF SoloTransit, Active
  <2>5. /\ Q \in [Ext -> ExtRecord] /\ (\A y \in Ext \ {x} : Q[y] = rec[y])
        /\ Q[x].state = "DEACTIVATING" /\ Q[x].runtime /\ Q[x].issue # "conflict"
    <3>1. /\ r \in ExtRecord /\ r.state = "DEACTIVATING" /\ r.runtime = rec[x].runtime /\ r.issue = rec[x].issue
      BY <1>3 DEF ExtRecord, InTransit
    <3>2. Q = [rec EXCEPT ![x] = r]
      BY <1>3 DEF Deactivating
    <3> HIDE DEF r, Q
    <3> QED
      BY <1>3, <2>4, <3>1, <3>2
  <2> HIDE DEF R0, kn, kd, Q, r
  <2>6. SoloCall(kd, Q, owner)
    BY <1>4 DEF SoloCall, Going
  <2>7. SoloTransit(kd, Q)
    <3> SUFFICES ASSUME NEW y \in Ext
        PROVE /\ Q[y].state # "ACTIVATING"
              /\ Q[y].state = "DEACTIVATING" <=> y = x
              /\ Q[y].state = "READY" => Q[y].enabled
              /\ Q[y].state # "BLOCKED" => Q[y].issue # "conflict"
              /\ Q[y].runtime <=> Q[y].state \in Active
      BY <1>4 DEF SoloTransit
    <3>1. CASE y = x
      BY <2>5, <3>1 DEF Active
    <3>2. CASE y # x
      BY <1>2, <2>3, <2>5, <3>2 DEF SoloTransit
    <3> QED
      BY <3>1, <3>2
  <2>8. SoloRival(kd, Q)
    <3> SUFFICES ASSUME NEW y \in Ext, Q[y].issue = "conflict"
        PROVE \E z \in Ext \ {y} : Declares[y] \cap Declares[z] # {} /\ (Q[z].enabled \/ z = x)
      BY <1>4 DEF SoloRival
    <3>1. rec[y].issue = "conflict"
      BY <2>5
    <3>2. PICK z \in Ext \ {y} : Declares[y] \cap Declares[z] # {} /\ rec[z].enabled
      BY <1>2, <2>3, <3>1 DEF SoloRival
    <3> QED
      BY <2>5, <3>2
  <2>9. \A y \in Ext : (Q[y].state \in Active <=> rec[y].state \in Active) /\ (Q[y].runtime <=> rec[y].runtime)
    BY <1>7, <2>4, <2>5 DEF Active
  <2>10. SoloOrder(Q, order)
    <3>1. {y \in Ext : Q[y].state \in Active} = {y \in Ext : rec[y].state \in Active}
      BY <2>9
    <3> QED
      BY <2>3, <3>1 DEF SoloOrder
  <2>11. SoloOwners(Q, owner, adapters')
    <3>1. \A n \in Connector : adapters'[n] # NoExt => adapters'[n] = owner[n] /\ Q[adapters'[n]].state = "READY"
      <4> TAKE n \in Connector
      <4> HAVE adapters'[n] # NoExt
      <4>1. /\ adapters'[n] = adapters[n] /\ adapters[n] \in Ext \ {x}
            /\ adapters[n] = owner[n] /\ rec[adapters[n]].state = "READY"
        BY <1>3, <2>1, <2>3 DEF SoloOwners
      <4> QED
        BY <2>5, <4>1
    <3>2. \A n \in Cap, y \in Ext : owner[n] = y <=> n \in Declares[y] /\ Q[y].state \in Active
      BY <2>3, <2>9 DEF SoloOwners
    <3> QED
      BY <3>1, <3>2 DEF SoloOwners
  <2>12. SoloLive(kd, Q, live, leaked)
    BY <1>2, <1>4, <2>3, <2>9 DEF SoloLive
  <2>13. SoloFits(kd, rec', owner', adapters', order', live', leaked')
    BY <1>1, <2>1, <2>6, <2>7, <2>8, <2>10, <2>11, <2>12 DEF SoloFits
  <2>14. rec' \in [Ext -> ExtRecord]
    BY <2>1, <2>5
  <2> QED
    BY <1>2, <1>4, <1>5, <2>1, <2>13, <2>14, OnlyCallSteps
<1> QED
  BY <1>6, <1>7

\* close.
LEMMA CloseRegistryStep ==
    ASSUME ExtInv, ~Overlap, NEW c \in Client, CloseRegistry(c)
    PROVE  ExtInv'
<1> DEFINE k == [NoCall EXCEPT !.op = "close", !.pc = "next"]
<1>1. c \in Caller /\ (\A d \in Caller : call[d].pc = "idle") /\ extCalls' \in 0 .. MaxCalls
  BY NoneUnderWay DEF CloseRegistry
<1>2. /\ call' = [call EXCEPT ![c] = k] /\ UNCHANGED <<extRow, live, leaked, timeouts>>
  BY DEF CloseRegistry
<1>3. k \in CallRecord /\ k.pc = "next"
  BY DEF NoCall, CallRecord
<1> HIDE DEF k
<1> QED
  BY <1>1, <1>2, <1>3, CallMoves

-----------------------------------------------------------------------------
\* What the registry promises is what the invariant says.
LEMMA ExtensionsHold ==
    ASSUME ExtInv
    PROVE  ExtensionsAgree
<1>1. ExtTypeOK /\ NoExt \notin Ext /\ order \in Seq(Ext) /\ live \in [Ext -> Nat] /\ leaked \in [Ext -> Nat]
  BY ExtTypes DEF ExtInv
<1>2. OneOwner
  <2>1. ASSUME NEW n \in Cap, NEW x \in Ext, NEW y \in Ext,
               rec[x].state = "READY", rec[y].state = "READY", n \in Declares[x] \cap Declares[y]
        PROVE  x = y
    <3>1. owner[n] = x /\ owner[n] = y
      BY <2>1 DEF ExtInv, OwnersFit, Active
    <3> QED
      BY <3>1
  <2> QED
    BY <2>1 DEF ExtInv, OwnersFit, OneOwner, Active
<1>3. RuntimesAccounted
  <2> SUFFICES ASSUME NEW x \in Ext
      PROVE /\ rec[x].runtime <=> rec[x].state \in {"READY", "DEACTIVATING"}
            /\ live[x] - leaked[x] =
                 Cardinality({c \in Client \cup {Boot} : call[c].pc = "cleanup" /\ call[c].ext = x})
                 + IF rec[x].runtime THEN 1 ELSE 0
    BY DEF RuntimesAccounted
  <2> DEFINE W == {c \in Client \cup {Boot} : call[c].pc = "cleanup" /\ call[c].ext = x}
  <2>1. Cardinality(W) = IF \E c \in Caller : call[c].pc = "cleanup" /\ call[c].ext = x THEN 1 ELSE 0
    <3>1. CASE \E c \in Caller : call[c].pc = "cleanup" /\ call[c].ext = x
      <4>1. PICK c \in Caller : call[c].pc = "cleanup" /\ call[c].ext = x
        BY <3>1
      <4>2. \A d \in Caller : call[d].pc = "cleanup" => d = c
        BY <4>1 DEF ExtInv, OneCall
      <4>3. W = {c}
        BY <4>1, <4>2 DEF Caller
      <4>4. Cardinality({c}) = 1
        BY FS_Singleton
      <4> QED
        BY <3>1, <4>3, <4>4
    <3>2. CASE ~\E c \in Caller : call[c].pc = "cleanup" /\ call[c].ext = x
      <4>1. W = {}
        BY <3>2 DEF Caller
      <4>2. Cardinality({}) = 0
        BY FS_EmptySet
      <4> QED
        BY <3>2, <4>1, <4>2
    <3> QED
      BY <3>1, <3>2
  <2> HIDE DEF W
  <2>2. live[x] = leaked[x] + Cardinality(W) + (IF rec[x].runtime THEN 1 ELSE 0)
    BY <2>1 DEF ExtInv, LiveFits
  <2>3. Cardinality(W) \in {0, 1}
    BY <2>1
  <2>4. live[x] - leaked[x] = Cardinality(W) + IF rec[x].runtime THEN 1 ELSE 0
    BY <1>1, <2>2, <2>3
  <2>5. rec[x].runtime <=> rec[x].state \in {"READY", "DEACTIVATING"}
    BY DEF ExtInv, TransitFits, Active
  <2> QED
    BY <2>4, <2>5 DEF W
<1>4. BlockedHasRival
  BY DEF BlockedHasRival, RegistryRests, ExtInv, RivalFits, Caller
<1>5. OrderIsActive
  <2> SUFFICES ASSUME RegistryRests
      PROVE /\ \A x \in Ext : rec[x].state = "READY" => rec[x].enabled
            /\ {order[i] : i \in DOMAIN order} = {x \in Ext : rec[x].state = "READY"}
            /\ Len(order) = Cardinality({x \in Ext : rec[x].state = "READY"})
    BY DEF OrderIsActive
  <2> DEFINE A == {x \in Ext : rec[x].state = "READY"}
  <2>1. RestsAt(rec, owner, adapters, order, live, leaked)
    BY AllAtRest DEF RegistryRests, Caller
  <2>2. /\ \A x \in Ext : rec[x].state = "READY" => rec[x].enabled
        /\ {order[i] : i \in DOMAIN order} = A
        /\ \A i, j \in DOMAIN order : order[i] = order[j] => i = j
    BY <2>1 DEF RestsAt
  <2>3. Len(order) \in Nat /\ DOMAIN order = 1 .. Len(order) /\ order = [i \in 1 .. Len(order) |-> order[i]]
    BY <1>1
  <2> HIDE DEF A
  <2>4. order \in Bijection(1 .. Len(order), A)
    <3>1. order \in [1 .. Len(order) -> A]
      BY <2>2, <2>3
    <3>2. \A y \in A : \E i \in 1 .. Len(order) : order[i] = y
      BY <2>2, <2>3
    <3> QED
      BY <2>2, <2>3, <3>1, <3>2 DEF Bijection, Injection, Surjection, IsInjective
  <2>5. ExistsBijection(1 .. Len(order), A)
    BY <2>4 DEF ExistsBijection
  <2>6. Cardinality(A) = Len(order)
    BY <2>3, <2>5, FS_CountingElements
  <2> QED
    BY <2>2, <2>6 DEF A
<1> QED
  BY <1>1, <1>2, <1>3, <1>4, <1>5 DEF ExtensionsAgree

LEMMA ExtStutters ==
    ASSUME ExtInv, UNCHANGED extVars
    PROVE  ExtInv'
<1>1. /\ rec' = rec /\ owner' = owner /\ order' = order /\ adapters' = adapters /\ live' = live
      /\ leaked' = leaked /\ call' = call /\ extCalls' = extCalls /\ timeouts' = timeouts
  BY DEF extVars, extRow
<1>2. ExtTypeOK' /\ OneCall' /\ CallFits'
  BY <1>1 DEF ExtInv, ExtTypeOK, OneCall, CallFits, Caller
<1>3. TransitFits' /\ RivalFits'
  BY <1>1 DEF ExtInv, TransitFits, RivalFits, Caller
<1>4. OrderFits' /\ OwnersFit'
  BY <1>1 DEF ExtInv, OrderFits, OwnersFit
<1>5. LiveFits'
  BY <1>1 DEF ExtInv, LiveFits, Caller
<1> QED
  BY <1>2, <1>3, <1>4, <1>5 DEF ExtInv

\* A registry whose calls do not overlap, for any extensions, capabilities,
\* clients, calls and time-outs: every capability has one owner, every runtime
\* is that of a record, is being taken back or was given up after a time-out,
\* what is blocked has an enabled rival, and the order of activation lists every
\* active extension once (extension-runtime.ts).
THEOREM ExtensionsCorrect ==
    ASSUME ~Overlap
    PROVE  ExtSpec => []ExtensionsAgree
<1>1. ExtInit => ExtInv
  BY InitExtensions
<1>2. ExtInv /\ [ExtNext]_extVars => ExtInv'
  <2> SUFFICES ASSUME ExtInv, [ExtNext]_extVars PROVE ExtInv'
    OBVIOUS
  <2>1. CASE \E c \in Client : (\E x \in Ext : Enable(c, x) \/ Disable(c, x)) \/ CloseRegistry(c)
    BY <2>1, EnableStep, DisableStep, CloseRegistryStep
  <2>2. ASSUME NEW c \in Caller, ExtStep(c) PROVE ExtInv'
    BY <2>2, ActivateNextStep, CloseNextStep, ActivatedStep, ClaimMissingStep, ActivationEndsStep,
       SecretStep, DeactivatedStep DEF ExtStep
  <2>3. CASE UNCHANGED extVars
    BY <2>3, ExtStutters
  <2> QED
    BY <2>1, <2>2, <2>3 DEF ExtNext, Caller
<1> QED
  BY <1>1, <1>2, ExtensionsHold, PTL DEF ExtSpec

=============================================================================
