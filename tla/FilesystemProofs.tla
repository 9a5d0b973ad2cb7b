-------------------------- MODULE FilesystemProofs --------------------------
(***************************************************************************)
(* Proofs about Filesystem for any processes, directions and numbers of    *)
(* bytes, and any interleaving of the processes with the samples.          *)
(***************************************************************************)
EXTENDS Filesystem, SamplingProofs, FoldProofs

-----------------------------------------------------------------------------
(* Type correctness.                                                       *)

LEMMA EachIsTyped ==
  /\ Each(None) \in [Procs -> Reading]
  /\ Each(0) \in [Procs -> Reading] /\ Each(0) \in [Procs -> Amount]
  BY FilesystemAssumption DEF Each, Reading, Amount

LEMMA ObserveIoIsTyped ==
  ASSUME TypeOK, NEW p \in Procs, ObserveIo(p)
  PROVE  /\ observed_pids' \subseteq Procs
         /\ initial_io' \in [Procs -> Reading] /\ latest_io' \in [Procs -> Reading]
         /\ missing' \in [Directions -> SUBSET observed_pids']
<1>1. /\ readIo[p] \in Reading /\ initial_io[p] \in Reading /\ latest_io[p] \in Reading
      /\ initial_io \in [Procs -> Reading] /\ latest_io \in [Procs -> Reading]
      /\ missing \in [Directions -> SUBSET observed_pids] /\ observed_pids \subseteq Procs
  BY DEF TypeOK
<1>2. [d \in Directions |-> IF p \notin MissingAfter(p)[d] /\ initial_io[p][d] = None
                            THEN readIo[p][d] ELSE initial_io[p][d]] \in Reading
  BY <1>1 DEF Reading
<1>3. [d \in Directions |-> IF d \in Unread(p) THEN latest_io[p][d] ELSE readIo[p][d]]
        \in Reading
  BY <1>1 DEF Reading
<1> QED BY <1>1, <1>2, <1>3 DEF ObserveIo, InitialAfter, LatestAfter, MissingAfter

LEMMA TypeStep == TypeOK /\ [Next]_vars => TypeOK'
<1> SUFFICES ASSUME TypeOK, [Next]_vars PROVE TypeOK'
  OBVIOUS
<1> USE EachIsTyped DEF outside, counters, accesses, history
<1>1. SamplingTypeOK /\ current \in Procs
  BY DEF TypeOK, SamplingTypeOK
<1>2. io \in [Procs -> Reading] /\ Amount \subseteq Reading
  BY DEF TypeOK, Amount, Reading
<1>3. CASE Processes
  BY <1>1, <1>3, KernelKeepsTypes DEF Processes, TypeOK
<1>4. ASSUME NEW p \in Procs, NEW d \in Directions, Transfer(p, d) PROVE TypeOK'
  <2>1. io[p][d] + 1 \in 0..MaxBytes
    BY <1>4, FilesystemAssumption DEF Transfer, TypeOK, Amount
  <2>2. io' = [io EXCEPT ![p] = [io[p] EXCEPT ![d] = io[p][d] + 1]]
    BY <1>4 DEF Transfer
  <2>3. [io[p] EXCEPT ![d] = io[p][d] + 1] \in Amount
    BY <2>1 DEF TypeOK, Amount
  <2>4. io' \in [Procs -> Amount]
    BY <2>2, <2>3 DEF TypeOK
  <2> QED BY <1>1, <1>4, <2>4, StandingKeepsTypes DEF Transfer, TypeOK
<1>5. ASSUME NEW p \in Procs, Shut(p) PROVE TypeOK'
  BY <1>1, <1>5, StandingKeepsTypes DEF Shut, TypeOK
<1>6. CASE BeginSnapshot
  BY <1>1, <1>6, SnapshotKeepsTypes DEF BeginSnapshot, TypeOK
<1>7. CASE ReadIo
  <2>1. readIo' \in [Procs -> Reading] /\ blind' \subseteq Procs
    BY <1>1, <1>2, <1>7 DEF ReadIo, TypeOK
  <2> QED BY <1>1, <1>7, <2>1, SnapshotKeepsTypes DEF ReadIo, TypeOK
<1>8. CASE BeginObserve
  BY <1>1, <1>8, ObserveKeepsTypes DEF BeginObserve, TypeOK
<1>9. CASE Leave
  BY <1>1, <1>9, ObserveKeepsTypes DEF Leave, TypeOK, is_limited
<1>10. CASE Wait
  BY <1>1, <1>10, ObserveKeepsTypes DEF Wait, TypeOK
<1>11. CASE Report
  BY <1>1, <1>11, ObserveKeepsTypes DEF Report, TypeOK
<1>12. ASSUME NEW p \in Procs, ReadState(p) PROVE TypeOK'
  BY <1>1, <1>12, SnapshotKeepsTypes DEF ReadState, TypeOK
<1>13. ASSUME NEW p \in Procs, Observe(p) PROVE TypeOK'
  <2>1. SamplingTypeOK'
    BY <1>1, <1>13, ObserveKeepsTypes DEF Observe
  <2>2. paths' \subseteq Kinds /\ paths_limited' \in BOOLEAN
    BY <1>13, FilesystemAssumption
       DEF Observe, ObservePaths, OpenFiles, Listing, TypeOK
  <2>3. {atList', opening', baseline', closing'} \subseteq [Procs -> Amount]
    BY <1>13 DEF Observe, First, TypeOK
  <2> QED BY <1>13, <2>1, <2>2, <2>3, ObserveIoIsTyped DEF Observe, TypeOK
<1>14. CASE UNCHANGED vars
  BY <1>1, <1>14, StandingKeepsTypes DEF vars, TypeOK
<1> QED
  BY <1>3, <1>4, <1>5, <1>6, <1>7, <1>8, <1>9, <1>10, <1>11, <1>12, <1>13, <1>14
     DEF Next, RunLens

LEMMA TypeInvariant == Spec => []TypeOK
<1>1. Init => TypeOK
  BY EachIsTyped, SamplingStarts DEF Init, TypeOK
<1> QED BY <1>1, TypeStep, PTL DEF Spec

(* Every value stays of its type: readings and their windows are those of  *)
(* real counters or None, and only observed processes lack a first one.    *)
THEOREM TypeCorrect == Spec => []TypeOK
  BY TypeInvariant, PTL

-----------------------------------------------------------------------------
(* Labels.  Who could not be read at the reading of counters cannot be read*)
(* at the visit either, unless it has become readable in between.          *)

BlindInv ==
  /\ \A p \in Found \cup blind : state[p] # "unborn"
  /\ stage = "rest" => current \in Found
  /\ \A p \in blind : ~Readable(p)

LabelInv ==
  stage = "files" /\ (current_tree \cap Alive \cap blind) \ todo # {} => paths_limited

LEMMA BlindStep == TypeOK /\ BlindInv /\ [Next]_vars => BlindInv'
<1> SUFFICES ASSUME TypeOK, BlindInv, [Next]_vars PROVE BlindInv'
  OBVIOUS
<1> USE DEF BlindInv, Found, Readable, InTable, outside, counters, accesses, history,
            kernel, snapshot, samplingVars
<1>1. CASE Processes
  <2>1. PICK p \in Procs : Start(p) \/ Orphan(p) \/ Exit(p) \/ Reap(p)
    BY <1>1 DEF Processes, Kernel
  <2>2. UNCHANGED <<stage, current, processes, shut, blind>>
    BY <1>1 DEF Processes, Kernel
  <2>3. state \in [Procs -> {"unborn", "R", "Z", "gone"}] /\ blind \subseteq Procs
    BY DEF TypeOK, SamplingTypeOK
  <2> QED BY <2>1, <2>2, <2>3 DEF Start, Orphan, Exit, Reap
<1>2. ASSUME NEW p \in Procs, NEW d \in Directions, Transfer(p, d) PROVE BlindInv'
  BY <1>2 DEF Transfer
<1>3. ASSUME NEW p \in Procs, Shut(p) PROVE BlindInv'
  BY <1>3 DEF Shut, TypeOK
<1>4. CASE BeginSnapshot
  BY <1>4 DEF BeginSnapshot, List, NotRead
<1>5. CASE ReadIo
  BY <1>5 DEF ReadIo, ReadRest, AfterEntry
<1>6. CASE BeginObserve \/ Report
  BY <1>6 DEF BeginObserve, Walk, Report, Render
<1>7. CASE Leave
  BY <1>7 DEF Leave, EndObserve, NotRead
<1>8. CASE Wait
  <2>1. /\ UNCHANGED <<processes, blind, shut>> /\ stage' = "list"
        /\ state' = state \/ (state[Root] = "Z" /\ state' = [state EXCEPT ![Root] = "gone"])
    BY <1>8 DEF Wait, TryWait
  <2> QED BY <2>1 DEF TypeOK, SamplingTypeOK
<1>9. ASSUME NEW p \in Procs, ReadState(p) PROVE BlindInv'
  <2>1. CASE p \in InTable
    BY <1>9, <2>1 DEF ReadState, ReadStat, TypeOK, SamplingTypeOK
  <2>2. CASE p \notin InTable
    BY <1>9, <2>2 DEF ReadState, ReadStat, AfterEntry
  <2> QED BY <2>1, <2>2
<1>10. ASSUME NEW p \in Procs, Observe(p) PROVE BlindInv'
  BY <1>10 DEF Observe, Visit
<1>11. CASE UNCHANGED vars
  BY <1>11 DEF vars
<1> QED
  BY <1>1, <1>2, <1>3, <1>4, <1>5, <1>6, <1>7, <1>8, <1>9, <1>10, <1>11 DEF Next, RunLens

LEMMA LabelStep == TypeOK /\ BlindInv /\ LabelInv /\ [Next]_vars => LabelInv'
<1> SUFFICES ASSUME TypeOK, BlindInv, LabelInv, [Next]_vars, stage' = "files"
             PROVE  (current_tree \cap Alive \cap blind)' \subseteq todo' \/ paths_limited'
  BY DEF LabelInv
<1> USE DEF outside, counters, accesses, history, kernel, snapshot, samplingVars
<1>1. ASSUME stage = "files", UNCHANGED <<processes, todo, paths_limited>>, blind' \subseteq blind
      PROVE  (current_tree \cap Alive \cap blind)' \subseteq todo' \/ paths_limited'
  BY <1>1 DEF LabelInv, current_tree, Alive, Found, Reached
<1>2. CASE Processes
  BY <1>1, <1>2 DEF Processes, Kernel
<1>3. ASSUME NEW p \in Procs, Shut(p) \/ \E d \in Directions : Transfer(p, d)
      PROVE  (current_tree \cap Alive \cap blind)' \subseteq todo' \/ paths_limited'
  BY <1>1, <1>3 DEF Shut, Transfer
<1>4. CASE BeginObserve
  BY <1>4 DEF BeginObserve, Walk, current_tree, Alive, Found, Reached
<1>5. ASSUME NEW p \in Procs, Observe(p)
      PROVE  (current_tree \cap Alive \cap blind)' \subseteq todo' \/ paths_limited'
  <2>1. /\ stage = "files" /\ todo' = todo \ {p} /\ UNCHANGED <<processes, blind, state, shut>>
    BY <1>5 DEF Observe, Visit
  <2>2. /\ p \in Alive => ObservePaths(p)
        /\ p \notin Alive => UNCHANGED paths_limited
    BY <1>5 DEF Observe
  <2>3. paths_limited => paths_limited'
    BY <2>2 DEF ObservePaths, OpenFiles
  <2>4. p \in Alive \cap blind => paths_limited'
    BY <2>2 DEF ObservePaths, BlindInv
  <2> QED BY <2>1, <2>3, <2>4 DEF LabelInv, current_tree, Alive, Found, Reached
<1>6. CASE BeginSnapshot \/ ReadIo \/ Leave \/ Wait \/ Report \/ \E p \in Procs : ReadState(p)
  BY <1>6 DEF BeginSnapshot, List, ReadIo, ReadRest, AfterEntry, Leave, EndObserve, Wait,
              TryWait, Report, Render, ReadState, ReadStat
<1>7. CASE UNCHANGED vars
  BY <1>1, <1>7 DEF vars
<1> QED BY <1>2, <1>3, <1>4, <1>5, <1>6, <1>7 DEF Next, RunLens

(* A living process of the tree that could not be looked into, from the    *)
(* reading of its counters to its visit, is never passed over in silence.  *)
THEOREM LimitsAreLabelled == Spec => []UnreadableIsLabelled
<1>1. Init => BlindInv /\ LabelInv
  BY DEF Init, SamplingInit, BlindInv, LabelInv, Found, NotRead
<1>2. LabelInv => UnreadableIsLabelled
  BY DEF LabelInv, UnreadableIsLabelled, is_limited
<1> QED BY <1>1, <1>2, TypeInvariant, BlindStep, LabelStep, PTL DEF Spec

-----------------------------------------------------------------------------
(* Windows.  A reading lies between the listing of /proc and now, and not  *)
(* below the latest one before it: counters only grow.                     *)

Ordered(p, d) ==
  /\ atList[p][d] <= io[p][d]
  /\ readIo[p][d] # None => atList[p][d] <= readIo[p][d] /\ readIo[p][d] <= io[p][d]
  /\ latest_io[p][d] # None => latest_io[p][d] <= io[p][d]
  /\ latest_io[p][d] # None /\ readIo[p][d] # None => latest_io[p][d] <= readIo[p][d]

Enclosed(p, d) ==
  /\ p \notin observed_pids =>
       initial_io[p][d] = None /\ latest_io[p][d] = None /\ closing[p][d] = 0
  /\ p \in observed_pids \ missing[d] =>
       /\ initial_io[p][d] # None /\ latest_io[p][d] # None
       /\ opening[p][d] <= initial_io[p][d] /\ initial_io[p][d] <= baseline[p][d]
       /\ initial_io[p][d] <= latest_io[p][d] /\ closing[p][d] <= latest_io[p][d]

WindowInv == \A p \in Procs, d \in Directions : Ordered(p, d) /\ Enclosed(p, d)

LEMMA Amounts ==
  ASSUME TypeOK, NEW p \in Procs, NEW d \in Directions
  PROVE  /\ io[p][d] \in Nat /\ atList[p][d] \in Nat /\ opening[p][d] \in Nat
         /\ baseline[p][d] \in Nat /\ closing[p][d] \in Nat
         /\ readIo[p][d] # None => readIo[p][d] \in Nat
         /\ initial_io[p][d] # None => initial_io[p][d] \in Nat
         /\ latest_io[p][d] # None => latest_io[p][d] \in Nat
         /\ None \notin Int
<1>1. /\ io[p] \in Amount /\ atList[p] \in Amount /\ opening[p] \in Amount
      /\ baseline[p] \in Amount /\ closing[p] \in Amount
      /\ readIo[p] \in Reading /\ initial_io[p] \in Reading /\ latest_io[p] \in Reading
  BY DEF TypeOK
<1> QED BY <1>1, FilesystemAssumption DEF Amount, Reading

(* A visit: the reading of this snapshot becomes the latest one.           *)
LEMMA VisitEncloses ==
  ASSUME TypeOK, TypeOK', NEW p \in Procs, NEW d \in Directions,
         Ordered(p, d), Enclosed(p, d), Observe(p)
  PROVE  (Ordered(p, d) /\ Enclosed(p, d))'
<1> USE Amounts DEF outside
<1>1. /\ UNCHANGED <<io, readIo>> /\ observed_pids' = observed_pids \cup {p}
      /\ atList'[p][d] = 0
  BY DEF Observe, ObserveIo, Each, TypeOK
<1>2. /\ opening'[p] = IF p \in observed_pids THEN opening[p] ELSE atList[p]
      /\ baseline'[p] = IF p \in observed_pids THEN baseline[p] ELSE io[p]
      /\ closing'[p] = IF Unread(p) = {} THEN atList[p] ELSE closing[p]
  BY DEF Observe, First, TypeOK
<1>3. p \in missing'[d] <=> p \in missing[d] \/ (p \notin observed_pids /\ readIo[p][d] = None)
  BY DEF Observe, ObserveIo, MissingAfter, Unread
<1>4. /\ initial_io'[p][d] = IF p \notin missing'[d] /\ initial_io[p][d] = None
                             THEN readIo[p][d] ELSE initial_io[p][d]
      /\ latest_io'[p][d] = IF readIo[p][d] = None THEN latest_io[p][d] ELSE readIo[p][d]
  BY DEF Observe, ObserveIo, InitialAfter, LatestAfter, Unread, TypeOK
<1>5. Unread(p) = {} => readIo[p][d] # None
  BY DEF Unread
<1>6. p \notin observed_pids => p \notin missing[d]
  BY DEF TypeOK
<1>7. Ordered(p, d)'
  BY <1>1, <1>4 DEF Ordered
<1>8. ASSUME p \notin missing'[d]
      PROVE  /\ initial_io'[p][d] # None /\ latest_io'[p][d] # None
             /\ opening'[p][d] <= initial_io'[p][d] /\ initial_io'[p][d] <= baseline'[p][d]
             /\ initial_io'[p][d] <= latest_io'[p][d] /\ closing'[p][d] <= latest_io'[p][d]
  <2>1. CASE p \notin observed_pids
    <3>1. readIo[p][d] # None /\ initial_io'[p][d] = readIo[p][d]
          /\ latest_io'[p][d] = readIo[p][d]
      BY <1>3, <1>4, <1>8, <2>1 DEF Enclosed
    <3>2. closing'[p][d] <= readIo[p][d]
      BY <1>2, <2>1, <3>1 DEF Ordered, Enclosed
    <3> QED BY <1>2, <2>1, <3>1, <3>2 DEF Ordered
  <2>2. CASE p \in observed_pids
    <3>1. p \in observed_pids \ missing[d] /\ initial_io'[p][d] = initial_io[p][d]
      BY <1>3, <1>4, <1>8, <2>2 DEF Enclosed
    <3>2. latest_io[p][d] <= latest_io'[p][d]
      BY <1>4, <3>1 DEF Ordered, Enclosed
    <3>3. closing'[p][d] <= latest_io'[p][d]
      BY <1>2, <1>4, <1>5, <3>1, <3>2 DEF Ordered, Enclosed
    <3>4. latest_io'[p][d] \in Nat
      BY <1>4, <3>1 DEF Enclosed
    <3>5. /\ opening[p][d] <= initial_io[p][d] /\ initial_io[p][d] <= baseline[p][d]
          /\ initial_io[p][d] <= latest_io[p][d] /\ initial_io[p][d] # None
          /\ latest_io[p][d] # None
      BY <3>1 DEF Enclosed
    <3> QED BY <1>2, <2>2, <3>1, <3>2, <3>3, <3>4, <3>5
  <2> QED BY <2>1, <2>2
<1>9. Enclosed(p, d)'
  BY <1>1, <1>8, Zenon DEF Enclosed
<1> QED BY <1>7, <1>9

LEMMA WindowStep == TypeOK /\ TypeOK' /\ WindowInv /\ [Next]_vars => WindowInv'
<1> SUFFICES ASSUME TypeOK, TypeOK', WindowInv, [Next]_vars,
                    NEW p \in Procs, NEW d \in Directions
             PROVE  (Ordered(p, d) /\ Enclosed(p, d))'
  BY DEF WindowInv
<1>0. Ordered(p, d) /\ Enclosed(p, d)
  BY DEF WindowInv
<1> USE <1>0 DEF outside, counters, accesses, history
<1>1. ASSUME UNCHANGED <<io, readIo, counters, atList, opening, baseline, closing>>
      PROVE  (Ordered(p, d) /\ Enclosed(p, d))'
  BY <1>1 DEF Ordered, Enclosed
<1>2. CASE Processes \/ (\E q \in Procs : Shut(q) \/ ReadState(q)) \/ BeginObserve \/ Wait
           \/ Report \/ UNCHANGED vars
  BY <1>1, <1>2 DEF Processes, Shut, ReadState, BeginObserve, Wait, Report, vars
<1>3. ASSUME NEW q \in Procs, NEW e \in Directions, Transfer(q, e)
      PROVE  (Ordered(p, d) /\ Enclosed(p, d))'
  <2>1. UNCHANGED <<readIo, counters, atList, opening, baseline, closing>>
    BY <1>3 DEF Transfer
  <2>2. io[p][d] <= io'[p][d] /\ io'[p][d] \in Nat
    <3>1. io[p][d] \in Nat /\ io \in [Procs -> Amount] /\ io[q] \in [Directions -> 0..MaxBytes]
      BY Amounts DEF TypeOK, Amount
    <3>2. io' = [io EXCEPT ![q] = [io[q] EXCEPT ![e] = io[q][e] + 1]]
      BY <1>3 DEF Transfer
    <3>3. io'[p][d] = IF q = p /\ e = d THEN io[p][d] + 1 ELSE io[p][d]
      BY <3>1, <3>2 DEF Amount
    <3> QED BY <3>1, <3>3
  <2>3. Ordered(p, d)'
    BY <2>1, <2>2, Amounts DEF Ordered
  <2> QED BY <2>1, <2>3 DEF Enclosed
<1>4. CASE BeginSnapshot
  <2>1. UNCHANGED <<io, counters, opening, baseline, closing>> /\ atList' = io
        /\ readIo'[p][d] = None
    BY <1>4 DEF BeginSnapshot, Each
  <2> QED BY <2>1, Amounts DEF Ordered, Enclosed
<1>5. CASE ReadIo
  <2>1. UNCHANGED <<io, counters, atList, opening, baseline, closing>>
    BY <1>5 DEF ReadIo
  <2>2. readIo'[p] = readIo[p] \/ readIo'[p] = io[p]
    BY <1>5 DEF ReadIo, TypeOK
  <2> QED BY <2>1, <2>2, Amounts DEF Ordered, Enclosed
<1>6. CASE Leave
  <2>1. UNCHANGED <<io, counters, opening, baseline, closing>> /\ atList'[p][d] = 0
        /\ readIo'[p][d] = None
    BY <1>6 DEF Leave, Each
  <2> QED BY <2>1, Amounts DEF Ordered, Enclosed
<1>7. ASSUME NEW q \in Procs, Observe(q) PROVE (Ordered(p, d) /\ Enclosed(p, d))'
  <2>1. CASE q = p
    BY <1>7, <2>1, VisitEncloses
  <2>2. CASE q # p
    <3>1. /\ UNCHANGED <<io, readIo>> /\ (p \in observed_pids' <=> p \in observed_pids)
          /\ (p \in missing'[d] <=> p \in missing[d])
      BY <1>7, <2>2 DEF Observe, ObserveIo, MissingAfter
    <3>2. /\ initial_io'[p] = initial_io[p] /\ latest_io'[p] = latest_io[p]
          /\ atList'[p] = atList[p] /\ opening'[p] = opening[p]
          /\ baseline'[p] = baseline[p] /\ closing'[p] = closing[p]
      BY <1>7, <2>2 DEF Observe, ObserveIo, InitialAfter, LatestAfter, First, TypeOK
    <3> QED BY <3>1, <3>2 DEF Ordered, Enclosed
  <2> QED BY <2>1, <2>2
<1> QED BY <1>2, <1>3, <1>4, <1>5, <1>6, <1>7 DEF Next, RunLens

LEMMA WindowStart == Init => WindowInv
<1> SUFFICES ASSUME Init, NEW p \in Procs, NEW d \in Directions
             PROVE  Ordered(p, d) /\ Enclosed(p, d)
  BY DEF WindowInv
<1> QED BY DEF Init, Each, Ordered, Enclosed

LEMMA WindowInvariant == Spec => [](TypeOK /\ WindowInv)
<1> QED BY WindowStart, TypeInvariant, TypeStep, WindowStep, PTL DEF Spec

LEMMA WindowOf ==
  ASSUME TypeOK, WindowInv, NEW p \in observed_pids, NEW d \in Directions, p \notin missing[d]
  PROVE  /\ None \notin {initial_io[p][d], latest_io[p][d]}
         /\ latest_io[p][d] >= initial_io[p][d]
         /\ Window(d)[p] \in Nat
         /\ Window(d)[p] <= Between(opening, io, p, d)
         /\ Between(baseline, closing, p, d) <= Window(d)[p]
         /\ Between(opening, io, p, d) \in Nat /\ Between(baseline, closing, p, d) \in Nat
<1>1. p \in Procs /\ Ordered(p, d) /\ Enclosed(p, d)
  BY DEF TypeOK, WindowInv
<1>2. Window(d)[p] = latest_io[p][d] - initial_io[p][d]
  BY DEF Window
<1> QED BY <1>1, <1>2, Amounts DEF Ordered, Enclosed, Between

(* What each process adds to the totals is what it transferred between its *)
(* first and its last reading, whatever fails or exits in between.         *)
THEOREM EachWindow == Spec => []WindowsAreBracketed
<1>1. TypeOK /\ WindowInv => WindowsAreBracketed
  BY WindowOf DEF WindowsAreBracketed
<1> QED BY <1>1, WindowInvariant, PTL

-----------------------------------------------------------------------------
(* Totals.  With every first reading in hand there is a total, zero bytes  *)
(* of it being what the report prints when it saw nothing open either.     *)

LEMMA TotalIsPrinted ==
  ASSUME TypeOK, WindowInv, NEW d \in Directions, missing[d] = {}, Printed(d) # None
  PROVE  Printed(d) = SumFunction(Window(d))
<1>1. aggregate_bytes(d) = SumFunction(Window(d))
  <2>1. \A p \in observed_pids : /\ None \notin {initial_io[p][d], latest_io[p][d]}
                                 /\ ~(latest_io[p][d] < initial_io[p][d])
    <3> SUFFICES ASSUME NEW p \in observed_pids
                 PROVE  /\ None \notin {initial_io[p][d], latest_io[p][d]}
                        /\ ~(latest_io[p][d] < initial_io[p][d])
      OBVIOUS
    <3>1. p \in Procs
      BY DEF TypeOK
    <3>2. initial_io[p][d] \in Nat /\ latest_io[p][d] \in Nat
      BY <3>1, WindowOf, Amounts
    <3> QED BY <3>2, WindowOf
  <2> QED BY <2>1 DEF aggregate_bytes
<1>2. SumFunction(Window(d)) \in Nat
  <2>1. IsFiniteSet(observed_pids)
    BY SamplingAssumption, FS_Subset DEF TypeOK
  <2>2. DOMAIN Window(d) = observed_pids /\ \A p \in observed_pids : Window(d)[p] \in Nat
    BY WindowOf DEF Window
  <2> QED BY <2>1, <2>2, SumIsNat DEF SumFunction
<1>3. aggregate_bytes(d) # None
  BY <1>1, <1>2, FilesystemAssumption
<1>4. CASE has_activity
  BY <1>1, <1>4 DEF Printed, bytes_for_report
<1>5. CASE ~has_activity
  <2>1. bytes_for_report(d) = aggregate_bytes(d) /\ bytes_for_report(d) \in {None, 0}
    BY <1>5 DEF has_activity, bytes_for_report
  <2> QED BY <1>1, <1>3, <1>5, <2>1 DEF Printed
<1> QED BY <1>4, <1>5

(* A total in the report is what the recorded processes transferred between*)
(* their first readings and their last ones, for any number of processes.  *)
THEOREM Bytes == Spec => []BytesAreBracketed
<1>1. ASSUME TypeOK, WindowInv, NEW d \in Directions, missing[d] = {}, Printed(d) # None
      PROVE  /\ Printed(d) <= SumFunction(Transferred(opening, io, d))
             /\ SumFunction(Transferred(baseline, closing, d)) <= Printed(d)
  <2>1. IsFiniteSet(observed_pids)
    BY <1>1, SamplingAssumption, FS_Subset DEF TypeOK
  <2>2. /\ DOMAIN Window(d) = observed_pids
        /\ DOMAIN Transferred(opening, io, d) = observed_pids
        /\ DOMAIN Transferred(baseline, closing, d) = observed_pids
    BY DEF Window, Transferred
  <2>3. \A p \in observed_pids :
          /\ Transferred(opening, io, d)[p] \in Nat
          /\ Transferred(baseline, closing, d)[p] \in Nat
          /\ Window(d)[p] \in Nat
          /\ Window(d)[p] <= Transferred(opening, io, d)[p]
          /\ Transferred(baseline, closing, d)[p] <= Window(d)[p]
    BY <1>1, WindowOf DEF Transferred
  <2>4. SumFunction(Window(d)) <= SumFunction(Transferred(opening, io, d))
    BY <2>1, <2>2, <2>3, SumGrows DEF SumFunction
  <2>5. SumFunction(Transferred(baseline, closing, d)) <= SumFunction(Window(d))
    BY <2>1, <2>2, <2>3, SumGrows DEF SumFunction
  <2> QED BY <1>1, <2>4, <2>5, TotalIsPrinted
<1>2. TypeOK /\ WindowInv => BytesAreBracketed
  BY <1>1 DEF BytesAreBracketed
<1> QED BY <1>2, WindowInvariant, PTL
=============================================================================
