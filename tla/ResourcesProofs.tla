--------------------------- MODULE ResourcesProofs ---------------------------
(***************************************************************************)
(* Proofs about Resources for any processes and counters, and any speed of *)
(* the clock, a clock without a speed included.                            *)
(***************************************************************************)
EXTENDS Resources, SamplingProofs, FoldProofs

-----------------------------------------------------------------------------
(* Type correctness: what a division or a sum yields fits, or is None.     *)

(* A quotient of natural numbers is one, and grows with the dividend.      *)
LEMMA Quotients ==
  ASSUME NEW a \in Nat, NEW b \in Nat, a <= b, NEW n \in Nat \ {0}
  PROVE  a \div n \in Nat /\ b \div n \in Nat /\ a \div n <= b \div n
  OBVIOUS

LEMMA ExactIsNat ==
  ASSUME NEW ticks \in Nat, TicksPerSecond # 0
  PROVE  Exact(ticks) \in Nat
<1>1. ticks * NanosPerSecond \in Nat
  BY ResourcesAssumption
<1> QED BY <1>1, Quotients, ResourcesAssumption DEF Exact

LEMMA NanosFit ==
  ASSUME NEW ticks \in Nat
  PROVE  cpu_ticks_to_nanos(ticks) \in U64 \cup {None}
  BY ExactIsNat, ResourcesAssumption DEF cpu_ticks_to_nanos, U64

LEMMA MemoryFits ==
  ASSUME TypeOK
  PROVE  /\ TreeMemory \in U64 \cup {None}
         /\ Total(rss, current_tree) \in Nat
<1>1. IsFiniteSet(current_tree) /\ current_tree \subseteq Procs
  BY TreesAreProcesses, SamplingAssumption, FS_Subset
<1>2. Total(rss, current_tree) \in Nat
  BY <1>1, SumIsNat, ResourcesAssumption DEF TypeOK, Total
<1>3. CASE TreeMemory = None
  BY <1>2, <1>3
<1>4. CASE TreeMemory # None
  <2>1. /\ TreeMemory = Total(readRss, current_tree)
        /\ ~(Total(readRss, current_tree) > MaxU64)
        /\ \A p \in current_tree : readRss[p] # None
    BY <1>4 DEF TreeMemory
  <2>2. \A p \in current_tree : readRss[p] \in Nat
    BY <1>1, <2>1, ResourcesAssumption DEF TypeOK
  <2>3. Total(readRss, current_tree) \in Nat
    BY <1>1, <2>2, SumIsNat DEF Total
  <2> QED BY <1>2, <2>1, <2>3, ResourcesAssumption DEF U64
<1> QED BY <1>3, <1>4

LEMMA TypeStep == TypeOK /\ [Next]_vars => TypeOK'
<1> SUFFICES ASSUME TypeOK, [Next]_vars PROVE TypeOK'
  OBVIOUS
<1>0. /\ SamplingTypeOK
      /\ Nothing \in [Procs -> U64 \cup {None}] /\ Nothing \in [Procs -> 0..MaxRss \cup {None}]
      /\ Zero \in [Procs -> 0..MaxTicks]
  BY ResourcesAssumption DEF TypeOK, Nothing, Zero
<1> USE DEF counters, readings, results, history
<1>1. CASE Processes
  <2>1. rss' \in [Procs -> 0..MaxRss]
    BY <1>1, ResourcesAssumption DEF Processes, TypeOK
  <2> QED BY <1>0, <1>1, <2>1, KernelKeepsTypes DEF Processes, TypeOK
<1>2. ASSUME NEW p \in Procs, Compute(p) \/ Resize(p) PROVE TypeOK'
  <2>1. cpu' \in [Procs -> 0..MaxTicks] /\ rss' \in [Procs -> 0..MaxRss]
    BY <1>2, ResourcesAssumption DEF Compute, Resize, TypeOK
  <2> QED BY <1>0, <1>2, <2>1, StandingKeepsTypes DEF Compute, Resize, TypeOK
<1>3. CASE BeginSnapshot
  BY <1>0, <1>3, SnapshotKeepsTypes DEF BeginSnapshot, TypeOK
<1>4. CASE ReadMemory
  <2>1. current \in Procs
    BY <1>0 DEF SamplingTypeOK
  <2>2. readRss' \in [Procs -> 0..MaxRss \cup {None}]
    BY <1>4, <2>1 DEF ReadMemory, TypeOK
  <2> QED BY <1>0, <1>4, <2>2, SnapshotKeepsTypes DEF ReadMemory, TypeOK
<1>5. ASSUME NEW p \in Procs, ReadCpu(p) PROVE TypeOK'
  <2>1. cpu_ticks_to_nanos(cpu[p]) \in U64 \cup {None}
    BY NanosFit, ResourcesAssumption DEF TypeOK
  <2>2. readCpu' \in [Procs -> U64 \cup {None}]
    BY <1>5, <2>1 DEF ReadCpu, TypeOK
  <2> QED BY <1>0, <1>5, <2>2, SnapshotKeepsTypes DEF ReadCpu, TypeOK
<1>6. CASE Update
  <2>1. SamplingTypeOK' /\ UNCHANGED <<cpu, rss, readCpu, readRss, atList, calm>>
    BY <1>0, <1>6, ObserveKeepsTypes DEF Update
  <2>2. info' \in [Procs -> U64 \cup {None}]
    BY <1>6 DEF Update, Refreshed, TypeOK
  <2>3. peak' \in U64 \cup {None}
    BY <1>6, MemoryFits DEF Update, PeakAfter, TypeOK
  <2>4. floor' \in [Procs -> 0..MaxTicks]
    BY <1>6 DEF Update, TypeOK
  <2>5. quietTree' \in U64 /\ quietLive' \in U64
    BY <1>6, MemoryFits, ResourcesAssumption DEF Update, Quiet, TypeOK, U64
  <2>6. limited' \in BOOLEAN /\ hidden' \in BOOLEAN
    BY <1>6 DEF Update, LimitedAfter, Incomplete, TypeOK
  <2> QED BY <2>1, <2>2, <2>3, <2>4, <2>5, <2>6 DEF TypeOK
<1>7. CASE Elsewhere
  BY <1>0, <1>7, ObserveKeepsTypes DEF Elsewhere, TypeOK
<1>8. CASE Leave
  BY <1>0, <1>8, ObserveKeepsTypes DEF Leave, TypeOK
<1>9. CASE Report
  BY <1>0, <1>9, ObserveKeepsTypes DEF Report, process_snapshot_available, TypeOK
<1>10. CASE UNCHANGED vars
  BY <1>0, <1>10, StandingKeepsTypes DEF vars, TypeOK
<1> QED BY <1>1, <1>2, <1>3, <1>4, <1>5, <1>6, <1>7, <1>8, <1>9, <1>10 DEF Next, RunLens

LEMMA TypeStart == Init => TypeOK
<1> SUFFICES ASSUME Init PROVE TypeOK
  OBVIOUS
<1>1. SamplingTypeOK /\ 0 \in 0..MaxTicks /\ 0 \in 0..MaxRss /\ 0 \in U64
  BY SamplingStarts, ResourcesAssumption DEF Init, U64
<1> QED BY <1>1 DEF Init, Nothing, Zero, TypeOK

(* Readings, kept values, sums and peaks fit an u64 or are None, whatever  *)
(* the clock's speed and the sizes of processes are.                       *)
THEOREM TypeCorrect == Spec => []TypeOK
  BY TypeStart, TypeStep, PTL DEF Spec

-----------------------------------------------------------------------------
(* The command is in every snapshot that has one of its descendants: only  *)
(* try_wait removes it from the table, and not while entries are read.     *)

CommandInv ==
  /\ state[Root] # "unborn"
  /\ linked \ {Root} # {} => state[Root] = "R"
  /\ stage \in {"stat", "rest"} /\ state[Root] \in {"R", "Z"} => Root \in Found \cup todo
  /\ stage \in {"stat", "rest", "update"} /\ (\E p \in Found \ {Root} : processes[p].linked)
       => state[Root] # "gone" /\ Root \in Found \cup todo
  /\ stage = "rest" => current \in Found
  /\ stage = "update" => todo = {}

LEMMA CommandStep == TypeOK /\ CommandInv /\ [Next]_vars => CommandInv'
<1> SUFFICES ASSUME TypeOK, CommandInv, [Next]_vars PROVE CommandInv'
  OBVIOUS
<1> USE SamplingAssumption DEF CommandInv, Found, kernel, snapshot, samplingVars
<1>0. SamplingTypeOK
  BY DEF TypeOK
<1>1. CASE Processes
  <2>1. PICK p \in Procs : Start(p) \/ Orphan(p) \/ Exit(p) \/ Reap(p)
    BY <1>1 DEF Processes, Kernel
  <2>2. UNCHANGED <<stage, todo, current, processes>>
    BY <1>1 DEF Processes, Kernel
  <2>3. CASE Start(p)
    BY <1>0, <2>2, <2>3 DEF Start, SamplingTypeOK
  <2>4. CASE Orphan(p)
    BY <1>0, <2>2, <2>4 DEF Orphan, SamplingTypeOK
  <2>5. CASE Exit(p)
    BY <1>0, <2>2, <2>5 DEF Exit, SamplingTypeOK
  <2>6. CASE Reap(p)
    BY <1>0, <2>2, <2>6 DEF Reap, SamplingTypeOK
  <2> QED BY <2>1, <2>3, <2>4, <2>5, <2>6
<1>2. ASSUME NEW p \in Procs, Compute(p) \/ Resize(p) PROVE CommandInv'
  BY <1>2 DEF Compute, Resize
<1>3. CASE BeginSnapshot
  BY <1>3 DEF BeginSnapshot, List, NotRead, InTable
<1>4. ASSUME NEW p \in Procs, ReadCpu(p) PROVE CommandInv'
  <2>1. stage = "stat" /\ p \in todo /\ UNCHANGED <<state, linked>>
    BY <1>4 DEF ReadCpu, ReadStat
  <2>2. CASE p \in InTable
    <3>1. /\ processes' = [processes EXCEPT ![p] = [state |-> state[p], linked |-> p \in linked]]
          /\ current' = p /\ stage' = "rest" /\ todo' = todo
      BY <1>4, <2>2 DEF ReadCpu, ReadStat
    <3>2. Found' = Found \cup {p}
      BY <1>0, <2>2, <3>1 DEF SamplingTypeOK, InTable
    <3>3. \A q \in Found' \ {Root} : processes'[q].linked => q \in linked \/ processes[q].linked
      BY <1>0, <3>1, <3>2 DEF SamplingTypeOK
    <3> QED BY <1>0, <2>1, <3>1, <3>2, <3>3 DEF SamplingTypeOK
  <2>3. CASE p \notin InTable
    <3>1. UNCHANGED processes /\ todo' = todo \ {p} /\ stage' = AfterEntry(p)
      BY <1>4, <2>3 DEF ReadCpu, ReadStat
    <3>2. p = Root => state[Root] = "gone"
      BY <1>0, <2>3 DEF SamplingTypeOK, InTable
    <3>3. stage' \in {"stat", "update"} /\ (stage' = "update" => todo' = {})
      BY <3>1 DEF AfterEntry
    <3> QED BY <2>1, <3>1, <3>2, <3>3
  <2> QED BY <2>2, <2>3
<1>5. CASE ReadMemory
  BY <1>5 DEF ReadMemory, ReadRest, AfterEntry
<1>6. CASE Update
  BY <1>6 DEF Update, Walk
<1>7. CASE Elsewhere \/ Report
  BY <1>7 DEF Elsewhere, Visit, Report, Render
<1>8. CASE Leave
  BY <1>0, <1>8 DEF Leave, EndObserve, TryWait, NotRead, SamplingTypeOK
<1>9. CASE UNCHANGED vars
  BY <1>9 DEF vars
<1> QED BY <1>1, <1>2, <1>3, <1>4, <1>5, <1>6, <1>7, <1>8, <1>9 DEF Next, RunLens

LEMMA LivingAreInTheTree ==
  ASSUME CommandInv, stage = "update"
  PROVE  Reached \cap Alive \subseteq current_tree
  BY DEF CommandInv, Reached, Alive, Found, current_tree

-----------------------------------------------------------------------------
(* Readings.  A reading is the count at one moment: after the listing, and *)
(* after whatever listing an earlier snapshot has left in floor.           *)

ReadAt(p) ==
  /\ atList[p] <= cpu[p] /\ floor[p] <= cpu[p]
  /\ readCpu[p] # None =>
       \E ticks \in 0..cpu[p] :
         atList[p] <= ticks /\ floor[p] <= ticks /\ readCpu[p] = Exact(ticks)

Kept(p) == limited \/ info[p] = None \/ \E ticks \in floor[p]..cpu[p] : info[p] = Exact(ticks)

ReadingInv == \A p \in Procs : ReadAt(p) /\ Kept(p)

LEMMA Counts ==
  ASSUME TypeOK, NEW p \in Procs
  PROVE  cpu[p] \in Nat /\ atList[p] \in Nat /\ floor[p] \in Nat
  BY ResourcesAssumption DEF TypeOK

LEMMA ReadingStep ==
  TypeOK /\ TypeOK' /\ CommandInv /\ ReadingInv /\ [Next]_vars => ReadingInv'
<1> SUFFICES ASSUME TypeOK, TypeOK', CommandInv, ReadingInv, [Next]_vars,
                    NEW p \in Procs
             PROVE  (ReadAt(p) /\ Kept(p))'
  BY DEF ReadingInv
<1>0. ReadAt(p) /\ Kept(p)
  BY DEF ReadingInv
<1> USE <1>0 DEF counters, readings, results, history
<1>1. ASSUME UNCHANGED <<cpu, readCpu, info, atList, floor>>, limited => limited'
      PROVE  (ReadAt(p) /\ Kept(p))'
  BY <1>1 DEF ReadAt, Kept
<1>2. CASE Processes \/ (\E q \in Procs : Resize(q)) \/ ReadMemory \/ Elsewhere \/ Report
           \/ UNCHANGED vars
  <2>1. UNCHANGED <<cpu, readCpu, info, atList, floor>>
    BY <1>2 DEF Processes, Resize, ReadMemory, Elsewhere, Report, vars
  <2>2. limited => limited'
    BY <1>2 DEF Processes, Resize, ReadMemory, Elsewhere, Report, vars
  <2> QED BY <1>1, <2>1, <2>2
<1>3. ASSUME NEW q \in Procs, Compute(q) PROVE (ReadAt(p) /\ Kept(p))'
  <2>1. UNCHANGED <<readCpu, info, limited, atList, floor>> /\ cpu[p] <= cpu'[p]
    BY <1>3, Counts DEF Compute, TypeOK
  <2>2. cpu'[p] \in Nat
    BY <1>3, Counts DEF Compute, TypeOK
  <2> QED BY <2>1, <2>2, Counts DEF ReadAt, Kept
<1>4. CASE BeginSnapshot
  <2>1. UNCHANGED <<cpu, info, limited, floor>> /\ atList' = cpu /\ readCpu'[p] = None
    BY <1>4 DEF BeginSnapshot, Nothing
  <2> QED BY <2>1, Counts DEF ReadAt, Kept
<1>5. ASSUME NEW q \in Procs, ReadCpu(q) PROVE (ReadAt(p) /\ Kept(p))'
  <2>1. UNCHANGED <<cpu, info, limited, atList, floor>>
    BY <1>5 DEF ReadCpu
  <2>2. readCpu'[p] = readCpu[p] \/ readCpu'[p] = cpu_ticks_to_nanos(cpu[p])
    BY <1>5 DEF ReadCpu, TypeOK
  <2>3. CASE readCpu'[p] = readCpu[p]
    BY <2>1, <2>3 DEF ReadAt, Kept
  <2>4. CASE readCpu'[p] = cpu_ticks_to_nanos(cpu[p])
    <3>1. readCpu'[p] # None => readCpu'[p] = Exact(cpu[p])
      BY <2>4 DEF cpu_ticks_to_nanos
    <3> QED BY <2>1, <3>1, Counts DEF ReadAt, Kept, Exact
  <2> QED BY <2>2, <2>3, <2>4
<1>6. CASE Update
  <2>1. UNCHANGED <<cpu, readCpu, atList>> /\ stage = "update"
    BY <1>6 DEF Update, Walk
  <2>2. limited' = (limited \/ Incomplete)
    BY <1>6 DEF Update, LimitedAfter
  <2>3. /\ info'[p] = IF p \in Found \cap Reached THEN Refreshed(p) ELSE info[p]
        /\ floor'[p] = IF p \in Reached \cap Alive THEN atList[p] ELSE floor[p]
    BY <1>6 DEF Update
  <2>4. ReadAt(p)'
    BY <2>1, <2>3, Counts DEF ReadAt, Exact
  <2>5. Kept(p)'
    <3>1. CASE p \in Found \cap Reached /\ readCpu[p] # None
      BY <2>1, <2>3, <3>1, Counts DEF ReadAt, Kept, Refreshed, Exact
    <3>2. CASE readCpu[p] = None /\ p \in Reached \cap Alive
      BY <2>1, <2>2, <3>2, LivingAreInTheTree DEF Incomplete, Kept
    <3>3. CASE p \notin Reached \cap Alive /\ ~(p \in Found \cap Reached /\ readCpu[p] # None)
      BY <2>1, <2>2, <2>3, <3>3 DEF Kept, Refreshed, Exact
    <3> QED BY <3>1, <3>2, <3>3 DEF Found, Alive
  <2> QED BY <2>4, <2>5
<1>7. CASE Leave
  <2>1. /\ UNCHANGED <<cpu, info, limited, floor>> /\ atList'[p] = 0 /\ readCpu'[p] = None
    BY <1>7 DEF Leave, Nothing, Zero
  <2> QED BY <2>1, Counts DEF ReadAt, Kept
<1> QED BY <1>2, <1>3, <1>4, <1>5, <1>6, <1>7 DEF Next, RunLens

LEMMA ReadingStart == Init => CommandInv /\ ReadingInv
<1> SUFFICES ASSUME Init PROVE CommandInv /\ ReadingInv
  OBVIOUS
<1> USE ResourcesAssumption DEF Init, Nothing, Zero
<1>1. CommandInv
  BY SamplingAssumption DEF SamplingInit, CommandInv, Found, NotRead
<1>2. ReadingInv
  BY DEF ReadingInv, ReadAt, Kept
<1> QED BY <1>1, <1>2

LEMMA ReadingInvariant == Spec => [](TypeOK /\ CommandInv /\ ReadingInv)
  BY TypeStart, ReadingStart, TypeStep, CommandStep, ReadingStep, PTL DEF Spec

(* What the CPU line is a sum of are counts that each process has had, no  *)
(* older than the listing for the last snapshot that saw it alive.         *)
THEOREM EachReading == Spec => []ReadingsAreBracketed
<1>1. TypeOK /\ ReadingInv => ReadingsAreBracketed
  BY DEF TypeOK, SamplingTypeOK, ReadingInv, Kept, ReadingsAreBracketed
<1> QED BY <1>1, ReadingInvariant, PTL

-----------------------------------------------------------------------------
(* The CPU line.  Who is not recorded has never been seen alive, and        *)
(* without a clock's speed there are no readings to add.                   *)

SeenInv ==
  /\ \A p \in Procs \ recorded : floor[p] = 0
  /\ TicksPerSecond = 0 => \A p \in Procs : readCpu[p] = None /\ info[p] = None

LEMMA SeenStep == TypeOK /\ SeenInv /\ [Next]_vars => SeenInv'
<1> SUFFICES ASSUME TypeOK, SeenInv, [Next]_vars PROVE SeenInv'
  OBVIOUS
<1> USE DEF SeenInv, counters, readings, results, history, samplingVars
<1>1. CASE Processes \/ (\E p \in Procs : Compute(p) \/ Resize(p)) \/ ReadMemory \/ Elsewhere
           \/ Report \/ UNCHANGED vars
  BY <1>1 DEF Processes, Kernel, Compute, Resize, ReadMemory, ReadRest, Elsewhere, Visit,
              Report, Render, vars
<1>2. CASE BeginSnapshot \/ Leave
  BY <1>2 DEF BeginSnapshot, List, Leave, EndObserve, TryWait, Nothing
<1>3. ASSUME NEW p \in Procs, ReadCpu(p) PROVE SeenInv'
  <2>1. UNCHANGED <<recorded, floor, info>>
    BY <1>3 DEF ReadCpu, ReadStat
  <2>2. TicksPerSecond = 0 => \A q \in Procs : readCpu'[q] = None
    BY <1>3 DEF ReadCpu, cpu_ticks_to_nanos, TypeOK
  <2> QED BY <2>1, <2>2
<1>4. CASE Update
  <2>1. recorded' = recorded \cup (Found \cap Reached) /\ UNCHANGED readCpu
    BY <1>4 DEF Update, Walk
  <2>2. \A p \in Procs : /\ floor'[p] = IF p \in Reached \cap Alive THEN atList[p] ELSE floor[p]
                         /\ info'[p] = IF p \in Found \cap Reached THEN Refreshed(p) ELSE info[p]
    BY <1>4 DEF Update
  <2>3. Alive \subseteq Found
    BY DEF Alive, Found
  <2> QED BY <2>1, <2>2, <2>3 DEF Refreshed
<1> QED BY <1>1, <1>2, <1>3, <1>4 DEF Next, RunLens

LEMMA ExactGrows ==
  ASSUME NEW a \in Nat, NEW b \in Nat, a <= b, TicksPerSecond # 0
  PROVE  Exact(a) <= Exact(b)
<1>1. a * NanosPerSecond \in Nat /\ b * NanosPerSecond \in Nat
  BY ResourcesAssumption
<1>2. a * NanosPerSecond <= b * NanosPerSecond
  BY ResourcesAssumption
<1> QED BY <1>1, <1>2, Quotients, ResourcesAssumption DEF Exact

LEMMA SumsAreBracketed ==
  ASSUME TypeOK, ReadingInv, SeenInv, ~limited, TicksPerSecond # 0,
         \A p \in recorded : info[p] # None
  PROVE  /\ Total(Nanos(floor), Procs) <= Total(info, recorded)
         /\ Total(info, recorded) <= Total(Nanos(cpu), Procs)
         /\ Total(Nanos(floor), Procs) \in Nat /\ Total(info, recorded) \in Nat
         /\ Total(Nanos(cpu), Procs) \in Nat
<1>1. recorded \subseteq Procs /\ IsFiniteSet(Procs) /\ IsFiniteSet(recorded)
  BY SamplingAssumption, FS_Subset DEF TypeOK, SamplingTypeOK
<1>2. \A p \in Procs : /\ Nanos(floor)[p] = Exact(floor[p]) /\ Nanos(cpu)[p] = Exact(cpu[p])
                       /\ Nanos(floor)[p] \in Nat /\ Nanos(cpu)[p] \in Nat
  BY Counts, ExactIsNat DEF Nanos
<1>3. ASSUME NEW p \in recorded
      PROVE  info[p] \in Nat /\ Nanos(floor)[p] <= info[p] /\ info[p] <= Nanos(cpu)[p]
  <2>1. PICK ticks \in floor[p]..cpu[p] : info[p] = Exact(ticks)
    BY <1>1 DEF ReadingInv, Kept
  <2>2. floor[p] \in Nat /\ cpu[p] \in Nat /\ ticks \in Nat
    BY <1>1, Counts
  <2> QED BY <1>1, <1>2, <2>1, <2>2, ExactIsNat, ExactGrows
<1>4. ASSUME NEW p \in Procs \ recorded PROVE Nanos(floor)[p] = 0
  <2>1. Exact(0) = 0
    BY ResourcesAssumption DEF Exact
  <2> QED BY <1>2, <2>1 DEF SeenInv
<1>5. Total(Nanos(floor), Procs) <= Total(info, recorded)
  BY <1>1, <1>2, <1>3, <1>4, SumGrows DEF Total
<1>6. Total(info, recorded) <= Total(Nanos(cpu), Procs)
  BY <1>1, <1>2, <1>3, SumGrows DEF Total
<1> QED BY <1>1, <1>2, <1>3, <1>5, <1>6, SumIsNat DEF Total

(* The CPU line is between what each process had used when it was last     *)
(* seen alive and what it has used now, for any number of processes, any   *)
(* speed of the clock and any rounding to milliseconds.                    *)
THEOREM CpuLine == Spec => []CpuIsBracketed
<1>1. Init => SeenInv
  BY DEF Init, SeenInv, Nothing, Zero
<1>2. ASSUME TypeOK, ReadingInv, SeenInv, PrintedCpu # None
      PROVE  /\ Total(Nanos(floor), Procs) \div NanosPerMilli <= PrintedCpu
             /\ PrintedCpu <= Total(Nanos(cpu), Procs) \div NanosPerMilli
  <2>1. /\ ~limited /\ Root \in recorded /\ \A p \in recorded : info[p] # None
        /\ PrintedCpu = Total(info, recorded) \div NanosPerMilli
    BY <1>2 DEF PrintedCpu, aggregate_cpu_millis
  <2>2. TicksPerSecond # 0
    BY <1>2, <2>1, SamplingAssumption DEF SeenInv
  <2> QED BY <1>2, <2>1, <2>2, SumsAreBracketed, Quotients, ResourcesAssumption
<1>3. TypeOK /\ ReadingInv /\ SeenInv => CpuIsBracketed
  BY <1>2 DEF CpuIsBracketed
<1> QED BY <1>1, <1>3, TypeStart, TypeStep, SeenStep, ReadingInvariant, PTL DEF Spec

-----------------------------------------------------------------------------
(* The peak.  While nothing has changed since the listing, an entry that   *)
(* was found alive still is, and has the memory that was read of it.       *)

MemoryInv ==
  calm => \A p \in Alive :
    state[p] = "R" /\ ((stage = "rest" /\ p = current) \/ readRss[p] = rss[p])

LEMMA MemoryStep == TypeOK /\ MemoryInv /\ [Next]_vars => MemoryInv'
<1> SUFFICES ASSUME TypeOK, MemoryInv, [Next]_vars PROVE MemoryInv'
  OBVIOUS
<1> USE DEF MemoryInv, Alive, counters, readings, results, history, kernel, snapshot,
            samplingVars
<1>1. CASE Processes \/ (\E p \in Procs : Resize(p)) \/ Leave
  BY <1>1 DEF Processes, Resize, Leave
<1>2. CASE (\E p \in Procs : Compute(p)) \/ UNCHANGED vars
  BY <1>2 DEF Compute, vars
<1>3. CASE BeginSnapshot
  BY <1>3 DEF BeginSnapshot, List, NotRead
<1>4. ASSUME NEW p \in Procs, ReadCpu(p) PROVE MemoryInv'
  <2>1. stage = "stat" /\ UNCHANGED <<state, rss, readRss, calm>>
    BY <1>4 DEF ReadCpu, ReadStat
  <2>2. CASE p \in InTable
    <3>1. /\ processes' = [processes EXCEPT ![p] = [state |-> state[p], linked |-> p \in linked]]
          /\ current' = p /\ stage' = "rest"
      BY <1>4, <2>2 DEF ReadCpu, ReadStat
    <3> QED BY <2>1, <3>1 DEF TypeOK, SamplingTypeOK
  <2>3. CASE p \notin InTable
    BY <1>4, <2>1, <2>3 DEF ReadCpu, ReadStat
  <2> QED BY <2>2, <2>3
<1>5. CASE ReadMemory
  <2>1. /\ stage = "rest" /\ UNCHANGED <<state, rss, calm, processes>> /\ current \in Procs
        /\ readRss' = [readRss EXCEPT ![current] =
                         IF state[current] = "R" THEN rss[current] ELSE None]
    BY <1>5 DEF ReadMemory, ReadRest, TypeOK, SamplingTypeOK
  <2>2. \A p \in Procs : readRss'[p] = IF p # current THEN readRss[p]
                          ELSE IF state[p] = "R" THEN rss[p] ELSE None
    BY <2>1 DEF TypeOK
  <2> QED BY <2>1, <2>2
<1>6. CASE Update \/ Elsewhere \/ Report
  BY <1>6 DEF Update, Walk, Elsewhere, Visit, Report, Render
<1> QED BY <1>1, <1>2, <1>3, <1>4, <1>5, <1>6 DEF Next, RunLens

LEMMA TreeIsSummed ==
  ASSUME TypeOK, MemoryInv, calm, stage = "update", current_tree # {}, current_tree \subseteq Alive,
         Total(rss, current_tree) <= MaxU64
  PROVE  TreeMemory = Total(rss, current_tree)
<1>1. IsFiniteSet(current_tree) /\ current_tree \subseteq Procs
  BY TreesAreProcesses, SamplingAssumption, FS_Subset
<1>2. \A p \in current_tree : readRss[p] = rss[p] /\ readRss[p] # None
  BY <1>1, ResourcesAssumption DEF MemoryInv, TypeOK
<1>3. Total(readRss, current_tree) = Total(rss, current_tree)
  BY <1>1, <1>2, SumOfSame DEF Total
<1>4. ~(Total(readRss, current_tree) > MaxU64)
  BY <1>3, MemoryFits, ResourcesAssumption
<1> QED BY <1>2, <1>3, <1>4 DEF TreeMemory

LEMMA PeakStep ==
  TypeOK /\ MemoryInv /\ PeakCoversLiveTrees /\ [Next]_vars => PeakCoversLiveTrees'
<1> SUFFICES ASSUME TypeOK, MemoryInv, PeakCoversLiveTrees, [Next]_vars
             PROVE  PeakCoversLiveTrees'
  OBVIOUS
<1> USE DEF counters, readings, results, history
<1>1. CASE Update
  <2>1. stage = "update" /\ peak' = PeakAfter(TreeMemory)
    BY <1>1 DEF Update, Walk
  <2>2. /\ peak \in U64 \cup {None} /\ TreeMemory \in U64 \cup {None} /\ quietLive \in U64
        /\ U64 \subseteq Nat /\ None \notin Nat
    BY MemoryFits, ResourcesAssumption DEF TypeOK, U64
  <2>3. /\ peak # None => peak' # None /\ peak' >= peak
        /\ TreeMemory # None => peak' # None /\ peak' >= TreeMemory
        /\ peak' \in Nat \cup {None}
    BY <2>1, <2>2 DEF PeakAfter
  <2>4. CASE quietLive' = quietLive
    BY <2>2, <2>3, <2>4 DEF PeakCoversLiveTrees
  <2>5. CASE quietLive' # quietLive
    <3>1. /\ current_tree \subseteq Alive /\ calm /\ Total(rss, current_tree) <= MaxU64
          /\ Total(rss, current_tree) > quietLive /\ quietLive' = Total(rss, current_tree)
      BY <1>1, <2>5 DEF Update, Quiet
    <3>2. current_tree # {}
      <4>1. Total(rss, {}) = 0
        BY SumOfNone DEF Total
      <4> QED BY <2>2, <3>1, <4>1
    <3>3. TreeMemory = quietLive' /\ quietLive' \in Nat
      BY <2>1, <3>1, <3>2, TreeIsSummed, MemoryFits
    <3> QED BY <2>2, <2>3, <3>3 DEF PeakCoversLiveTrees
  <2> QED BY <2>4, <2>5
<1>2. CASE UNCHANGED <<peak, quietLive>>
  BY <1>2 DEF PeakCoversLiveTrees
<1>3. ~Update => UNCHANGED <<peak, quietLive>>
  BY DEF Next, RunLens, Processes, Compute, Resize, BeginSnapshot, ReadCpu, ReadMemory,
         Elsewhere, Leave, Report, vars
<1> QED BY <1>1, <1>2, <1>3

(* The peak covers every tree without zombies that a whole snapshot saw    *)
(* unchanged, for any number of processes of any size that an u64 can add. *)
THEOREM Peak == Spec => []PeakCoversLiveTrees
<1>1. Init => MemoryInv /\ PeakCoversLiveTrees
  BY DEF Init, SamplingInit, MemoryInv, Alive, NotRead, PeakCoversLiveTrees
<1> QED BY <1>1, TypeStart, TypeStep, MemoryStep, PeakStep, PTL DEF Spec

-----------------------------------------------------------------------------
(* Unreadable counters.  The lack of one is noticed when its entry is read,*)
(* the flag is set when observe has the whole snapshot: until then the     *)
(* entry is in the snapshot, is not read again, and stays in the tree.     *)

OnceInv ==
  /\ stage = "stat" => todo \cap Found = {}
  /\ stage = "rest" => todo \cap Found \subseteq {current}

LackedBy(p) ==
  /\ p \in Alive \cap Reached
  /\ readCpu[p] = None \/ (readRss[p] = None /\ (stage = "rest" => p # current))

HiddenInv ==
  hidden => limited \/ /\ stage \in {"stat", "rest", "update"} /\ round # "report"
                       /\ \E p \in Procs : LackedBy(p)

LEMMA OnceStep == TypeOK /\ OnceInv /\ [Next]_vars => OnceInv'
<1> SUFFICES ASSUME TypeOK, OnceInv, [Next]_vars PROVE OnceInv'
  OBVIOUS
<1> USE DEF OnceInv, Found, kernel, snapshot, samplingVars
<1>1. CASE Processes \/ (\E p \in Procs : Compute(p) \/ Resize(p)) \/ UNCHANGED vars
  BY <1>1 DEF Processes, Kernel, Compute, Resize, vars
<1>2. CASE BeginSnapshot
  BY <1>2 DEF BeginSnapshot, List, NotRead
<1>3. ASSUME NEW p \in Procs, ReadCpu(p) PROVE OnceInv'
  <2>1. processes \in [Procs -> [state : {"none", "R", "Z"}, linked : BOOLEAN]]
    BY DEF TypeOK, SamplingTypeOK
  <2>2. CASE p \in InTable
    BY <1>3, <2>1, <2>2 DEF ReadCpu, ReadStat
  <2>3. CASE p \notin InTable
    BY <1>3, <2>3 DEF ReadCpu, ReadStat, AfterEntry
  <2> QED BY <2>2, <2>3
<1>4. CASE ReadMemory
  BY <1>4 DEF ReadMemory, ReadRest, AfterEntry
<1>5. CASE Update \/ Elsewhere \/ Report
  BY <1>5 DEF Update, Walk, Elsewhere, Visit, Report, Render
<1>6. CASE Leave
  BY <1>6 DEF Leave, EndObserve, TryWait
<1> QED BY <1>1, <1>2, <1>3, <1>4, <1>5, <1>6 DEF Next, RunLens

LEMMA HiddenStep ==
  TypeOK /\ CommandInv /\ OnceInv /\ HiddenInv /\ [Next]_vars => HiddenInv'
<1> SUFFICES ASSUME TypeOK, CommandInv, OnceInv, HiddenInv, [Next]_vars PROVE HiddenInv'
  OBVIOUS
<1> USE DEF HiddenInv, LackedBy, counters, readings, results, history
<1>0. processes \in [Procs -> [state : {"none", "R", "Z"}, linked : BOOLEAN]]
  BY DEF TypeOK, SamplingTypeOK
<1>1. CASE Processes \/ (\E p \in Procs : Compute(p) \/ Resize(p)) \/ UNCHANGED vars
  <2>1. UNCHANGED <<hidden, limited, stage, round, current, processes, readCpu, readRss>>
    BY <1>1 DEF Processes, Kernel, Compute, Resize, snapshot, samplingVars, vars
  <2> QED BY <2>1 DEF Alive, Reached, Found
<1>2. CASE BeginSnapshot \/ Elsewhere \/ Leave \/ Report
  <2>1. UNCHANGED hidden /\ (limited => limited')
    <3>1. CASE BeginSnapshot \/ Leave
      BY <3>1 DEF BeginSnapshot, Leave
    <3>2. CASE Elsewhere
      BY <3>2 DEF Elsewhere
    <3>3. CASE Report
      <4>1. UNCHANGED hidden /\ limited' = (limited \/ ~process_snapshot_available)
        BY <3>3 DEF Report
      <4> QED BY <4>1, Zenon
    <3> QED BY <1>2, <3>1, <3>2, <3>3
  <2>2. stage \notin {"stat", "rest", "update"} \/ round = "report"
    BY <1>2 DEF BeginSnapshot, List, Elsewhere, Visit, Leave, EndObserve, TryWait, Report, Render
  <2> QED BY <2>1, <2>2
<1>3. ASSUME NEW q \in Procs, ReadCpu(q) PROVE HiddenInv'
  <2>1. /\ stage = "stat" /\ q \in todo /\ q \notin Found
        /\ UNCHANGED <<round, limited, readRss>>
        /\ hidden' = (hidden \/ Lacks(q, state[q] = "R" /\ q \in linked, readCpu'))
    BY <1>3 DEF ReadCpu, ReadStat, OnceInv
  <2>2. stage' \in {"stat", "rest", "update"}
    BY <1>3 DEF ReadCpu, ReadStat, AfterEntry
  <2>3. /\ \A p \in Procs \ {q} : processes'[p] = processes[p] /\ readCpu'[p] = readCpu[p]
        /\ stage' = "rest" => current' = q
    BY <1>0, <1>3 DEF ReadCpu, ReadStat, TypeOK, AfterEntry
  <2>4. ASSUME NEW p \in Procs, LackedBy(p) PROVE LackedBy(p)'
    <3>1. p # q
      BY <2>1, <2>4 DEF Alive, Found
    <3> QED BY <2>1, <2>3, <2>4, <3>1 DEF Alive, Reached, Found
  <2>5. CASE hidden
    BY <2>1, <2>2, <2>4, <2>5
  <2>6. CASE ~hidden /\ hidden'
    <3>1. round # "report" /\ state[q] = "R" /\ q \in linked /\ readCpu'[q] = None
      BY <2>1, <2>6 DEF Lacks
    <3>2. processes'[q] = [state |-> "R", linked |-> TRUE]
      BY <1>0, <1>3, <3>1 DEF ReadCpu, ReadStat, InTable
    <3>3. LackedBy(q)'
      BY <3>1, <3>2 DEF Alive, Reached, Found
    <3> QED BY <2>1, <2>2, <3>1, <3>3
  <2> QED BY <2>5, <2>6
<1>4. CASE ReadMemory
  <2>1. /\ stage = "rest" /\ current \in Procs
        /\ UNCHANGED <<round, limited, readCpu, processes>>
        /\ hidden' = (hidden \/ Lacks(current, current \in Alive \cap Reached, readRss'))
        /\ \A p \in Procs \ {current} : readRss'[p] = readRss[p]
    BY <1>4 DEF ReadMemory, ReadRest, TypeOK, SamplingTypeOK, snapshot
  <2>2. stage' \in {"stat", "update"}
    BY <1>4 DEF ReadMemory, ReadRest, AfterEntry
  <2>3. ASSUME NEW p \in Procs, LackedBy(p) PROVE LackedBy(p)'
    BY <2>1, <2>2, <2>3 DEF Alive, Reached, Found
  <2>4. CASE hidden
    BY <2>1, <2>2, <2>3, <2>4
  <2>5. CASE ~hidden /\ hidden'
    <3>1. round # "report" /\ current \in Alive \cap Reached /\ readRss'[current] = None
      BY <2>1, <2>5 DEF Lacks
    <3>2. PICK p \in Procs : p = current
      BY <2>1
    <3>3. LackedBy(p)'
      BY <2>1, <2>2, <3>1, <3>2 DEF Alive, Reached, Found
    <3> QED BY <2>1, <2>2, <3>1, <3>3
  <2> QED BY <2>4, <2>5
<1>5. CASE Update
  <2>1. stage = "update" /\ UNCHANGED hidden /\ limited' = (limited \/ Incomplete)
    BY <1>5 DEF Update, Walk, LimitedAfter
  <2>2. ASSUME NEW p \in Procs, LackedBy(p) PROVE Incomplete
    <3>1. p \in current_tree \cap Alive
      BY <2>1, <2>2, LivingAreInTheTree
    <3> QED BY <2>1, <2>2, <3>1 DEF Incomplete
  <2> QED BY <2>1, <2>2
<1> QED BY <1>1, <1>2, <1>3, <1>4, <1>5 DEF Next, RunLens

(* A counter that was not there when the entry of a living process of the  *)
(* command was read makes both totals unavailable in the report, whichever *)
(* snapshot it was, in whatever order entries are read and processes exit. *)
THEOREM LimitsAreLabelled == Spec => []UnreadableIsLabelled
<1>1. Init => OnceInv /\ HiddenInv
  BY DEF Init, SamplingInit, OnceInv, HiddenInv
<1>2. HiddenInv => UnreadableIsLabelled
  BY DEF HiddenInv, UnreadableIsLabelled, PrintedCpu, PrintedPeak
<1> QED BY <1>1, <1>2, OnceStep, HiddenStep, ReadingInvariant, PTL DEF Spec
=============================================================================
