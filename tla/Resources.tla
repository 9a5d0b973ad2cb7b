------------------------------ MODULE Resources ------------------------------
(***************************************************************************)
(* The CPU and memory lines of the report (src/src/observation.rs): the    *)
(* counters that each snapshot reads of each process, the last readings    *)
(* that ObservedProcess keeps, the peak of their sum and the flag          *)
(* limitations.resources.  User and system CPU go the same way, so there   *)
(* is one CPU counter here.                                                *)
(***************************************************************************)
EXTENDS Sampling, Functions

CONSTANTS MaxTicks,        \* bound: CPU ticks of one process
          MaxRss,          \* bound: resident KiB of one process
          TicksPerSecond,  \* sysconf(SC_CLK_TCK), 0 when that fails
          NanosPerSecond,  \* 1_000_000_000 in the code
          NanosPerMilli,   \* 1_000_000 in the code
          MaxU64,          \* the largest u64
          None             \* Option::None

ASSUME ResourcesAssumption ==
  /\ MaxTicks \in Nat /\ MaxRss \in Nat /\ MaxU64 \in Nat
  /\ TicksPerSecond \in Nat
  /\ NanosPerSecond \in Nat \ {0} /\ NanosPerMilli \in Nat \ {0}
  /\ None \notin Int

VARIABLES
  cpu, rss,     \* kernel: CPU ticks used so far, KiB of resident memory
  readCpu,      \* snapshot: user_cpu_nanos of each entry
  readRss,      \* snapshot: resident_memory_kib of each entry
  info,         \* user_cpu_nanos of primary and descendants
  peak,         \* peak_resident_memory_kib
  limited,      \* limitations.resources
  atList,       \* history: cpu when /proc was listed
  floor,        \* history: that, from the last snapshot that saw a process alive
  calm,         \* history: no process or memory has changed since the listing
  quietLive,    \* history: greatest memory of a tree without zombies, all calm
  quietTree,    \* history: greatest memory of any calm tree
  hidden        \* history: a counter of a living process linked to the command
                \* was not there when a snapshot for observe came to read it

counters == <<cpu, rss>>
readings == <<readCpu, readRss>>
results == <<info, peak, limited>>
history == <<atList, floor, calm, quietLive, quietTree, hidden>>
vars == <<samplingVars, counters, readings, results, history>>

U64 == 0..MaxU64
Total(f, S) == SumFunctionOnSet(f, S)

TypeOK ==
  /\ SamplingTypeOK
  /\ cpu \in [Procs -> 0..MaxTicks] /\ rss \in [Procs -> 0..MaxRss]
  /\ readCpu \in [Procs -> U64 \cup {None}] /\ readRss \in [Procs -> 0..MaxRss \cup {None}]
  /\ info \in [Procs -> U64 \cup {None}] /\ peak \in U64 \cup {None}
  /\ limited \in BOOLEAN
  /\ atList \in [Procs -> 0..MaxTicks] /\ floor \in [Procs -> 0..MaxTicks]
  /\ calm \in BOOLEAN /\ hidden \in BOOLEAN
  /\ quietLive \in U64 /\ quietTree \in U64

Nothing == [p \in Procs |-> None]
Zero == [p \in Procs |-> 0]

Init ==
  /\ SamplingInit
  /\ cpu = Zero /\ rss = Zero
  /\ readCpu = Nothing /\ readRss = Nothing
  /\ info = Nothing /\ peak = None /\ limited = FALSE
  /\ atList = Zero /\ floor = Zero /\ calm = TRUE
  /\ quietLive = 0 /\ quietTree = 0 /\ hidden = FALSE

-----------------------------------------------------------------------------
(* The kernel: processes come and go, compute, allocate and free.          *)

Processes ==
  /\ Kernel
  /\ rss' = [p \in Procs |-> IF state'[p] = "R" THEN rss[p] ELSE 0]
  /\ calm' = FALSE
  /\ UNCHANGED <<cpu, readings, results, atList, floor, quietLive, quietTree, hidden>>

Compute(p) ==
  /\ state[p] = "R" /\ cpu[p] < MaxTicks
  /\ cpu' = [cpu EXCEPT ![p] = @ + 1]
  /\ UNCHANGED <<samplingVars, rss, readings, results, history>>

Resize(p) ==
  /\ state[p] = "R"
  /\ \E kib \in 0..MaxRss \ {rss[p]} : rss' = [rss EXCEPT ![p] = kib]
  /\ calm' = FALSE
  /\ UNCHANGED <<samplingVars, cpu, readings, results, atList, floor, quietLive,
                 quietTree, hidden>>

-----------------------------------------------------------------------------
(* The snapshot.                                                           *)

Exact(ticks) == (ticks * NanosPerSecond) \div TicksPerSecond

cpu_ticks_to_nanos(ticks) ==
  IF TicksPerSecond = 0 \/ Exact(ticks) > MaxU64 THEN None ELSE Exact(ticks)

BeginSnapshot ==
  /\ List
  /\ readCpu' = Nothing /\ readRss' = Nothing
  /\ atList' = cpu /\ calm' = TRUE
  /\ UNCHANGED <<counters, results, floor, quietLive, quietTree, hidden>>

(* History: p is taken for a living process of the tree, but not counted.  *)
Lacks(p, belongs, reading) == round # "report" /\ belongs /\ reading[p] = None

(* CPU comes with the state, from /proc/<pid>/stat ...                     *)
ReadCpu(p) ==
  /\ ReadStat(p)
  /\ readCpu' = IF p \in InTable
                THEN [readCpu EXCEPT ![p] = cpu_ticks_to_nanos(cpu[p])] ELSE readCpu
  /\ hidden' = (hidden \/ Lacks(p, state[p] = "R" /\ p \in linked, readCpu'))
  /\ UNCHANGED <<counters, readRss, results, atList, floor, calm, quietLive, quietTree>>

(* ... and memory from /proc/<pid>/status, later, where a zombie has none. *)
ReadMemory ==
  /\ ReadRest
  /\ readRss' = [readRss EXCEPT ![current] =
                   IF state[current] = "R" THEN rss[current] ELSE None]
  /\ hidden' = (hidden \/ Lacks(current, current \in Alive \cap Reached, readRss'))
  /\ UNCHANGED <<counters, readCpu, results, atList, floor, calm, quietLive, quietTree>>

-----------------------------------------------------------------------------
(* observe.                                                                *)

(* Mutants: definitions with a plausible bug, for the properties below to  *)
(* find.  No specification uses them.                                      *)
RefreshedOnce(p) == IF info[p] = None THEN readCpu[p] ELSE info[p]
PeakOverwritten(total) == IF total = None THEN peak ELSE total
CpuOfTheRunning ==   \* of Incomplete: one of the counters that it looks at
  \E p \in current_tree \cap Alive : readCpu[p] = None
DividedFirst ==      \* of aggregate_cpu_millis: every process to milliseconds
  LET millis == [p \in Procs |-> IF info[p] = None THEN 0 ELSE info[p] \div NanosPerMilli] IN
    IF Root \notin recorded \/ \E p \in recorded : info[p] = None
    THEN None ELSE Total(millis, recorded)
MemoryUnchecked ==  \* + in place of checked_add
  IF current_tree = {} \/ \E p \in current_tree : readRss[p] = None
  THEN None ELSE Total(readRss, current_tree)

(* ObservedProcess::update, and the record of a process seen first.        *)
Refreshed(p) == IF readCpu[p] = None THEN info[p] ELSE readCpu[p]

(* update_peak_memory: the sum over the tree, None when one is missing.    *)
TreeMemory ==
  IF \/ current_tree = {}
     \/ \E p \in current_tree : readRss[p] = None
     \/ Total(readRss, current_tree) > MaxU64
  THEN None ELSE Total(readRss, current_tree)

PeakAfter(total) ==
  IF total = None \/ (peak # None /\ peak >= total) THEN peak ELSE total

Incomplete ==
  \E p \in current_tree \cap Alive : readCpu[p] = None \/ readRss[p] = None

LimitedAfter(flag) == flag \/ Incomplete

(* History: the memory of the tree in a calm snapshot, if it fits an u64.  *)
Living(S) == {p \in S : state[p] = "R"}
Quiet(old, S) ==
  IF calm /\ Total(rss, S) <= MaxU64 /\ Total(rss, S) > old THEN Total(rss, S) ELSE old

Update ==
  /\ Walk
  /\ info' = [p \in Procs |-> IF p \in Found \cap Reached THEN Refreshed(p) ELSE info[p]]
  /\ limited' = LimitedAfter(limited)
  /\ peak' = PeakAfter(TreeMemory)
  /\ floor' = [p \in Procs |-> IF p \in Reached \cap Alive THEN atList[p] ELSE floor[p]]
  /\ quietTree' = Quiet(quietTree, current_tree)
  /\ quietLive' = IF current_tree \subseteq Alive THEN Quiet(quietLive, current_tree) ELSE quietLive
  /\ UNCHANGED <<counters, readings, atList, calm, hidden>>

(* Files and sockets: they only take time here.                            *)
Elsewhere ==
  /\ \E p \in Procs : Visit(p)
  /\ UNCHANGED <<counters, readings, results, history>>

Leave ==
  /\ EndObserve \/ TryWait
  /\ readCpu' = Nothing /\ readRss' = Nothing
  /\ atList' = Zero /\ calm' = FALSE
  /\ UNCHANGED <<counters, results, floor, quietLive, quietTree, hidden>>

Report ==
  /\ Render
  /\ limited' = (limited \/ ~process_snapshot_available)
  /\ UNCHANGED <<counters, readings, info, peak, history>>

(* print_resource_report: None is printed as "unavailable".                *)
aggregate_cpu_millis ==
  IF \/ Root \notin recorded
     \/ \E p \in recorded : info[p] = None
     \/ Total(info, recorded) > MaxU64
  THEN None ELSE Total(info, recorded) \div NanosPerMilli

PrintedCpu == IF limited THEN None ELSE aggregate_cpu_millis
PrintedPeak == IF limited THEN None ELSE peak

-----------------------------------------------------------------------------
RunLens ==
  \/ BeginSnapshot \/ ReadMemory \/ Update \/ Elsewhere \/ Leave \/ Report
  \/ \E p \in Procs : ReadCpu(p)

Next ==
  \/ stage # "done" /\ (Processes \/ \E p \in Procs : Compute(p) \/ Resize(p))
  \/ RunLens
  \/ stage = "done" /\ UNCHANGED vars

Spec == Init /\ [][Next]_vars

-----------------------------------------------------------------------------
(* Properties.                                                             *)

Nanos(ticks) == [p \in Procs |-> Exact(ticks[p])]

(* The CPU line is what the command and its recorded descendants have used,*)
(* no more, and no less than each had used when RunLens listed /proc for   *)
(* the last snapshot that saw it alive: readings are neither lost nor      *)
(* counted twice, whoever exits between two of them, and no sum wraps.     *)
CpuIsBracketed ==
  stage = "done" /\ PrintedCpu # None =>
    /\ Total(Nanos(floor), Procs) \div NanosPerMilli <= PrintedCpu
    /\ PrintedCpu <= Total(Nanos(cpu), Procs) \div NanosPerMilli

(* What the CPU line adds for a process is a count that it has really had, *)
(* between the listing of /proc for the last snapshot that saw it alive    *)
(* and now; a count left over from an earlier snapshot makes it limited.   *)
ReadingsAreBracketed ==
  ~limited => \A p \in recorded : info[p] # None =>
    \E ticks \in floor[p]..cpu[p] : info[p] = Exact(ticks)

(* src/README.md:75: "Unavailable measurements are labeled as unavailable  *)
(* or limited".  Once a snapshot found a process alive and linked to the   *)
(* command but could not read one of its counters - it may have exited     *)
(* since the first of its files was read, or its count may not fit -       *)
(* neither total is printed, however many complete snapshots follow.       *)
UnreadableIsLabelled ==
  hidden /\ stage = "done" => PrintedCpu = None /\ PrintedPeak = None

(* Memory that a tree without zombies held during a whole snapshot is in   *)
(* the peak, whatever the snapshots before and after it have read.         *)
PeakCoversLiveTrees == quietLive > 0 => peak # None /\ peak >= quietLive

(* src/README.md:8 and :75: the report has the "peak resident memory", and *)
(* labels what it lacks.  So a printed peak covers the memory that the tree*)
(* held during any whole snapshot, with zombies in the tree or without.    *)
PeakCoversTrees == PrintedPeak # None => PrintedPeak >= quietTree
=============================================================================
