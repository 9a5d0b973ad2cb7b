----------------------------- MODULE Observation -----------------------------
(***************************************************************************)
(* ProcessObservation (src/src/observation.rs), driven by the wait loop of *)
(* main, on both of its backends (src/src/platform.rs, platform/macos.rs): *)
(* which processes it takes for the command's, whose data it records under *)
(* which pid, and which survivors it reports.  Every datum is abstracted to*)
(* the process it came from.  The counters behind these data (CPU, memory, *)
(* I/O bytes), and what is then read of the live processes (descriptors,   *)
(* sockets), are in their own modules: here those reads only take time.    *)
(* RunLens is one thread, but the kernel moves between any two of its      *)
(* system calls: a snapshot is not a moment in time.                       *)
(***************************************************************************)
EXTENDS ProcessTable

CONSTANT ProcMayFail   \* may read_dir("/proc"), or a call of libproc, fail?
ASSUME ObservationAssumption == ProcMayFail \in BOOLEAN

VARIABLES
  round,           \* "running": observe(true), "final": observe(false), "report"
  stage,           \* where the thread is in that round
  todo,            \* the pids the current loop has yet to visit: entries, pending
  seen,            \* the set of this name, in macOS's process_snapshot and in observe
  at,              \* macOS: the pid that process_snapshot is at, Root when none
  processes,       \* ProcessSnapshot.processes
  unreadable_pids, \* ProcessSnapshot.unreadable_pids
  available,       \* ProcessSnapshot.available
  observed,        \* pid -> its ObservedProcess: primary is observed[Root]
  limited,         \* limitations.process
  listed,          \* history: the tree when /proc was last listed
  recycled         \* history: did a pid in use by RunLens change hands?

snapshot == <<processes, unreadable_pids, available>>
recorded == <<observed, limited>>
vars == <<table, platform, round, stage, todo, seen, at, snapshot, recorded,
          listed, recycled>>

Info == [state : {"none", "R", "Z"}, parent : Pids \cup {Outside},
         who : [life : 0..MaxLives, mine : BOOLEAN]]
NoInfo == [state |-> "none", parent |-> Outside, who |-> Nobody]

ObservedProcess == [first : [life : 0..MaxLives, mine : BOOLEAN],
                    last : [life : 0..MaxLives, mine : BOOLEAN]]
NoRecord == [first |-> Nobody, last |-> Nobody]

Found == {p \in Pids : processes[p].state # "none"}
Alive == {p \in Pids : processes[p].state = "R"}
descendants == {p \in Pids \ {Root} : observed[p] # NoRecord}

TypeOK ==
  /\ table \in [Pids -> Process] /\ platform \in Platforms
  /\ round \in {"running", "final", "report"}
  /\ stage \in {"list", "read", "probe", "children", "update", "walk", "files",
               "wait", "print", "done"}
  /\ todo \subseteq Pids /\ seen \subseteq Pids /\ at \in Pids
  /\ processes \in [Pids -> Info]
  /\ unreadable_pids \subseteq Pids
  /\ available \in BOOLEAN
  /\ observed \in [Pids -> ObservedProcess]
  /\ limited \in BOOLEAN
  /\ listed \subseteq Pids
  /\ recycled \in BOOLEAN

EmptySnapshot ==
  /\ processes' = [p \in Pids |-> NoInfo]
  /\ unreadable_pids' = {}

(* main has spawned the command and enters the first observe(true).        *)
Init ==
  /\ table = Spawned /\ platform \in Platforms
  /\ round = "running" /\ stage = "list" /\ todo = {} /\ seen = {} /\ at = Root
  /\ processes = [p \in Pids |-> NoInfo]
  /\ unreadable_pids = {} /\ available = TRUE
  /\ observed = [p \in Pids |-> NoRecord]
  /\ limited = FALSE
  /\ listed = {} /\ recycled = FALSE

-----------------------------------------------------------------------------
(* process_snapshot on Linux: list /proc, then read the entries one after  *)
(* another.                                                                *)

ListStrays == \* mutant: an entry of /proc that is no pid is kept
  /\ stage = "list" /\ platform # "macos"
  /\ todo' = InUse(table) \cup {Outside}
  /\ stage' = "read"
  /\ available' = TRUE
  /\ EmptySnapshot
  /\ listed' = TreeOf(table, InUse(table))
  /\ UNCHANGED <<table, round, seen, at, recorded>>

(* Where a loop over the pids of a snapshot goes next.                     *)
Rest(pids) == IF pids = {} THEN "update" ELSE "read"

List ==
  /\ stage = "list" /\ platform # "macos"
  /\ todo' = InUse(table)
  /\ stage' = Rest(todo')
  /\ available' = TRUE
  /\ EmptySnapshot
  /\ listed' = TreeOf(table, InUse(table))
  /\ UNCHANGED <<table, round, seen, at, recorded>>

ListFails ==
  /\ ProcMayFail
  /\ stage = "list" /\ platform # "macos"
  /\ stage' = "update"
  /\ available' = FALSE
  /\ EmptySnapshot
  /\ UNCHANGED <<table, round, todo, seen, at, recorded, listed>>

Entry(p) == [state |-> table[p].state, parent |-> table[p].parent, who |-> Who(table[p])]

(* read_process_info: an entry that is gone by now is an unreadable pid.   *)
Read(p) ==
  /\ stage = "read" /\ platform # "macos"
  /\ p \in todo
  /\ IF table[p].state = "free"
     THEN unreadable_pids' = unreadable_pids \cup {p} /\ UNCHANGED processes
     ELSE processes' = [processes EXCEPT ![p] = Entry(p)] /\ UNCHANGED unreadable_pids
  /\ todo' = todo \ {p}
  /\ stage' = Rest(todo')
  /\ UNCHANGED <<table, round, seen, at, available, recorded, listed>>

-----------------------------------------------------------------------------
(* process_snapshot on macOS: from the pids known so far to their children *)
(* and on, with one call for a process and another one for its children.   *)

NoKnownPids == {}   \* mutant: the walk starts from the root pid alone
known_pids == descendants

Begin ==
  /\ stage = "list" /\ platform = "macos"
  /\ todo' = {Root} \cup known_pids /\ seen' = {}
  /\ stage' = "read"
  /\ available' = TRUE
  /\ EmptySnapshot
  /\ listed' = TreeOf(table, InUse(table))
  /\ UNCHANGED <<table, round, at, recorded>>

(* One pid is popped.  A child that has been reparented since its parent's *)
(* children were listed is dropped; libproc may or may not have a zombie.  *)
Inspect(p) ==
  /\ stage = "read" /\ platform = "macos"
  /\ p \in todo
  /\ seen' = seen \cup {p}
  /\ \/ /\ table[p].state # "R" \/ ProcMayFail
        /\ stage' = "probe" /\ at' = p
        /\ todo' = todo \ {p}
        /\ UNCHANGED processes
     \/ /\ table[p].state # "free"
        /\ p \in known_pids \cup {Root} \/ table[p].parent \in seen'
        /\ processes' = [processes EXCEPT ![p] = Entry(p)]
        /\ stage' = "children" /\ at' = p
        /\ todo' = todo \ {p}
     \/ /\ table[p].state # "free"
        /\ p \notin known_pids \cup {Root} /\ table[p].parent \notin seen'
        /\ todo' = todo \ {p}
        /\ stage' = Rest(todo')
        /\ UNCHANGED <<processes, at>>
  /\ UNCHANGED <<table, round, unreadable_pids, available, recorded, listed>>

(* pids_by_type: a pid that has been popped before is skipped when its turn*)
(* comes again.                                                            *)
ListChildren ==
  /\ stage = "children"
  /\ \/ /\ todo' = todo \cup ({c \in InUse(table) : table[c].parent = at} \ seen)
        /\ stage' = Rest(todo') /\ at' = Root
     \/ /\ ProcMayFail
        /\ stage' = "probe"
        /\ UNCHANGED <<todo, at>>
  /\ UNCHANGED <<table, round, seen, snapshot, recorded, listed>>

(* process_still_exists, for a zombie as well: a call failed that need not *)
(* have, unless the process is gone.                                       *)
Probe ==
  /\ stage = "probe"
  /\ unreadable_pids' = IF table[at].state = "free" THEN unreadable_pids
                        ELSE unreadable_pids \cup {at}
  /\ stage' = Rest(todo) /\ at' = Root
  /\ UNCHANGED <<table, round, todo, seen, processes, available, recorded,
                 listed>>

-----------------------------------------------------------------------------
(* observe, once it has its snapshot.                                      *)

(* ObservedProcess::update, or the record of a process seen first.         *)
Refreshed(p) ==
  IF observed[p] = NoRecord
  THEN [first |-> processes[p].who, last |-> processes[p].who]
  ELSE [observed[p] EXCEPT !.last = processes[p].who]

Refresh(pids) ==
  observed' = [p \in Pids |-> IF p \in pids THEN Refreshed(p) ELSE observed[p]]

BeginWalk ==
  /\ stage = "update" /\ round # "report"
  /\ limited' = \/ limited \/ ~available \/ unreadable_pids # {}
                \/ round = "running" /\ Root \notin Found
  /\ Refresh({Root} \cap Found)
  /\ todo' = {Root} /\ seen' = {Root}
  /\ stage' = "walk"
  /\ UNCHANGED <<table, round, at, snapshot, listed>>

(* Mutants of Children: the walk with a plausible bug, for the properties  *)
(* below to find.  No specification uses them, nor the other mutants.      *)
ChildrenOfKnown(p) == {c \in Found : processes[c].parent \in {p} \cup descendants} \ seen
ChildrenOfRoot(p) == {c \in Found : p = Root /\ processes[c].parent = p} \ seen
ChildrenAgain(p) == {c \in Found : processes[c].parent = p}

(* The children that the snapshot has for p, and that `seen' has not.      *)
Children(p) == {c \in Found : processes[c].parent = p} \ seen

(* One parent is popped off the stack.  The order, which depends on that   *)
(* of a hash map, is left open.                                            *)
Walk(p) ==
  /\ stage = "walk"
  /\ p \in todo
  /\ todo' = (todo \ {p}) \cup Children(p)
  /\ seen' = seen \cup Children(p)
  /\ Refresh(Children(p))
  /\ UNCHANGED <<table, round, stage, at, snapshot, limited, listed>>

(* The tree is complete; the files and sockets of its processes are read.  *)
EndWalk ==
  /\ stage = "walk" /\ todo = {}
  /\ stage' = "files"
  /\ seen' = {}
  /\ UNCHANGED <<table, round, todo, at, snapshot, recorded, listed>>

(* observe returns: its locals are gone.                                   *)
EndObserve ==
  /\ stage = "files"
  /\ stage' = IF round = "running" THEN "wait" ELSE "list"
  /\ round' = IF round = "running" THEN "running" ELSE "report"
  /\ EmptySnapshot
  /\ available' = TRUE
  /\ listed' = {} /\ seen' = {}
  /\ UNCHANGED <<table, todo, at, recorded>>

-----------------------------------------------------------------------------
(* The loop of main.                                                       *)

(* try_wait gives a status: the command's pid is free from here on, and    *)
(* observe(false) and the report still use it.                             *)
TryWaitReaps ==
  /\ stage = "wait"
  /\ table[Root].state = "Z"
  /\ Release(Root)
  /\ round' = "final" /\ stage' = "list"
  /\ UNCHANGED <<todo, seen, at, snapshot, recorded, listed>>

TryWaitNone ==
  /\ stage = "wait"
  /\ table[Root].state = "R"
  /\ stage' = "list"
  /\ UNCHANGED <<table, round, todo, seen, at, snapshot, recorded, listed>>

-----------------------------------------------------------------------------
(* print_report, once it has its snapshot.                                 *)

known_process_unreadable == unreadable_pids \cap (descendants \cup {Root}) # {}

(* When FALSE, counts and survivors are printed as "unavailable".          *)
process_snapshot_available ==
  available /\ ~known_process_unreadable /\ observed[Root] # NoRecord

survivors == descendants \cap Alive

BeginReport ==
  /\ stage = "update" /\ round = "report"
  /\ limited' = (limited \/ ~process_snapshot_available)
  /\ stage' = "print"
  /\ seen' = {}
  /\ UNCHANGED <<table, round, todo, at, snapshot, observed, listed>>

(* The report is printed from the snapshot, which stays as it is.          *)
PrintReport ==
  /\ stage = "print"
  /\ stage' = "done"
  /\ UNCHANGED <<table, round, todo, seen, at, snapshot, recorded, listed>>

-----------------------------------------------------------------------------
(* The pids that a snapshot in progress has an entry of, or names as a     *)
(* parent.  RunLens knows them, and the root pid at all times, by number.  *)
Watched ==
  IF stage \in {"read", "probe", "children"}
  THEN Found \cup {processes[c].parent : c \in Found}
  ELSE {}

(* A pid that was the command's goes to a stranger, or the reverse, between*)
(* two system calls that take it for one process.                          *)
ChangesHands ==
  \E c \in Pids \cap ({Root} \cup Watched) : table'[c].mine # table[c].mine

(* The walk makes no system call: a step of the kernel during it might as  *)
(* well come before or after it.                                           *)
KernelStep ==
  /\ stage \notin {"walk", "done"}
  /\ Kernel
  /\ recycled' = (recycled \/ ChangesHands)
  /\ UNCHANGED <<platform, round, stage, todo, seen, at, snapshot, recorded, listed>>

RunLens ==
  /\ UNCHANGED <<platform, recycled>>
  /\ \/ List \/ ListFails \/ Begin \/ ListChildren \/ Probe
     \/ \E p \in Pids : Read(p) \/ Inspect(p) \/ Walk(p)
     \/ BeginWalk \/ EndWalk \/ EndObserve
     \/ TryWaitReaps \/ TryWaitNone
     \/ BeginReport \/ PrintReport

Finished == stage = "done" /\ UNCHANGED vars

Next == KernelStep \/ RunLens \/ Finished

(* RunLens keeps running; nothing obliges the command to exit.             *)
Spec == Init /\ [][Next]_vars /\ WF_vars(RunLens)

-----------------------------------------------------------------------------
(* Properties.                                                             *)

(* src/README.md:3: RunLens "observes a command and its descendants".      *)
(* Whatever observe files under a pid was read of a process of the command,*)
(* although a snapshot is no moment in time, children are reparented while *)
(* it is taken, and pids go to strangers and come back.  It cannot hold    *)
(* once a pid changes hands that the snapshot in progress relies on, or the*)
(* root pid, which observe(false) and the report use after it is reaped.   *)
RecordsAreOfTheCommand ==
  ~recycled => \A p \in Pids : observed[p] # NoRecord =>
    observed[p].first.mine /\ observed[p].last.mine

(* Each survivor the report and its findings name is the very process that *)
(* was recorded under that pid, and belongs to the command.                *)
SurvivorsAreOurs ==
  stage = "done" => \A p \in survivors :
    observed[p].first.mine /\ processes[p].who = observed[p].first

(* A recorded descendant that still runs when the report is out is among   *)
(* the survivors, unless the report says that they are unavailable.        *)
NoKnownSurvivorLost ==
  stage = "done" /\ process_snapshot_available =>
    \A p \in descendants :
      table[p].state = "R" /\ Who(table[p]) = observed[p].first => p \in survivors

(* One observe sees every process that was in the tree when it listed /proc*)
(* and is still in it once the walk is over, although parents exit and     *)
(* children are reparented meanwhile, or else it calls its data incomplete.*)
SteadyTreeIsSeen ==
  stage = "files" /\ round = "running" /\ available /\ unreadable_pids = {} =>
    (listed \cap TreeOf(table, InUse(table))) \ {Root} \subseteq descendants

(* The work list of observe finds the tree of its snapshot, no more and no *)
(* less: a snapshot pieced together over time may have cycles in it, and   *)
(* parents that it does not have.                                          *)
WalkFindsTheTree ==
  stage = "walk" /\ todo = {} => seen = TreeOf(processes, Found)

(* Once the command has exited its report is printed, whatever the         *)
(* descendants that outlive it do meanwhile.                               *)
ReportEventually == RootIsChild /\ table[Root].state = "Z" ~> stage = "done"

(* src/README.md:9: the report includes the "process tree and surviving    *)
(* descendants".  So a child that the snapshot shows under a descendant    *)
(* already recorded becomes a descendant too.                              *)
KnownAreFollowed ==
  stage = "files" /\ round = "running" =>
    \A c \in Found \ {Root} : processes[c].parent \in descendants => c \in descendants
=============================================================================
