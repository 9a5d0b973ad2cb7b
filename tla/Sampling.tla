------------------------------ MODULE Sampling ------------------------------
(***************************************************************************)
(* How RunLens samples the processes of the command: main's rounds, the    *)
(* snapshot that each of them reads entry by entry while the processes     *)
(* live on, and the processes that observe then takes for the tree.  The   *)
(* modules Resources, Filesystem and Network add what is read of each.     *)
(* Here a pid stands for one process only (module Observation is about     *)
(* pids with several owners), and the tree is as deep as it needs to be to *)
(* tell its members from the others: a process is linked to the command by *)
(* its chain of parents, or it no longer is.                               *)
(***************************************************************************)
EXTENDS Integers, FiniteSets

CONSTANTS Procs,        \* the command and the processes it may start
          Root,         \* the command
          ProcMayFail   \* may read_dir("/proc") fail?

ASSUME SamplingAssumption ==
  Root \in Procs /\ IsFiniteSet(Procs) /\ ProcMayFail \in BOOLEAN

VARIABLES
  state,      \* kernel: "unborn", "R", "Z" or "gone"
  linked,     \* kernel: the processes whose parents lead to Root
  round,      \* "running": observe(true), "final": observe(false), "report"
  stage,      \* where the thread is in that round
  todo,       \* the processes the current loop has yet to visit
  current,    \* the process that read_process_info is at, Root when none
  processes,  \* ProcessSnapshot.processes: the first fields of an entry
  unreadable_pids, \* ProcessSnapshot.unreadable_pids
  available,  \* ProcessSnapshot.available
  recorded    \* the keys of descendants, and Root when primary is set

kernel == <<state, linked>>
snapshot == <<processes, unreadable_pids, available>>
samplingVars == <<kernel, round, stage, todo, current, snapshot, recorded>>

NotRead == [state |-> "none", linked |-> FALSE]

SamplingTypeOK ==
  /\ state \in [Procs -> {"unborn", "R", "Z", "gone"}]
  /\ linked \subseteq Procs
  /\ round \in {"running", "final", "report"}
  /\ stage \in {"list", "stat", "rest", "update", "files", "wait", "done"}
  /\ todo \subseteq Procs /\ current \in Procs
  /\ processes \in [Procs -> [state : {"none", "R", "Z"}, linked : BOOLEAN]]
  /\ unreadable_pids \subseteq Procs /\ available \in BOOLEAN
  /\ recorded \subseteq Procs

SamplingInit ==
  /\ state = [p \in Procs |-> IF p = Root THEN "R" ELSE "unborn"]
  /\ linked = {Root}
  /\ round = "running" /\ stage = "list" /\ todo = {} /\ current = Root
  /\ processes = [p \in Procs |-> NotRead]
  /\ unreadable_pids = {} /\ available = TRUE
  /\ recorded = {}

-----------------------------------------------------------------------------
(* The kernel.                                                             *)

InTable == {p \in Procs : state[p] \in {"R", "Z"}}

Start(p) ==
  /\ state[p] = "unborn" /\ state[Root] = "R"
  /\ state' = [state EXCEPT ![p] = "R"]
  /\ linked' = linked \cup {p}

(* A process between p and the command exits.                              *)
Orphan(p) ==
  /\ p \in linked \ {Root}
  /\ linked' = linked \ {p}
  /\ UNCHANGED state

Exit(p) ==
  /\ state[p] = "R"
  /\ state' = [state EXCEPT ![p] = "Z"]
  /\ linked' = IF p = Root THEN {Root} ELSE linked

(* The parent of a zombie waits for it; for the command RunLens does.      *)
Reap(p) ==
  /\ p # Root /\ state[p] = "Z"
  /\ state' = [state EXCEPT ![p] = "gone"]
  /\ linked' = linked \ {p}

Kernel ==
  /\ \E p \in Procs : Start(p) \/ Orphan(p) \/ Exit(p) \/ Reap(p)
  /\ UNCHANGED <<round, stage, todo, current, snapshot, recorded>>

-----------------------------------------------------------------------------
(* current_processes: list /proc, then read one entry after another.       *)

Found == {p \in Procs : processes[p].state # "none"}
Alive == {p \in Procs : processes[p].state = "R"}
Reached == {Root} \cup {p \in Found : processes[p].linked}
current_tree == IF Root \in Found THEN Found \cap Reached ELSE {}

List ==
  /\ stage = "list"
  /\ \/ /\ available' = TRUE
        /\ todo' = InTable
        /\ stage' = IF InTable = {} THEN "update" ELSE "stat"
     \/ /\ ProcMayFail
        /\ available' = FALSE
        /\ todo' = {}
        /\ stage' = "update"
  /\ processes' = [p \in Procs |-> NotRead]
  /\ unreadable_pids' = {}
  /\ UNCHANGED <<kernel, round, current, recorded>>

AfterEntry(p) == IF todo = {p} THEN "update" ELSE "stat"

(* read_process_info: /proc/<pid>/stat has the state and the parent.       *)
ReadStat(p) ==
  /\ stage = "stat" /\ p \in todo
  /\ IF p \in InTable
     THEN /\ processes' = [processes EXCEPT ![p] =
               [state |-> state[p], linked |-> p \in linked]]
          /\ current' = p /\ stage' = "rest"
          /\ UNCHANGED <<todo, unreadable_pids>>
     ELSE /\ unreadable_pids' = unreadable_pids \cup {p}
          /\ todo' = todo \ {p} /\ stage' = AfterEntry(p)
          /\ UNCHANGED <<processes, current>>
  /\ UNCHANGED <<kernel, round, available, recorded>>

(* ... and other files the rest: the process may have changed in between.  *)
ReadRest ==
  /\ stage = "rest"
  /\ todo' = todo \ {current} /\ stage' = AfterEntry(current)
  /\ current' = Root
  /\ UNCHANGED <<kernel, round, snapshot, recorded>>

-----------------------------------------------------------------------------
(* observe and main around it.                                             *)

(* The walk of observe: who is recorded from now on.                       *)
Walk ==
  /\ stage = "update" /\ round # "report"
  /\ recorded' = recorded \cup (Found \cap Reached)
  /\ todo' = current_tree
  /\ stage' = "files"
  /\ UNCHANGED <<kernel, round, current, snapshot>>

(* One round of the loop over current_tree.                                *)
Visit(p) ==
  /\ stage = "files" /\ p \in todo
  /\ todo' = todo \ {p}
  /\ UNCHANGED <<kernel, round, stage, current, snapshot, recorded>>

EndObserve ==
  /\ stage = "files" /\ todo = {} /\ round # "report"
  /\ stage' = IF round = "running" THEN "wait" ELSE "list"
  /\ round' = IF round = "running" THEN "running" ELSE "report"
  /\ processes' = [p \in Procs |-> NotRead]
  /\ unreadable_pids' = {} /\ available' = TRUE
  /\ UNCHANGED <<kernel, todo, current, recorded>>

TryWait ==
  /\ stage = "wait" /\ state[Root] \in {"R", "Z"}
  /\ IF state[Root] = "Z"
     THEN state' = [state EXCEPT ![Root] = "gone"] /\ round' = "final"
     ELSE UNCHANGED <<state, round>>
  /\ stage' = "list"
  /\ UNCHANGED <<linked, todo, current, snapshot, recorded>>

(* print_report, with the snapshot it has taken for itself.                *)
process_snapshot_available ==
  available /\ unreadable_pids \cap (recorded \cup {Root}) = {} /\ Root \in recorded

Render ==
  /\ stage = "update" /\ round = "report"
  /\ stage' = "done"
  /\ UNCHANGED <<kernel, round, todo, current, snapshot, recorded>>
=============================================================================
