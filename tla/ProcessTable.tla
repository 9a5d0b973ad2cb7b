---------------------------- MODULE ProcessTable ----------------------------
(***************************************************************************)
(* The kernel's process table, as far as RunLens can see it: pids that are *)
(* free, running or zombie, who their parent is, and which of them descend *)
(* from the wrapped command.  The kernel is not part of the repository: it *)
(* is modelled from what the code in src/ reads of it (pid, parent pid and *)
(* state of /proc/<pid>/stat, the pids of /proc) and from wait().          *)
(***************************************************************************)
EXTENDS Integers

CONSTANTS Pids,       \* the pids that the command or strangers may get
          Root,       \* the pid of the wrapped command, child.id()
          Outside,    \* any process beyond Pids: init, RunLens, the shell
          MaxLives,   \* bound: how often the kernel hands out one pid
          Platforms   \* "linux", "subreaper" (Linux, with a command that has
                      \* made itself a child subreaper by prctl), "macos"

ASSUME ProcessTableAssumption ==
  /\ Root \in Pids
  /\ Outside \notin Pids
  /\ MaxLives \in Nat \ {0}
  /\ Platforms \subseteq {"linux", "subreaper", "macos"}

VARIABLES table,    \* pid -> the process that has it, or had it last
          platform  \* where RunLens runs: fixed by Init

Process == [state : {"free", "R", "Z"}, parent : Pids \cup {Outside},
            life : 0..MaxLives, mine : BOOLEAN]

(* Which process a pid stands for.  "life" tells the successive owners of  *)
(* one pid apart; "mine" says whether that process is the command or one   *)
(* of its descendants.  Neither is visible to RunLens.                     *)
Who(p) == [life |-> p.life, mine |-> p.mine]
Nobody == [life |-> 0, mine |-> FALSE]

InUse(t) == {p \in Pids : t[p].state # "free"}

(* The processes that `present' links to Root through parent pids: the     *)
(* least set with Root in it that is closed under "my parent is in it".    *)
TreeOf(t, present) ==
  {p \in Pids : \A S \in SUBSET Pids :
     (Root \in S /\ \A c \in present : t[c].parent \in S => c \in S) => p \in S}

(* The table right after Command::spawn.                                   *)
Spawned == [p \in Pids |->
  [state |-> IF p = Root THEN "R" ELSE "free", parent |-> Outside,
   life |-> IF p = Root THEN 1 ELSE 0, mine |-> p = Root]]

Allocate(c, parent, mine) ==
  /\ table[c].state = "free"
  /\ table[c].life < MaxLives
  /\ table' = [table EXCEPT ![c] = [state |-> "R", parent |-> parent,
                                    life |-> table[c].life + 1, mine |-> mine]]

(* A running process forks; the child of a stranger is a stranger.         *)
Fork(p, c) == table[p].state = "R" /\ Allocate(c, p, table[p].mine)

(* A process that has nothing to do with the command appears.              *)
Arrive(c) == Allocate(c, Outside, FALSE)

(* Is pid Root still the command, a child that only RunLens can wait for?  *)
RootIsChild == table[Root].life = 1 /\ table[Root].state # "free"

(* Who inherits the children of p: a process outside, or the command if it *)
(* is a subreaper and still an ancestor of p.                              *)
Heir(p) ==
  IF /\ platform = "subreaper"
     /\ p \in TreeOf(table, InUse(table)) \ {Root} /\ table[Root].state = "R"
  THEN Root ELSE Outside

(* p exits: it stays as a zombie, its children are reparented at once.     *)
Exit(p) ==
  /\ table[p].state = "R"
  /\ table' = [q \in Pids |->
       IF q = p THEN [table[q] EXCEPT !.state = "Z"]
       ELSE IF table[q].parent = p THEN [table[q] EXCEPT !.parent = Heir(p)]
       ELSE table[q]]

Release(p) ==
  table' = [table EXCEPT ![p].state = "free", ![p].parent = Outside]

(* The parent of a zombie waits for it and its pid becomes free.  The      *)
(* command itself is RunLens's child: only try_wait reaps it.              *)
Reap(p) ==
  /\ table[p].state = "Z"
  /\ ~(p = Root /\ RootIsChild)
  /\ Release(p)

Kernel ==
  \/ \E p, c \in Pids : Fork(p, c)
  \/ \E c \in Pids : Arrive(c)
  \/ \E p \in Pids : Exit(p) \/ Reap(p)
=============================================================================
