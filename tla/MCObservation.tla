---------------------------- MODULE MCObservation ----------------------------
(* Instances of Observation for TLC.  Pids other than Root are             *)
(* interchangeable.                                                        *)
EXTENDS Observation, FiniteSets, TLC

CONSTANT LastPid   \* the pid of Pids that is first given out last, if any

Others == Permutations(Pids \ {Root})

(* A bound: at most three of four pids are ever used on macOS, where a     *)
(* snapshot takes several system calls a process.                          *)
ThreeOnMacOS ==
  platform = "macos" => Cardinality({p \in Pids : table[p].life > 0}) <= 3

(* A bound where pids are used again: two of the pids, each as often as it *)
(* may, or three processes in all, and four on Linux as long as the root   *)
(* pid is the command's.  LastPid breaks the symmetry by hand, where a     *)
(* liveness property forbids SYMMETRY.                                     *)
FewLives ==
  LET used == {p \in Pids : table[p].life > 0}
      lives == Cardinality({<<p, n>> \in Pids \X (1..MaxLives) : table[p].life >= n}) IN
  /\ \/ Cardinality(used) <= 2
     \/ lives <= IF platform = "linux" /\ table[Root].life = 1 THEN 4 ELSE 3
  /\ LastPid \in used => used = Pids
=============================================================================
