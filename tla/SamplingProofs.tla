--------------------------- MODULE SamplingProofs ---------------------------
(***************************************************************************)
(* What every module that extends Sampling needs to know of its actions:   *)
(* they keep the types, for any set of processes.                          *)
(***************************************************************************)
EXTENDS Sampling, TLAPS

LEMMA SamplingStarts == SamplingInit => SamplingTypeOK
  BY SamplingAssumption DEF SamplingInit, SamplingTypeOK, NotRead

LEMMA TreesAreProcesses ==
  /\ Found \subseteq Procs /\ Alive \subseteq Procs /\ Reached \subseteq Procs
  /\ InTable \subseteq Procs /\ current_tree \subseteq Procs
  BY SamplingAssumption DEF Found, Alive, Reached, InTable, current_tree

LEMMA KernelKeepsTypes == SamplingTypeOK /\ Kernel => SamplingTypeOK'
<1> SUFFICES ASSUME SamplingTypeOK, Kernel PROVE SamplingTypeOK'
  OBVIOUS
<1> USE SamplingAssumption DEF SamplingTypeOK, snapshot
<1>1. UNCHANGED <<round, stage, todo, current, snapshot, recorded>>
  BY DEF Kernel
<1>2. /\ state' \in [Procs -> {"unborn", "R", "Z", "gone"}]
      /\ linked' \subseteq Procs
  <2>1. PICK p \in Procs : Start(p) \/ Orphan(p) \/ Exit(p) \/ Reap(p)
    BY DEF Kernel
  <2>2. CASE Start(p)
    BY <2>2 DEF Start
  <2>3. CASE Orphan(p)
    BY <2>3 DEF Orphan
  <2>4. CASE Exit(p)
    BY <2>4 DEF Exit
  <2>5. CASE Reap(p)
    BY <2>5 DEF Reap
  <2> QED BY <2>1, <2>2, <2>3, <2>4, <2>5
<1> QED BY <1>1, <1>2

LEMMA SnapshotKeepsTypes ==
  SamplingTypeOK /\ (List \/ ReadRest \/ \E p \in Procs : ReadStat(p)) => SamplingTypeOK'
<1> SUFFICES ASSUME SamplingTypeOK, List \/ ReadRest \/ \E p \in Procs : ReadStat(p)
             PROVE  SamplingTypeOK'
  OBVIOUS
<1> USE SamplingAssumption, TreesAreProcesses
    DEF SamplingTypeOK, kernel, snapshot, NotRead, AfterEntry
<1>1. CASE List
  BY <1>1 DEF List
<1>2. CASE ReadRest
  BY <1>2 DEF ReadRest
<1>3. ASSUME NEW p \in Procs, ReadStat(p) PROVE SamplingTypeOK'
  <2>1. CASE p \in InTable
    <3>1. [state |-> state[p], linked |-> p \in linked]
            \in [state : {"none", "R", "Z"}, linked : BOOLEAN]
      BY <2>1 DEF InTable
    <3>2. processes' = [processes EXCEPT ![p] = [state |-> state[p], linked |-> p \in linked]]
      BY <1>3, <2>1 DEF ReadStat
    <3>3. processes' \in [Procs -> [state : {"none", "R", "Z"}, linked : BOOLEAN]]
      BY <3>1, <3>2
    <3> QED BY <1>3, <2>1, <3>3 DEF ReadStat
  <2>2. CASE p \notin InTable
    BY <1>3, <2>2 DEF ReadStat
  <2> QED BY <2>1, <2>2
<1> QED BY <1>1, <1>2, <1>3

LEMMA ObserveKeepsTypes ==
  SamplingTypeOK /\ (Walk \/ EndObserve \/ TryWait \/ Render \/ \E p \in Procs : Visit(p))
    => SamplingTypeOK'
<1> SUFFICES ASSUME SamplingTypeOK,
                    Walk \/ EndObserve \/ TryWait \/ Render \/ \E p \in Procs : Visit(p)
             PROVE  SamplingTypeOK'
  OBVIOUS
<1> USE SamplingAssumption, TreesAreProcesses DEF SamplingTypeOK, kernel, snapshot, NotRead
<1>1. CASE Walk
  BY <1>1 DEF Walk
<1>2. CASE EndObserve
  BY <1>2 DEF EndObserve
<1>3. CASE TryWait
  BY <1>3 DEF TryWait
<1>4. CASE Render
  BY <1>4 DEF Render
<1>5. ASSUME NEW p \in Procs, Visit(p) PROVE SamplingTypeOK'
  BY <1>5 DEF Visit
<1> QED BY <1>1, <1>2, <1>3, <1>4, <1>5

LEMMA StandingKeepsTypes == SamplingTypeOK /\ UNCHANGED samplingVars => SamplingTypeOK'
  BY DEF SamplingTypeOK, samplingVars, kernel, snapshot
=============================================================================
