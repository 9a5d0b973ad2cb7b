-------------------------- MODULE ObservationProofs --------------------------
(***************************************************************************)
(* Proofs about Observation for any set of pids, any process table and any *)
(* interleaving of the kernel with the samples.                            *)
(***************************************************************************)
EXTENDS Observation, TLAPS

-----------------------------------------------------------------------------
(* Type correctness.                                                       *)

Identity == [life : 0..MaxLives, mine : BOOLEAN]

LEMMA KernelKeepsTypes ==
  ASSUME table \in [Pids -> Process], Kernel \/ Release(Root)
  PROVE  table' \in [Pids -> Process]
<1> USE ProcessTableAssumption DEF Process
<1>1. ASSUME NEW c \in Pids, NEW parent \in Pids \cup {Outside}, NEW mine \in BOOLEAN,
             Allocate(c, parent, mine)
      PROVE  table' \in [Pids -> Process]
  BY <1>1 DEF Allocate
<1>2. ASSUME NEW p \in Pids, NEW c \in Pids, Fork(p, c) PROVE table' \in [Pids -> Process]
  BY <1>1, <1>2 DEF Fork
<1>3. ASSUME NEW c \in Pids, Arrive(c) PROVE table' \in [Pids -> Process]
  BY <1>1, <1>3 DEF Arrive
<1>4. ASSUME NEW p \in Pids, Exit(p) PROVE table' \in [Pids -> Process]
  <2>1. Heir(p) \in Pids \cup {Outside}
    BY DEF Heir
  <2> QED BY <1>4, <2>1 DEF Exit
<1>5. ASSUME NEW p \in Pids, Release(p) PROVE table' \in [Pids -> Process]
  BY <1>5 DEF Release
<1> QED
  BY <1>2, <1>3, <1>4, <1>5 DEF Kernel, Reap

LEMMA SetsOfPids ==
  /\ Alive \subseteq Pids /\ survivors \subseteq Pids
  /\ \A p \in Pids : Children(p) \subseteq Pids
  /\ \A t : InUse(t) \subseteq Pids
  /\ \A t, present : TreeOf(t, present) \subseteq Pids
  BY DEF TreeOf, Alive, survivors, InUse, Children, Found

LEMMA Refreshing ==
  ASSUME TypeOK, NEW pids \in SUBSET Pids, Refresh(pids)
  PROVE  observed' \in [Pids -> ObservedProcess]
<1>1. \A p \in Pids : processes[p].who \in Identity
  BY DEF TypeOK, Info, Identity
<1>2. observed \in [Pids -> ObservedProcess]
  BY DEF TypeOK
<1>3. ASSUME NEW p \in Pids PROVE Refreshed(p) \in ObservedProcess
  <2>1. observed[p] \in ObservedProcess /\ processes[p].who \in Identity
    BY <1>1, <1>2
  <2> QED BY <2>1 DEF Refreshed, ObservedProcess, Identity
<1> QED BY <1>2, <1>3 DEF Refresh

LEMMA TypeStep == TypeOK /\ [Next]_vars => TypeOK'
<1> SUFFICES ASSUME TypeOK, [Next]_vars PROVE TypeOK'
  OBVIOUS
<1> USE DEF TypeOK, snapshot, recorded
<1>1. NoInfo \in Info /\ Nobody \in Identity
  BY ProcessTableAssumption DEF NoInfo, Info, Nobody, Identity
<1>2. /\ UNCHANGED platform /\ recycled' \in BOOLEAN
      /\ \A pids : Rest(pids) \in {"read", "update"}
      /\ Root \in Pids
  BY ProcessTableAssumption DEF Rest, Next, KernelStep, ChangesHands, RunLens, Finished, vars
<1>3. CASE KernelStep
  BY <1>2, <1>3, KernelKeepsTypes DEF KernelStep
<1>4. CASE List
  BY <1>1, <1>2, <1>4, SetsOfPids DEF List, EmptySnapshot
<1>5. CASE ListFails
  BY <1>1, <1>2, <1>5 DEF ListFails, EmptySnapshot
<1>6. ASSUME NEW p \in Pids, table[p].state # "free",
             processes' = [processes EXCEPT ![p] = Entry(p)]
      PROVE  processes' \in [Pids -> Info]
  BY <1>6 DEF Entry, Who, Info, Process
<1>7. ASSUME NEW p \in Pids, Read(p) PROVE TypeOK'
  BY <1>2, <1>6, <1>7 DEF Read
<1>8. CASE Begin
  BY <1>1, <1>2, <1>8, SetsOfPids DEF Begin, EmptySnapshot, known_pids, descendants
<1>9. ASSUME NEW p \in Pids, Inspect(p) PROVE TypeOK'
  <2>1. processes' \in [Pids -> Info]
    BY <1>6, <1>9 DEF Inspect
  <2>2. todo' \subseteq Pids /\ seen' \subseteq Pids /\ at' \in Pids
        /\ stage' \in {"probe", "children", "read", "update"}
    BY <1>2, <1>9 DEF Inspect
  <2> QED BY <1>2, <1>9, <2>1, <2>2 DEF Inspect
<1>10. CASE ListChildren
  BY <1>2, <1>10, SetsOfPids DEF ListChildren
<1>11. CASE Probe
  BY <1>2, <1>11 DEF Probe
<1>12. CASE BeginWalk
  <2>1. observed' \in [Pids -> ObservedProcess]
    BY <1>2, <1>12, Refreshing DEF BeginWalk
  <2> QED BY <1>2, <1>12, <2>1 DEF BeginWalk
<1>13. ASSUME NEW p \in Pids, Walk(p) PROVE TypeOK'
  <2>1. observed' \in [Pids -> ObservedProcess]
    BY <1>13, Refreshing, SetsOfPids DEF Walk
  <2> QED BY <1>2, <1>13, <2>1, SetsOfPids DEF Walk
<1>14. CASE EndWalk
  BY <1>2, <1>14, SetsOfPids DEF EndWalk
<1>18. CASE EndObserve
  BY <1>1, <1>2, <1>18 DEF EndObserve, EmptySnapshot
<1>19. CASE TryWaitReaps
  <2>1. table' \in [Pids -> Process]
    BY <1>19, KernelKeepsTypes DEF TryWaitReaps
  <2> QED BY <1>2, <1>19, <2>1 DEF TryWaitReaps
<1>20. CASE TryWaitNone
  BY <1>2, <1>20 DEF TryWaitNone
<1>21. CASE BeginReport
  BY <1>2, <1>21, SetsOfPids DEF BeginReport
<1>22. CASE PrintReport
  BY <1>2, <1>22 DEF PrintReport
<1>23. CASE UNCHANGED vars
  BY <1>23 DEF vars
<1> QED
  BY <1>3, <1>4, <1>5, <1>7, <1>8, <1>9, <1>10, <1>11, <1>12, <1>13, <1>14,
     <1>18, <1>19, <1>20, <1>21, <1>22, <1>23 DEF Next, RunLens, Finished

(* TypeOK holds in every reachable state.                                  *)
THEOREM TypeCorrect == Spec => []TypeOK
<1>1. Spawned \in [Pids -> Process]
  BY ProcessTableAssumption DEF Spawned, Process
<1>2. NoInfo \in Info /\ NoRecord \in ObservedProcess
  BY ProcessTableAssumption DEF NoInfo, Info, NoRecord, ObservedProcess, Nobody
<1>3. Init => TypeOK
  BY <1>1, <1>2, ProcessTableAssumption DEF Init, TypeOK
<1> QED
  BY <1>3, TypeStep, PTL DEF Spec

-----------------------------------------------------------------------------
(* The walk over the snapshot computes the least set that holds the root   *)
(* pid and is closed under parent links, for any snapshot whatever.        *)

LEMMA TreeIsLeast ==
  ASSUME NEW t, NEW present, NEW S \in SUBSET Pids, Root \in S,
         \A c \in present : t[c].parent \in S => c \in S
  PROVE  TreeOf(t, present) \subseteq S
  BY DEF TreeOf

LEMMA TreeIsClosed ==
  ASSUME NEW t, NEW present \in SUBSET Pids
  PROVE  /\ Root \in TreeOf(t, present)
         /\ \A c \in present : t[c].parent \in TreeOf(t, present) => c \in TreeOf(t, present)
  BY ProcessTableAssumption DEF TreeOf

(* What is on the stack has been seen, what has been seen is in the tree,  *)
(* and the children of whatever has been popped have been seen.            *)
WalkInv ==
  stage = "walk" =>
    /\ Root \in seen /\ todo \subseteq seen
    /\ seen \subseteq TreeOf(processes, Found)
    /\ \A c \in Found : processes[c].parent \in seen => processes[c].parent \in todo \/ c \in seen

LEMMA WalkStep == TypeOK /\ WalkInv /\ [Next]_vars => WalkInv'
<1> SUFFICES ASSUME TypeOK, WalkInv, [Next]_vars, stage' = "walk" PROVE WalkInv'
  BY DEF WalkInv
<1> USE DEF snapshot, recorded
<1>1. Found \in SUBSET Pids
  BY DEF Found
<1>2. CASE BeginWalk
  <2>1. todo' = {Root} /\ seen' = {Root} /\ UNCHANGED processes /\ Found' = Found
    BY <1>2 DEF BeginWalk, Found
  <2>2. Root \in TreeOf(processes, Found)
    BY <1>1, TreeIsClosed
  <2> QED BY <2>1, <2>2 DEF WalkInv
<1>3. ASSUME NEW p \in Pids, Walk(p) PROVE WalkInv'
  <2>1. /\ stage = "walk" /\ p \in todo
        /\ todo' = (todo \ {p}) \cup Children(p) /\ seen' = seen \cup Children(p)
        /\ UNCHANGED processes /\ Found' = Found
    BY <1>3 DEF Walk, Found
  <2>2. \A c \in Found : processes[c].parent \in TreeOf(processes, Found)
                           => c \in TreeOf(processes, Found)
    BY <1>1, TreeIsClosed
  <2>3. seen' \subseteq TreeOf(processes, Found)
    BY <2>1, <2>2 DEF WalkInv, Children
  <2>4. ASSUME NEW c \in Found, processes[c].parent \in seen'
        PROVE  processes[c].parent \in todo' \/ c \in seen'
    BY <2>1, <2>4 DEF WalkInv, Children
  <2> QED BY <2>1, <2>3, <2>4 DEF WalkInv
<1>4. CASE UNCHANGED vars
  BY <1>4 DEF vars, WalkInv, Found
<1> QED
  BY <1>2, <1>3, <1>4 DEF Next, KernelStep, RunLens, Finished, List, ListFails, Read, Begin,
     Inspect, ListChildren, Probe, EndWalk, EndObserve,
     TryWaitReaps, TryWaitNone, BeginReport, PrintReport, Rest

LEMMA WalkInvariant == Spec => [](TypeOK /\ WalkInv)
<1>1. Init => WalkInv
  BY DEF Init, WalkInv
<1> QED
  BY <1>1, WalkStep, TypeCorrect, PTL DEF Spec

(* The work list stops with the tree of the snapshot.                      *)
THEOREM TreeWalk == Spec => []WalkFindsTheTree
<1>1. TypeOK /\ WalkInv => WalkFindsTheTree
  <2> SUFFICES ASSUME TypeOK, WalkInv, stage = "walk", todo = {}
      PROVE  seen = TreeOf(processes, Found)
    BY DEF WalkFindsTheTree
  <2>1. seen \in SUBSET Pids /\ Root \in seen
        /\ \A c \in Found : processes[c].parent \in seen => c \in seen
    BY DEF TypeOK, WalkInv
  <2>2. TreeOf(processes, Found) \subseteq seen
    BY <2>1, TreeIsLeast
  <2> QED BY <2>2 DEF WalkInv
<1> QED
  BY <1>1, WalkInvariant, PTL

-----------------------------------------------------------------------------
(* What RunLens attributes to the command, with pids reused as often as the*)
(* kernel likes.                                                           *)

(* A process and its parent are both the command's, or both are not: a fork*)
(* makes it so, and reparenting leads outside or to the command itself.    *)
(* (That nobody is its own parent is true, but not needed.)                *)
FamilyInv ==
  \A c \in Pids : table[c].parent \in Pids =>
    /\ table[c].state # "free"
    /\ table[c].parent = c \/ table[table[c].parent].state = "R"
    /\ table[table[c].parent].mine = table[c].mine

LEMMA FamilyStep ==
  ASSUME TypeOK, FamilyInv, Kernel \/ (Release(Root) /\ table[Root].state = "Z")
  PROVE  FamilyInv'
<1> USE ProcessTableAssumption DEF TypeOK, Process
<1>1. ASSUME NEW c \in Pids, NEW parent \in Pids \cup {Outside}, NEW mine \in BOOLEAN,
             Allocate(c, parent, mine),
             parent \in Pids => table[parent].state = "R" /\ table[parent].mine = mine
      PROVE  FamilyInv'
  <2>1. /\ table[c].state = "free"
        /\ table'[c] = [state |-> "R", parent |-> parent, life |-> table[c].life + 1, mine |-> mine]
        /\ \A q \in Pids \ {c} : table'[q] = table[q]
    BY <1>1 DEF Allocate
  <2> QED BY <1>1, <2>1 DEF FamilyInv
<1>2. ASSUME NEW p \in Pids, Exit(p) PROVE FamilyInv'
  <2>1. /\ table[p].state = "R"
        /\ \A q \in Pids : table'[q] =
             IF q = p THEN [table[q] EXCEPT !.state = "Z"]
             ELSE IF table[q].parent = p THEN [table[q] EXCEPT !.parent = Heir(p)]
             ELSE table[q]
    BY <1>2 DEF Exit
  <2>2. Heir(p) \in Pids =>
          Heir(p) = Root /\ Root # p /\ table[Root].state = "R" /\ table[Root].mine = table[p].mine
    <3> DEFINE S == {q \in Pids : table[q].mine = table[Root].mine}
    <3>1. S \in SUBSET Pids /\ Root \in S
          /\ \A c \in InUse(table) : table[c].parent \in S => c \in S
      BY DEF InUse, FamilyInv
    <3>2. TreeOf(table, InUse(table)) \subseteq S
      <4> HIDE DEF S
      <4> QED BY <3>1, TreeIsLeast
    <3> QED BY <3>2 DEF Heir
  <2>3. ASSUME NEW q \in Pids
        PROVE  /\ table'[q].state = IF q = p THEN "Z" ELSE table[q].state
               /\ table'[q].mine = table[q].mine
               /\ q = p => table'[q].parent = table[q].parent
               /\ q # p /\ table[q].parent = p => table'[q].parent = Heir(p)
               /\ q # p /\ table[q].parent # p => table'[q].parent = table[q].parent
    <3>1. table[q] \in Process
      OBVIOUS
    <3>2. CASE q = p
      <4>1. table'[q] = [table[q] EXCEPT !.state = "Z"]
        BY <2>1, <3>2
      <4> QED BY <3>1, <3>2, <4>1
    <3>3. CASE q # p /\ table[q].parent = p
      <4>1. table'[q] = [table[q] EXCEPT !.parent = Heir(p)]
        BY <2>1, <3>3
      <4> QED BY <3>1, <3>3, <4>1
    <3>4. CASE q # p /\ table[q].parent # p
      BY <2>1, <3>4
    <3> QED BY <3>2, <3>3, <3>4
  <2>4. ASSUME NEW c \in Pids, table'[c].parent \in Pids
        PROVE  /\ table'[c].state # "free"
               /\ table'[c].parent = c \/ table'[table'[c].parent].state = "R"
               /\ table'[table'[c].parent].mine = table'[c].mine
    <3>1. CASE c # p /\ table[c].parent = p
      <4>1. /\ table[c].state # "free" /\ table[p].mine = table[c].mine
            /\ table'[c].parent = Heir(p)
        BY <2>3, <3>1 DEF FamilyInv
      <4>2. Heir(p) = Root /\ Root # p /\ table[Root].state = "R" /\ table[Root].mine = table[p].mine
        BY <2>2, <2>4, <4>1
      <4> QED BY <2>3, <3>1, <4>1, <4>2
    <3>2. CASE c = p \/ table[c].parent # p
      <4>1. table'[c].parent = table[c].parent
        BY <2>3, <3>2
      <4>2. /\ table[c].state # "free"
            /\ table[c].parent = c \/ table[table[c].parent].state = "R"
            /\ table[table[c].parent].mine = table[c].mine
        BY <2>4, <4>1 DEF FamilyInv
      <4> DEFINE q == table[c].parent
      <4>3. q \in Pids /\ (q = p => c = p)
        BY <2>4, <3>2, <4>1
      <4> HIDE DEF q
      <4>4. /\ table'[q].state = IF q = p THEN "Z" ELSE table[q].state
            /\ table'[q].mine = table[q].mine
            /\ table'[c].mine = table[c].mine
            /\ table'[c].state = IF c = p THEN "Z" ELSE table[c].state
        BY <2>3, <4>3
      <4>5. q = c \/ table'[q].state = "R"
        <5>1. q = c \/ table[q].state = "R"
          BY <4>2 DEF q
        <5>2. CASE q = p
          BY <4>3, <5>2
        <5>3. CASE q # p
          BY <4>4, <5>1, <5>3
        <5> QED BY <5>2, <5>3
      <4>6. /\ table'[c].state # "free" /\ table'[q].mine = table'[c].mine
            /\ table'[c].parent = q
        BY <4>1, <4>2, <4>4 DEF q
      <4> QED BY <4>5, <4>6
    <3> QED BY <3>1, <3>2
  <2> QED BY <2>4 DEF FamilyInv
<1>3. ASSUME NEW p \in Pids, Release(p), table[p].state = "Z" PROVE FamilyInv'
  <2>1. /\ table'[p].state = "free" /\ table'[p].parent = Outside
        /\ \A q \in Pids \ {p} : table'[q] = table[q]
    BY <1>3 DEF Release
  <2> QED BY <1>3, <2>1 DEF FamilyInv
<1>4. ASSUME NEW p \in Pids, NEW c \in Pids, Fork(p, c) PROVE FamilyInv'
  BY <1>1, <1>4 DEF Fork
<1>5. ASSUME NEW c \in Pids, Arrive(c) PROVE FamilyInv'
  BY <1>1, <1>5 DEF Arrive
<1> QED
  BY <1>2, <1>3, <1>4, <1>5 DEF Kernel, Reap

(* What the entries of a snapshot in progress say of pids is still true of *)
(* whoever has these pids now: nobody of them has changed hands.           *)
LinksInv ==
  \A c \in Found :
    /\ table[c].mine = processes[c].who.mine
    /\ processes[c].parent \in Pids => table[processes[c].parent].mine = processes[c].who.mine

(* So the entries agree with each other, and go on to do so after the      *)
(* snapshot, whatever becomes of the pids.                                 *)
AgreeInv ==
  \A c \in Found :
    /\ c = Root \/ processes[c].parent = Root => processes[c].who.mine
    /\ processes[c].parent \in Found => processes[processes[c].parent].who.mine = processes[c].who.mine

Scanning == stage \in {"read", "probe", "children"}

RecordedInv ==
  \A p \in Pids : observed[p] # NoRecord => observed[p].first.mine /\ observed[p].last.mine

AttributionInv ==
  /\ FamilyInv
  /\ ~recycled => /\ table[Root].mine
                  /\ Scanning => LinksInv
                  /\ AgreeInv /\ RecordedInv

(* The tree of the snapshot has no stranger in it: what the command's      *)
(* entries and the root pid make up is closed under its parent links.      *)
LEMMA TreeIsOurs ==
  ASSUME TypeOK, AgreeInv
  PROVE  \A p \in TreeOf(processes, Found) \cap Found : processes[p].who.mine
<1> DEFINE S == {Root} \cup {p \in Found : processes[p].who.mine}
<1>1. S \in SUBSET Pids /\ Root \in S
  BY ProcessTableAssumption DEF Found
<1>2. ASSUME NEW c \in Found, processes[c].parent \in S PROVE c \in S
  BY <1>2 DEF AgreeInv
<1>3. TreeOf(processes, Found) \subseteq S
  <2> HIDE DEF S
  <2> QED BY <1>1, <1>2, TreeIsLeast
<1> QED BY <1>3 DEF AgreeInv

LEMMA LinksAgree ==
  ASSUME TypeOK, table[Root].mine, LinksInv
  PROVE  AgreeInv
  BY ProcessTableAssumption DEF LinksInv, AgreeInv, Found

(* The kernel moves: no pid that matters changes hands, or it is recycled. *)
LEMMA HandsStep ==
  ASSUME TypeOK, AttributionInv, UNCHANGED <<snapshot, recorded>>, FamilyInv',
         recycled' = (recycled \/ ChangesHands), Scanning' => Scanning /\ UNCHANGED stage
  PROVE  AttributionInv'
<1> USE DEF snapshot, recorded
<1> SUFFICES ASSUME ~recycled'
    PROVE  table'[Root].mine /\ (Scanning' => LinksInv') /\ AgreeInv' /\ RecordedInv'
  BY DEF AttributionInv
<1>1. ~recycled /\ \A c \in Pids \cap ({Root} \cup Watched) : table'[c].mine = table[c].mine
  BY DEF ChangesHands
<1>2. table'[Root].mine
  BY <1>1, ProcessTableAssumption DEF AttributionInv
<1>3. AgreeInv' /\ RecordedInv'
  BY <1>1 DEF AttributionInv, AgreeInv, RecordedInv, Found
<1>4. ASSUME Scanning' PROVE LinksInv'
  <2>1. LinksInv /\ Watched = Found \cup {processes[c].parent : c \in Found} /\ Found' = Found
    BY <1>1, <1>4 DEF AttributionInv, Scanning, Watched, Found
  <2>2. ASSUME NEW c \in Found
        PROVE  /\ table'[c].mine = processes[c].who.mine
               /\ processes[c].parent \in Pids =>
                    table'[processes[c].parent].mine = processes[c].who.mine
    <3>1. c \in Pids
      BY DEF Found
    <3>2. table'[c].mine = table[c].mine
      BY <1>1, <2>1, <3>1
    <3>3. processes[c].parent \in Pids =>
            table'[processes[c].parent].mine = table[processes[c].parent].mine
      BY <1>1, <2>1
    <3> QED BY <2>1, <3>2, <3>3 DEF LinksInv
  <2> QED BY <2>1, <2>2 DEF LinksInv
<1> QED BY <1>2, <1>3, <1>4

(* A new entry goes with those that the snapshot has already.              *)
LEMMA EntryStep ==
  ASSUME TypeOK, FamilyInv, LinksInv, UNCHANGED table, NEW p \in Pids, table[p].state # "free",
         processes' = [processes EXCEPT ![p] = Entry(p)]
  PROVE  LinksInv'
<1>1. ASSUME NEW c \in Found'
      PROVE  /\ table[c].mine = processes'[c].who.mine
             /\ processes'[c].parent \in Pids => table[processes'[c].parent].mine = processes'[c].who.mine
  <2>1. c \in Pids
    BY <1>1 DEF Found
  <2>2. CASE c = p
    <3>1. processes'[c] = Entry(p)
      BY <2>2 DEF TypeOK
    <3>2. Entry(p).who.mine = table[p].mine /\ Entry(p).parent = table[p].parent
      BY DEF Entry, Who
    <3> QED BY <2>2, <3>1, <3>2 DEF FamilyInv
  <2>3. CASE c # p
    <3>1. processes'[c] = processes[c] /\ c \in Found
      BY <1>1, <2>1, <2>3 DEF TypeOK, Found
    <3> QED BY <3>1 DEF LinksInv
  <2> QED BY <2>2, <2>3
<1> QED BY <1>1 DEF LinksInv

LEMMA RefreshIsOurs ==
  ASSUME TypeOK, RecordedInv, NEW pids \in SUBSET Pids, Refresh(pids),
         \A p \in pids : processes[p].who.mine
  PROVE  RecordedInv'
<1>1. ASSUME NEW p \in Pids, observed'[p] # NoRecord
      PROVE  observed'[p].first.mine /\ observed'[p].last.mine
  <2>1. CASE p \in pids /\ observed[p] = NoRecord
    <3>1. observed'[p] = [first |-> processes[p].who, last |-> processes[p].who]
      BY <2>1 DEF Refresh, Refreshed
    <3> QED BY <2>1, <3>1
  <2>2. CASE p \in pids /\ observed[p] # NoRecord
    <3>1. observed'[p] = [observed[p] EXCEPT !.last = processes[p].who] /\ observed[p] \in ObservedProcess
      BY <2>2 DEF Refresh, Refreshed, TypeOK
    <3>2. observed'[p].first = observed[p].first /\ observed'[p].last = processes[p].who
      BY <3>1 DEF ObservedProcess
    <3> QED BY <2>2, <3>2 DEF RecordedInv
  <2>3. CASE p \notin pids
    BY <1>1, <2>3 DEF Refresh, RecordedInv
  <2> QED BY <2>1, <2>2, <2>3
<1> QED BY <1>1 DEF RecordedInv

LEMMA AttributionStep ==
  ASSUME TypeOK, WalkInv, AttributionInv, [Next]_vars
  PROVE  AttributionInv'
<1> USE DEF recorded, snapshot
<1>1. CASE KernelStep
  <2>1. FamilyInv'
    BY <1>1, FamilyStep DEF KernelStep, AttributionInv
  <2> QED BY <1>1, <2>1, HandsStep DEF KernelStep, Scanning
<1>2. CASE TryWaitReaps
  <2>1. Release(Root) /\ table[Root].state = "Z" /\ UNCHANGED <<processes, observed>>
        /\ stage' = "list" /\ recycled' = recycled
    BY <1>2 DEF TryWaitReaps, Next, RunLens, KernelStep, Finished, vars
  <2>2. FamilyInv'
    BY <2>1, FamilyStep DEF AttributionInv
  <2>3. table'[Root].mine = table[Root].mine
    BY <2>1, ProcessTableAssumption DEF Release, TypeOK, Process
  <2>4. ~Scanning'
    BY <2>1 DEF Scanning
  <2> QED BY <2>1, <2>2, <2>3, <2>4 DEF AttributionInv, AgreeInv, RecordedInv, Found
<1> SUFFICES ASSUME RunLens \/ UNCHANGED vars, ~TryWaitReaps PROVE AttributionInv'
  BY <1>1, <1>2 DEF Next, Finished
<1>3. UNCHANGED <<table, recycled>> /\ FamilyInv'
  BY DEF RunLens, vars, List, ListFails, Read, Begin, Inspect, ListChildren, Probe, BeginWalk,
     Walk, EndWalk, EndObserve, TryWaitNone, BeginReport, PrintReport, AttributionInv, FamilyInv
<1> SUFFICES ASSUME ~recycled
    PROVE  (Scanning' => LinksInv') /\ AgreeInv' /\ RecordedInv'
  BY <1>3 DEF AttributionInv
<1>4. table[Root].mine /\ AgreeInv /\ RecordedInv /\ FamilyInv /\ (Scanning => LinksInv)
  BY DEF AttributionInv
<1>5. CASE List \/ ListFails \/ Begin \/ EndObserve
  <2>1. UNCHANGED observed /\ Found' = {}
    BY <1>5 DEF List, ListFails, Begin, EndObserve, EmptySnapshot, Found, NoInfo
  <2> QED BY <1>4, <2>1 DEF LinksInv, AgreeInv, RecordedInv
<1>6. ASSUME NEW p \in Pids, Read(p) \/ Inspect(p) PROVE LinksInv' /\ AgreeInv' /\ RecordedInv'
  <2>1. Scanning /\ UNCHANGED observed
    BY <1>6 DEF Read, Inspect, Scanning
  <2>2. \/ UNCHANGED processes
        \/ table[p].state # "free" /\ processes' = [processes EXCEPT ![p] = Entry(p)]
    BY <1>6 DEF Read, Inspect
  <2>3. LinksInv'
    <3>1. CASE UNCHANGED processes
      BY <1>3, <1>4, <2>1, <3>1 DEF LinksInv, Found
    <3>2. CASE table[p].state # "free" /\ processes' = [processes EXCEPT ![p] = Entry(p)]
      BY <1>3, <1>4, <2>1, <3>2, EntryStep
    <3> QED BY <2>2, <3>1, <3>2
  <2>4. (TypeOK /\ table[Root].mine /\ LinksInv => AgreeInv)'
    BY LinksAgree, PTL
  <2> QED BY <1>3, <1>4, <2>1, <2>3, <2>4, TypeStep DEF RecordedInv
<1>7. CASE ListChildren \/ Probe \/ TryWaitNone \/ EndWalk \/ BeginReport \/ PrintReport
           \/ UNCHANGED vars
  <2>1. UNCHANGED <<processes, observed>> /\ (Scanning' => Scanning)
    BY <1>7 DEF ListChildren, Probe, TryWaitNone, EndWalk, BeginReport, PrintReport, vars, Scanning,
       Rest
  <2> QED BY <1>3, <1>4, <2>1 DEF LinksInv, AgreeInv, RecordedInv, Found
<1>8. ASSUME NEW pids \in SUBSET (TreeOf(processes, Found) \cap Found), Refresh(pids),
             UNCHANGED processes, stage' = "walk"
      PROVE  (Scanning' => LinksInv') /\ AgreeInv' /\ RecordedInv'
  <2>1. RecordedInv'
    BY <1>4, <1>8, TreeIsOurs, RefreshIsOurs DEF Found
  <2> QED BY <1>4, <1>8, <2>1 DEF AgreeInv, Found, Scanning
<1>9. CASE BeginWalk
  <2>1. {Root} \cap Found \subseteq TreeOf(processes, Found) \cap Found
    BY TreeIsClosed DEF Found
  <2> QED BY <1>8, <1>9, <2>1 DEF BeginWalk
<1>10. ASSUME NEW p \in Pids, Walk(p)
       PROVE  (Scanning' => LinksInv') /\ AgreeInv' /\ RecordedInv'
  <2>1. stage = "walk" /\ p \in todo /\ Found \in SUBSET Pids
    BY <1>10 DEF Walk, Found
  <2>2. Children(p) \subseteq TreeOf(processes, Found) \cap Found
    BY <2>1, TreeIsClosed DEF Children, WalkInv
  <2> QED BY <1>8, <1>10, <2>1, <2>2 DEF Walk
<1> QED
  BY <1>5, <1>6, <1>7, <1>9, <1>10 DEF RunLens

LEMMA AttributionInvariant == Spec => []AttributionInv
<1>1. Init => AttributionInv
  <2> SUFFICES ASSUME Init PROVE AttributionInv
    OBVIOUS
  <2>1. Found = {} /\ \A p \in Pids : observed[p] = NoRecord
    BY DEF Init, Found, NoInfo
  <2>2. table[Root].mine /\ \A c \in Pids : table[c].parent \notin Pids
    BY ProcessTableAssumption DEF Init, Spawned
  <2> QED BY <2>1, <2>2 DEF AttributionInv, FamilyInv, LinksInv, AgreeInv, RecordedInv
<1>2. TypeOK /\ WalkInv /\ AttributionInv /\ [Next]_vars => AttributionInv'
  BY AttributionStep
<1> QED
  BY <1>1, <1>2, WalkInvariant, PTL DEF Spec

(* Each record is of the command or of a descendant, whatever the kernel   *)
(* does between any two reads, unless a pid that they rely on changes      *)
(* hands.                                                                  *)
THEOREM Attribution == Spec => []RecordsAreOfTheCommand
<1>1. AttributionInv => RecordsAreOfTheCommand
  BY DEF AttributionInv, RecordedInv, RecordsAreOfTheCommand
<1> QED
  BY <1>1, AttributionInvariant, PTL

-----------------------------------------------------------------------------
(* What RunLens records when no pid is used twice, which SteadyTree rests  *)
(* on.  A pid that has been given out then stands for one process for ever,*)
(* so what was read of it earlier is still about the same process.         *)

Command == [life |-> 1, mine |-> TRUE]

(* A pid that has been given out.                                          *)
Given(p) == table[p].life = 1

(* The pids of the command and its descendants, dead ones included.        *)
Ours == {p \in Pids : Who(table[p]) = Command}

(* A process and its parent are both the command's, or both are not: a fork*)
(* makes it so, and reparenting leads outside or to the command itself.    *)
TableInv ==
  /\ Root \in Ours
  /\ \A c \in Pids : table[c].state # "free" =>
       /\ Given(c)
       /\ table[c].parent \in Pids =>
            Given(table[c].parent) /\ table[table[c].parent].mine = table[c].mine

(* The same of the snapshot, whenever each of its entries was read: a      *)
(* parent pid may be out of date, but it is no stranger's.                 *)
EntryInv(t, c, entry) ==
  /\ t[c].life = 1 /\ entry.who = Who(t[c])
  /\ entry.parent \in Pids =>
       t[entry.parent].life = 1 /\ t[entry.parent].mine = t[c].mine

SnapshotInv == \A c \in Found : EntryInv(table, c, processes[c])

(* The same of what is recorded.                                           *)
RecordInv ==
  \A p \in Pids : observed[p] # NoRecord =>
    p \in Ours /\ observed[p] = [first |-> Command, last |-> Command]

OneLifeInv == TableInv /\ SnapshotInv /\ RecordInv

(* The tree of the snapshot has no stranger in it: the set of the command's*)
(* own pids has the root and is closed under the snapshot's parent links.  *)
LEMMA OneLifeTree ==
  ASSUME TypeOK, TableInv, SnapshotInv
  PROVE  TreeOf(processes, Found) \subseteq Ours
<1>1. Ours \in SUBSET Pids /\ Root \in Ours
  BY DEF Ours, TableInv
<1>2. ASSUME NEW c \in Found, processes[c].parent \in Ours PROVE c \in Ours
  BY <1>2 DEF SnapshotInv, EntryInv, Ours, Who, Command, Found
<1> QED
  BY <1>1, <1>2, TreeIsLeast

(* With one life per pid, a step of the kernel or of try_wait keeps what   *)
(* every pid that has been given out stands for.                           *)
Keeps == \A p \in Pids : Given(p) => Who(table'[p]) = Who(table[p])

LEMMA KernelIsStable ==
  ASSUME MaxLives = 1, TypeOK, TableInv, Kernel \/ Release(Root)
  PROVE  Keeps /\ TableInv'
<1> USE ProcessTableAssumption DEF TypeOK, Process, Given, Who
<1>1. ASSUME NEW c \in Pids, NEW parent \in Pids \cup {Outside}, NEW mine \in BOOLEAN,
             Allocate(c, parent, mine),
             parent \in Pids => Given(parent) /\ table[parent].mine = mine
      PROVE  Keeps /\ TableInv'
  <2>1. table[c].life = 0 /\ table[c].state = "free"
    BY <1>1 DEF Allocate
  <2>2. table' = [table EXCEPT ![c] = [state |-> "R", parent |-> parent, life |-> 1, mine |-> mine]]
    BY <1>1, <2>1 DEF Allocate
  <2>3. Keeps
    BY <2>1, <2>2 DEF Keeps
  <2>4. TableInv'
    BY <1>1, <2>1, <2>2 DEF TableInv, Ours, Command
  <2> QED BY <2>3, <2>4
<1>2. ASSUME NEW p \in Pids, NEW c \in Pids, Fork(p, c) PROVE Keeps /\ TableInv'
  BY <1>1, <1>2 DEF Fork, TableInv
<1>3. ASSUME NEW c \in Pids, Arrive(c) PROVE Keeps /\ TableInv'
  BY <1>1, <1>3 DEF Arrive
<1>4. ASSUME NEW p \in Pids, Exit(p) PROVE Keeps /\ TableInv'
  <2>1. Keeps
    BY <1>4 DEF Exit, Keeps
  <2>2. TreeOf(table, InUse(table)) \subseteq Ours
    <3>1. Ours \in SUBSET Pids /\ Root \in Ours
      BY DEF Ours, TableInv
    <3>2. ASSUME NEW c \in InUse(table), table[c].parent \in Ours PROVE c \in Ours
      BY <3>2 DEF InUse, TableInv, Ours, Command
    <3> QED BY <3>1, <3>2 DEF TreeOf
  <2>3. Heir(p) \in Pids => Heir(p) = Root /\ p \in Ours
    BY <2>2 DEF Heir
  <2>4. TableInv'
    BY <1>4, <2>3 DEF Exit, TableInv, Ours, Command
  <2> QED BY <2>1, <2>4
<1>5. ASSUME NEW p \in Pids, Release(p) PROVE Keeps /\ TableInv'
  BY <1>5 DEF Release, Keeps, TableInv, Ours, Command
<1> QED
  BY <1>2, <1>3, <1>4, <1>5 DEF Kernel, Reap

(* A step of the kernel leaves what has been observed true.                *)
LEMMA StableFacts ==
  ASSUME TypeOK, OneLifeInv, Keeps, TableInv',
         UNCHANGED <<snapshot, recorded>>
  PROVE  OneLifeInv'
<1>1. \A p \in Ours : p \in Ours'
  BY DEF Ours, Keeps, Given, Who, Command
<1>2. Found' = Found /\ Alive' = Alive
  BY DEF Found, Alive, snapshot
<1>3. SnapshotInv'
  <2>1. ASSUME NEW c \in Found PROVE EntryInv(table', c, processes[c])
    <3>1. c \in Pids /\ EntryInv(table, c, processes[c])
      BY DEF OneLifeInv, SnapshotInv, Found
    <3>2. \A q \in Pids : table[q].life = 1 =>
            /\ Who(table'[q]) = Who(table[q])
            /\ table'[q].life = 1 /\ table'[q].mine = table[q].mine
      BY DEF Keeps, Given, Who
    <3> QED BY <3>1, <3>2 DEF EntryInv
  <2> QED BY <1>2, <2>1 DEF SnapshotInv, snapshot
<1>4. RecordInv'
  BY <1>1, <1>2 DEF OneLifeInv, RecordInv, recorded
<1> QED BY <1>3, <1>4 DEF OneLifeInv

(* What the records and the walk take from the snapshot is the command's.  *)
LEMMA RefreshIsSound ==
  ASSUME TypeOK, SnapshotInv, RecordInv, NEW pids \in SUBSET (Ours \cap Found), Refresh(pids),
         NEW p \in Pids, observed'[p] # NoRecord
  PROVE  p \in Ours /\ observed'[p] = [first |-> Command, last |-> Command]
<1>1. CASE p \in pids
  <2>1. processes[p].who = Command
    BY <1>1 DEF SnapshotInv, EntryInv, Ours
  <2> QED BY <1>1, <2>1 DEF Refresh, Refreshed, RecordInv
<1>2. CASE p \notin pids
  BY <1>2 DEF Refresh, RecordInv
<1> QED BY <1>1, <1>2

LEMMA EntryOfTable ==
  ASSUME TableInv, NEW p \in Pids, table[p].state # "free"
  PROVE  EntryInv(table, p, Entry(p))
  BY DEF TableInv, EntryInv, Entry, Given

LEMMA OneLifeStep ==
  ASSUME MaxLives = 1, TypeOK, WalkInv, OneLifeInv, [Next]_vars
  PROVE  OneLifeInv'
<1> USE DEF recorded, snapshot
<1>1. CASE KernelStep \/ TryWaitReaps
  <2>1. Kernel \/ Release(Root)
    BY <1>1 DEF KernelStep, TryWaitReaps
  <2>2. Keeps /\ TableInv'
    BY <2>1, KernelIsStable DEF OneLifeInv
  <2> QED BY <1>1, <2>2, StableFacts DEF KernelStep, TryWaitReaps
<1>2. CASE UNCHANGED <<table, snapshot, recorded>>
  <2>1. Keeps /\ TableInv'
    BY <1>2 DEF Keeps, OneLifeInv, TableInv, Given, Who, Ours
  <2> QED BY <1>2, <2>1, StableFacts
<1>3. CASE TryWaitNone \/ PrintReport \/ UNCHANGED vars
  BY <1>2, <1>3 DEF TryWaitNone, PrintReport, vars
<1> USE DEF OneLifeInv
<1>4. UNCHANGED table => TableInv' /\ Ours' = Ours
  BY DEF TableInv, Given, Ours
<1>5. UNCHANGED <<table, processes>> => SnapshotInv' /\ Alive' = Alive /\ Found' = Found
  BY DEF SnapshotInv, Found, Alive
<1>6. CASE List \/ ListFails \/ Begin \/ EndObserve
  <2>1. Found' = {} /\ UNCHANGED table
    BY <1>6 DEF List, ListFails, Begin, EndObserve, EmptySnapshot, Found, NoInfo, Rest
  <2>2. SnapshotInv'
    BY <2>1 DEF SnapshotInv
  <2>3. RecordInv'
    BY <1>4, <1>6, <2>1 DEF RecordInv, List, ListFails, Begin, EndObserve
  <2> QED BY <1>4, <2>1, <2>2, <2>3
<1>7. ASSUME NEW p \in Pids, Read(p) \/ Inspect(p) PROVE OneLifeInv'
  <2>1. UNCHANGED <<table, recorded>>
    BY <1>7 DEF Read, Inspect
  <2>2. RecordInv'
    BY <1>4, <2>1 DEF RecordInv
  <2>3. \/ UNCHANGED processes
        \/ table[p].state # "free" /\ processes' = [processes EXCEPT ![p] = Entry(p)]
    BY <1>7 DEF Read, Inspect
  <2>4. ASSUME NEW c \in Found' PROVE EntryInv(table', c, processes'[c])
    <3>1. c \in Pids
      BY <2>4 DEF Found
    <3>2. CASE processes'[c] = processes[c]
      <4>1. c \in Found
        BY <2>4, <3>2 DEF Found
      <4> QED BY <2>1, <3>2, <4>1 DEF SnapshotInv
    <3>3. CASE processes'[c] # processes[c]
      <4>1. c = p /\ table[p].state # "free" /\ processes'[c] = Entry(p)
        BY <2>3, <3>1, <3>3 DEF TypeOK
      <4> QED BY <2>1, <4>1, EntryOfTable
    <3> QED BY <3>2, <3>3
  <2>5. SnapshotInv'
    BY <2>4 DEF SnapshotInv
  <2> QED BY <1>4, <2>1, <2>2, <2>5
<1>8. CASE ListChildren \/ Probe \/ EndWalk
  <2>1. UNCHANGED <<table, processes, recorded>>
    BY <1>8 DEF ListChildren, Probe, EndWalk
  <2> QED BY <1>4, <1>5, <2>1 DEF RecordInv
<1>9. CASE BeginWalk
  <2>1. UNCHANGED <<table, processes>> /\ Refresh({Root} \cap Found)
    BY <1>9 DEF BeginWalk
  <2>2. Root \in Ours
    BY DEF TableInv
  <2>3. RecordInv'
    BY <1>4, <2>1, <2>2, RefreshIsSound DEF RecordInv
  <2> QED BY <1>4, <1>5, <2>1, <2>3
<1>10. ASSUME NEW p \in Pids, Walk(p) PROVE OneLifeInv'
  <2>1. UNCHANGED <<table, processes>> /\ stage = "walk" /\ p \in todo /\ Refresh(Children(p))
    BY <1>10 DEF Walk
  <2>2. p \in TreeOf(processes, Found) /\ Found \in SUBSET Pids
    BY <2>1 DEF WalkInv, Found
  <2>3. Children(p) \subseteq TreeOf(processes, Found)
    BY <2>2, TreeIsClosed DEF Children
  <2>4. Children(p) \subseteq Ours \cap Found
    BY <2>3, OneLifeTree DEF Children
  <2>5. RecordInv'
    BY <1>4, <2>1, <2>4, RefreshIsSound DEF RecordInv
  <2> QED BY <1>4, <1>5, <2>1, <2>5
<1>13. CASE BeginReport
  BY <1>4, <1>5, <1>13 DEF BeginReport, RecordInv
<1> QED
  BY <1>1, <1>3, <1>6, <1>7, <1>8, <1>9, <1>10, <1>13 DEF Next, RunLens, Finished

LEMMA OneLifeInvariant ==
  ASSUME MaxLives = 1
  PROVE  Spec => [](TypeOK /\ OneLifeInv)
<1>1. Init => OneLifeInv
  <2> SUFFICES ASSUME Init PROVE OneLifeInv
    OBVIOUS
  <2>1. Found = {} /\ \A p \in Pids : observed[p] = NoRecord
    BY DEF Init, Found, NoInfo
  <2>2. TableInv
    BY ProcessTableAssumption DEF Init, Spawned, TableInv, Given, Ours, Who, Command
  <2> QED BY <2>1, <2>2 DEF Init, OneLifeInv, SnapshotInv, RecordInv
<1>2. TypeOK /\ WalkInv /\ OneLifeInv /\ [Next]_vars => OneLifeInv'
  BY OneLifeStep
<1> QED
  BY <1>1, <1>2, WalkInvariant, PTL DEF Spec

-----------------------------------------------------------------------------
(* No survivor is lost, however often a pid is reused and whatever the     *)
(* snapshot of the report fails to read.                                   *)

(* Lives only go up, and what was read of a pid is no later life than that *)
(* which the pid has now.                                                  *)
LivesInv ==
  \A p \in Pids :
    /\ processes[p].who.life <= table[p].life
    /\ observed[p].first.life <= table[p].life

(* The recorded process of pid p still runs.                               *)
Runs(p) == table[p].state = "R" /\ Who(table[p]) = observed[p].first

(* The snapshot has p, calls it unreadable, or has yet to come to it.      *)
Covered(p) ==
  \/ processes[p].state = "R"
  \/ p \in unreadable_pids
  \/ stage = "list"
  \/ stage \in {"read", "probe", "children"} /\ p \in todo
  \/ stage = "probe" /\ at = p

CoverInv ==
  /\ stage \in {"print", "done"} => round = "report"
  /\ round = "report" =>
       /\ stage \notin {"walk", "files", "wait"}
       /\ available => \A p \in descendants : Runs(p) => Covered(p)

SurvivalInv == LivesInv /\ CoverInv

(* A process that runs now did so before, or is a new life of its pid.     *)
LEMMA KernelMovesOn ==
  ASSUME TypeOK, Kernel \/ Release(Root), NEW p \in Pids
  PROVE  /\ table[p].life <= table'[p].life
         /\ table'[p].state = "R" =>
              \/ table[p].state = "R" /\ Who(table'[p]) = Who(table[p])
              \/ table[p].life < table'[p].life
<1> USE ProcessTableAssumption DEF TypeOK, Process, Who
<1>1. ASSUME NEW q \in Pids, table' = [table EXCEPT ![q].state = "free", ![q].parent = Outside]
      PROVE  /\ table[p].life = table'[p].life /\ table[p].mine = table'[p].mine
             /\ table'[p].state \in {"free", table[p].state}
  BY <1>1
<1>2. ASSUME NEW q \in Pids, Exit(q)
      PROVE  /\ table[p].life = table'[p].life /\ table[p].mine = table'[p].mine
             /\ table'[p].state \in {"Z", table[p].state}
  BY <1>2 DEF Exit
<1>3. ASSUME NEW c \in Pids, NEW parent, NEW mine, Allocate(c, parent, mine)
      PROVE  table'[p] = table[p] \/ table[p].life < table'[p].life
  BY <1>3 DEF Allocate
<1>4. table[p].life \in Nat
  OBVIOUS
<1>5. CASE \E q \in Pids : Exit(q)
  BY <1>2, <1>4, <1>5
<1>6. ASSUME NEW q \in Pids, Release(q)
      PROVE  /\ table[p].life = table'[p].life /\ table[p].mine = table'[p].mine
             /\ table'[p].state \in {"free", table[p].state}
  BY <1>1, <1>6 DEF Release
<1>7. CASE \E q \in Pids : Release(q)
  BY <1>4, <1>6, <1>7
<1>8. ASSUME NEW c \in Pids, Arrive(c) \/ \E q \in Pids : Fork(q, c)
      PROVE  table'[p] = table[p] \/ table[p].life < table'[p].life
  <2>1. CASE Arrive(c)
    BY <1>3, <2>1 DEF Arrive
  <2>2. CASE \E q \in Pids : Fork(q, c)
    BY <1>3, <2>2 DEF Fork
  <2> QED BY <1>8, <2>1, <2>2
<1>9. CASE \E c \in Pids : Arrive(c) \/ \E q \in Pids : Fork(q, c)
  <2>1. table'[p] = table[p] \/ table[p].life < table'[p].life
    BY <1>8, <1>9
  <2>2. CASE table'[p] = table[p]
    BY <1>4, <2>2
  <2>3. CASE table[p].life < table'[p].life
    <3>1. table[p].life <= table'[p].life
      <4>1. table' \in [Pids -> Process]
        BY KernelKeepsTypes
      <4>2. table'[p].life \in Nat
        BY <4>1
      <4> QED BY <1>4, <2>3, <4>2
    <3> QED BY <2>3, <3>1
  <2> QED BY <2>1, <2>2, <2>3
<1>10. \/ \E q \in Pids : Exit(q) \/ Release(q)
       \/ \E c \in Pids : Arrive(c) \/ \E q \in Pids : Fork(q, c)
  <2>1. CASE Release(Root)
    BY <2>1
  <2>2. CASE \E q, c \in Pids : Fork(q, c)
    BY <2>2
  <2>3. CASE \E q \in Pids : Exit(q) \/ Reap(q)
    BY <2>3 DEF Reap
  <2> QED BY <2>1, <2>2, <2>3 DEF Kernel
<1> QED
  BY <1>5, <1>7, <1>9, <1>10

LEMMA LivesStep ==
  ASSUME TypeOK, LivesInv, [Next]_vars
  PROVE  LivesInv'
<1> USE DEF snapshot, recorded
<1>1. \A p \in Pids : table[p].life \in Nat /\ processes[p].who.life \in Nat
        /\ observed[p].first.life \in Nat
  BY ProcessTableAssumption DEF TypeOK, Process, Info, ObservedProcess
<1>2. CASE KernelStep \/ TryWaitReaps
  <2>1. /\ UNCHANGED <<processes, observed>>
        /\ Kernel \/ Release(Root)
    BY <1>2 DEF KernelStep, TryWaitReaps
  <2>2. ASSUME NEW p \in Pids
        PROVE  table[p].life <= table'[p].life /\ table'[p].life \in Nat
    <3>1. table' \in [Pids -> Process]
      BY <2>1, KernelKeepsTypes DEF TypeOK
    <3> QED BY <2>1, <3>1, KernelMovesOn, ProcessTableAssumption DEF Process
  <2> QED BY <1>1, <2>1, <2>2 DEF LivesInv
<1>3. CASE UNCHANGED <<table, processes, observed>>
  BY <1>3 DEF LivesInv
<1>4. CASE List \/ ListFails \/ Begin \/ EndObserve
  <2>1. UNCHANGED <<table, observed>> /\ processes' = [p \in Pids |-> NoInfo]
    BY <1>4 DEF List, ListFails, Begin, EndObserve, EmptySnapshot
  <2>2. NoInfo.who.life = 0
    BY DEF NoInfo, Nobody
  <2> QED BY <1>1, <2>1, <2>2 DEF LivesInv
<1>5. ASSUME NEW p \in Pids, Read(p) \/ Inspect(p) PROVE LivesInv'
  <2>1. /\ UNCHANGED <<table, observed>>
        /\ processes' = processes \/ processes' = [processes EXCEPT ![p] = Entry(p)]
    BY <1>5 DEF Read, Inspect
  <2>2. Entry(p).who.life = table[p].life
    BY DEF Entry, Who
  <2> QED BY <1>1, <2>1, <2>2 DEF LivesInv, TypeOK
<1>6. ASSUME NEW pids \in SUBSET Pids, Refresh(pids), UNCHANGED <<table, processes>>
      PROVE  LivesInv'
  <2>1. \A p \in Pids : Refreshed(p).first.life \in {processes[p].who.life, observed[p].first.life}
    BY DEF Refreshed, TypeOK, ObservedProcess
  <2> QED BY <1>6, <2>1 DEF Refresh, LivesInv
<1>7. CASE BeginWalk \/ \E p \in Pids : Walk(p)
  BY <1>6, <1>7, SetsOfPids DEF BeginWalk, Walk, Found
<1> QED
  BY <1>2, <1>3, <1>4, <1>5, <1>7 DEF Next, RunLens, Finished, vars, ListChildren, Probe,
     EndWalk, TryWaitNone, BeginReport, PrintReport

LEMMA CoverStep ==
  ASSUME TypeOK, LivesInv, CoverInv, [Next]_vars
  PROVE  CoverInv'
<1> USE DEF snapshot, recorded
<1>1. CASE EndObserve
  BY <1>1 DEF EndObserve, CoverInv, Covered
<1>2. stage' \in {"print", "done"} => round' = "report"
  BY DEF CoverInv, Next, KernelStep, RunLens, Finished, vars, List, ListFails, Read, Begin,
     Inspect, ListChildren, Probe, BeginWalk, Walk, EndWalk,
     EndObserve, TryWaitReaps, TryWaitNone, BeginReport, PrintReport, Rest
<1> SUFFICES ASSUME round' = "report", ~EndObserve PROVE CoverInv'
  BY <1>1, <1>2 DEF CoverInv
<1>3. round = "report" /\ stage \notin {"walk", "files", "wait"}
  BY DEF CoverInv, Next, KernelStep, RunLens, Finished, vars, List, ListFails, Read, Begin,
     Inspect, ListChildren, Probe, BeginWalk, Walk, EndWalk,
     TryWaitReaps, TryWaitNone, BeginReport, PrintReport
<1>4. UNCHANGED observed /\ descendants' = descendants /\ stage' \notin {"walk", "files", "wait"}
  BY <1>3 DEF descendants, Next, KernelStep, RunLens, Finished, vars, List, ListFails, Read,
     Begin, Inspect, ListChildren, Probe, BeginWalk, Walk, EndWalk,
     TryWaitReaps, TryWaitNone, BeginReport, PrintReport, Rest
<1> SUFFICES ASSUME available', NEW p \in descendants, Runs(p)' PROVE Covered(p)'
  BY <1>4 DEF CoverInv
<1>5. p \in Pids /\ table'[p].state = "R" /\ Who(table'[p]) = observed[p].first
  BY <1>4 DEF Runs, descendants
<1>6. CASE KernelStep
  <2>1. UNCHANGED <<stage, todo, at, processes, unreadable_pids, available>>
        /\ (Kernel \/ Release(Root))
    BY <1>6 DEF KernelStep
  <2>2. Who(table'[p]).life = table'[p].life
    BY DEF Who
  <2>3. ~(table[p].life < table'[p].life)
    <3>1. observed[p].first.life <= table[p].life /\ table'[p].life = observed[p].first.life
      BY <1>5, <2>2 DEF LivesInv
    <3>2. table[p].life \in Nat /\ observed[p].first.life \in Nat
      BY <1>5, ProcessTableAssumption DEF TypeOK, Process, ObservedProcess
    <3> QED BY <3>1, <3>2
  <2>4. Runs(p)
    BY <1>5, <2>1, <2>3, KernelMovesOn DEF Runs
  <2> QED BY <1>3, <2>1, <2>4 DEF CoverInv, Covered
<1> SUFFICES ASSUME UNCHANGED table PROVE Covered(p)'
  BY <1>3, <1>6 DEF Next, RunLens, Finished, vars, List, ListFails, Read, Begin, Inspect,
     ListChildren, Probe, BeginWalk, Walk, EndWalk, TryWaitReaps,
     TryWaitNone, BeginReport, PrintReport
<1>7. Runs(p) /\ table[p].state = "R"
  BY <1>5 DEF Runs
<1>8. CASE List
  BY <1>5, <1>7, <1>8 DEF List, Covered, InUse, Rest
<1>9. CASE ListFails
  BY <1>9 DEF ListFails
<1>10. CASE Begin
  BY <1>5, <1>10 DEF Begin, Covered, known_pids, Rest
<1>11. ASSUME available => Covered(p), NEW q \in Pids, Read(q) PROVE Covered(p)'
  <2>1. available /\ stage = "read" /\ todo' = todo \ {q}
        /\ stage' = IF todo' = {} THEN "update" ELSE "read"
    BY <1>11 DEF Read, Rest
  <2>2. CASE p = q
    <3>1. processes' = [processes EXCEPT ![p] = Entry(p)]
      BY <1>7, <1>11, <2>2 DEF Read
    <3>2. processes'[p] = Entry(p)
      BY <1>5, <3>1 DEF TypeOK
    <3> QED BY <1>7, <3>2 DEF Covered, Entry
  <2>3. CASE p # q
    <3>1. processes'[p] = processes[p] /\ unreadable_pids \subseteq unreadable_pids'
      BY <1>5, <1>11, <2>3 DEF Read, TypeOK
    <3> QED BY <1>11, <2>1, <2>3, <3>1 DEF Covered
  <2> QED BY <2>2, <2>3
<1>12. ASSUME available => Covered(p), NEW q \in Pids, Inspect(q) PROVE Covered(p)'
  <2>1. /\ available /\ stage = "read" /\ todo' = todo \ {q} /\ UNCHANGED unreadable_pids
        /\ stage' \in {"probe", "children"} \/ stage' = Rest(todo')
    BY <1>12 DEF Inspect
  <2>2. CASE p = q
    <3>1. \/ stage' = "probe" /\ at' = p
          \/ processes' = [processes EXCEPT ![p] = Entry(p)]
      BY <1>12, <2>2 DEF Inspect, known_pids
    <3>2. (stage' = "probe" /\ at' = p) \/ processes'[p] = Entry(p)
      BY <1>5, <3>1 DEF TypeOK
    <3> QED BY <1>7, <3>2 DEF Covered, Entry
  <2>3. CASE p # q
    <3>1. processes'[p] = processes[p]
      BY <1>5, <1>12, <2>3 DEF Inspect, TypeOK
    <3> QED BY <1>12, <2>1, <2>3, <3>1 DEF Covered, Rest
  <2> QED BY <2>2, <2>3
<1>13. ASSUME available => Covered(p), ListChildren PROVE Covered(p)'
  BY <1>13 DEF ListChildren, Covered, Rest
<1>14. ASSUME available => Covered(p), Probe PROVE Covered(p)'
  BY <1>7, <1>14 DEF Probe, Covered, Rest
<1>15. ASSUME available => Covered(p),
              BeginReport \/ PrintReport \/ UNCHANGED vars
       PROVE  Covered(p)'
  BY <1>15 DEF BeginReport, PrintReport, vars, Covered
<1>16. available => Covered(p)
  BY <1>3, <1>7 DEF CoverInv
<1> QED
  BY <1>3, <1>4, <1>6, <1>8, <1>9, <1>10, <1>11, <1>12, <1>13, <1>14, <1>15, <1>16 DEF Next,
     KernelStep, RunLens, Finished, BeginWalk, Walk, EndWalk, TryWaitReaps,
     TryWaitNone

LEMMA SurvivalInvariant == Spec => [](TypeOK /\ SurvivalInv)
<1>1. Init => SurvivalInv
  <2> SUFFICES ASSUME Init PROVE SurvivalInv
    OBVIOUS
  <2>1. NoInfo.who.life = 0 /\ NoRecord.first.life = 0
    BY DEF NoInfo, NoRecord, Nobody
  <2>2. \A p \in Pids : table[p].life \in Nat
    BY DEF Init, Spawned
  <2> QED BY <2>1, <2>2 DEF Init, SurvivalInv, LivesInv, CoverInv
<1>2. TypeOK /\ SurvivalInv /\ [Next]_vars => SurvivalInv'
  BY LivesStep, CoverStep DEF SurvivalInv
<1> QED
  BY <1>1, <1>2, TypeCorrect, PTL DEF Spec

(* Each recorded descendant that still runs when the report is out is one  *)
(* of its survivors, or they are reported as unavailable.                  *)
THEOREM NoSurvivorLost == Spec => []NoKnownSurvivorLost
<1>1. TypeOK /\ SurvivalInv => NoKnownSurvivorLost
  <2> SUFFICES ASSUME TypeOK, SurvivalInv, stage = "done", process_snapshot_available,
                      NEW p \in descendants, Runs(p)
      PROVE  p \in survivors
    BY DEF NoKnownSurvivorLost, Runs
  <2>1. round = "report" => p \in survivors
    BY DEF SurvivalInv, CoverInv, Covered, process_snapshot_available, known_process_unreadable,
       survivors, Alive, descendants
  <2> QED BY <2>1 DEF SurvivalInv, CoverInv
<1> QED
  BY <1>1, SurvivalInvariant, PTL
-----------------------------------------------------------------------------
(* A steady tree is seen, as long as no pid is used twice: first what the  *)
(* kernel may do to the tree, then what the snapshot has of it on each     *)
(* platform, then the walk.                                                *)

Tree == TreeOf(table, InUse(table))

(* Nobody is the child of a zombie or of a pid that is free.               *)
KinInv ==
  /\ table[Root].parent = Outside
  /\ \A c \in Pids : table[c].parent \in Pids =>
       table[c].state # "free" /\ table[c].parent # c /\ table[table[c].parent].state = "R"

(* What a step may do to the table.                                        *)
Moves ==
  /\ \A c \in Pids : Given(c) => table'[c].life = 1
  /\ \A c \in Pids : Given(c) /\ table'[c].state # "free" => table[c].state # "free"
  /\ \A c \in Pids : table[c].state = "R" => table'[c].state # "free"
  /\ table'[Root].state = "R" => table[Root].state = "R"
  /\ \A c \in Pids : Given(c) /\ table'[c].parent \in Pids =>
       \/ table'[c].parent = table[c].parent
       \/ platform = "subreaper" /\ table'[c].parent = Root /\ table[c].parent \in Tree
  /\ platform = "subreaper" /\ table'[Root].state = "R" =>
       \A c \in InUse(table') : table[c].parent \in Tree => table'[c].parent \in {table[c].parent, Root}

(* Whoever is in a tree got there through a parent in it.                  *)
LEMMA TreeParent ==
  ASSUME NEW t, NEW present \in SUBSET Pids, NEW c \in TreeOf(t, present), c # Root
  PROVE  c \in present /\ t[c].parent \in TreeOf(t, present)
<1> DEFINE S == TreeOf(t, present) \ {c}
<1> SUFFICES ASSUME ~(c \in present /\ t[c].parent \in TreeOf(t, present)) PROVE FALSE
  OBVIOUS
<1>1. S \in SUBSET Pids /\ Root \in S
  BY SetsOfPids, TreeIsClosed
<1>2. \A d \in present : t[d].parent \in S => d \in S
  BY TreeIsClosed
<1>3. TreeOf(t, present) \subseteq S
  <2> HIDE DEF S
  <2> QED BY <1>1, <1>2, TreeIsLeast
<1> QED BY <1>3

LEMMA KernelIsKin ==
  ASSUME MaxLives = 1, TypeOK, TableInv, KinInv,
         Kernel \/ (Release(Root) /\ table[Root].state = "Z")
  PROVE  Moves /\ KinInv'
<1> USE ProcessTableAssumption DEF TypeOK, Process, Given
<1>0. table[Root].life = 1 /\ Root \in Pids /\ Outside \notin Pids /\ Tree \subseteq Pids
  BY SetsOfPids DEF TableInv, Ours, Who, Command, Tree
<1>1. ASSUME NEW c \in Pids, NEW parent \in Pids \cup {Outside}, NEW mine \in BOOLEAN,
             Allocate(c, parent, mine), parent \in Pids => table[parent].state = "R"
      PROVE  Moves /\ KinInv'
  <2>1. table[c].life = 0 /\ table[c].state = "free" /\ c # Root
    BY <1>0, <1>1 DEF Allocate
  <2>2. table' = [table EXCEPT ![c] = [state |-> "R", parent |-> parent, life |-> 1, mine |-> mine]]
    BY <1>1, <2>1 DEF Allocate
  <2>3. \A q \in Pids : q # c => table'[q] = table[q]
    BY <2>2
  <2>4. table'[c] = [state |-> "R", parent |-> parent, life |-> 1, mine |-> mine]
    BY <2>2
  <2>5. table[c].parent \notin Pids
    BY <2>1 DEF KinInv
  <2>6. KinInv'
    BY <1>0, <1>1, <2>1, <2>3, <2>4 DEF KinInv
  <2>7. Moves
    BY <1>0, <2>1, <2>3, <2>4, <2>5 DEF Moves, InUse
  <2> QED BY <2>6, <2>7
<1>2. ASSUME NEW p \in Pids, Exit(p) PROVE Moves /\ KinInv'
  <2>1. /\ table[p].state = "R"
        /\ \A q \in Pids : table'[q] =
             IF q = p THEN [table[q] EXCEPT !.state = "Z"]
             ELSE IF table[q].parent = p THEN [table[q] EXCEPT !.parent = Heir(p)]
             ELSE table[q]
    BY <1>2 DEF Exit
  <2>2. /\ table'[p].state = "Z" /\ table'[p].parent = table[p].parent /\ table'[p].life = table[p].life
        /\ \A q \in Pids \ {p} :
             /\ table'[q].state = table[q].state /\ table'[q].life = table[q].life
             /\ table'[q].parent = IF table[q].parent = p THEN Heir(p) ELSE table[q].parent
    <3>1. ASSUME NEW q \in Pids
          PROVE  /\ [table[q] EXCEPT !.state = "Z"].state = "Z"
                 /\ [table[q] EXCEPT !.state = "Z"].parent = table[q].parent
                 /\ [table[q] EXCEPT !.state = "Z"].life = table[q].life
                 /\ [table[q] EXCEPT !.parent = Heir(p)].state = table[q].state
                 /\ [table[q] EXCEPT !.parent = Heir(p)].parent = Heir(p)
                 /\ [table[q] EXCEPT !.parent = Heir(p)].life = table[q].life
      <4>1. table[q] \in Process
        OBVIOUS
      <4> QED BY <4>1
    <3>2. /\ table'[p].state = "Z" /\ table'[p].parent = table[p].parent
          /\ table'[p].life = table[p].life
      BY <2>1, <3>1
    <3>3. ASSUME NEW q \in Pids \ {p}
          PROVE  /\ table'[q].state = table[q].state /\ table'[q].life = table[q].life
                 /\ table'[q].parent = IF table[q].parent = p THEN Heir(p) ELSE table[q].parent
      <4>1. CASE table[q].parent = p
        <5>1. table'[q] = [table[q] EXCEPT !.parent = Heir(p)]
          BY <2>1, <4>1
        <5> QED BY <3>1, <4>1, <5>1
      <4>2. CASE table[q].parent # p
        <5>1. table'[q] = table[q]
          BY <2>1, <4>2
        <5> QED BY <4>2, <5>1
      <4> QED BY <4>1, <4>2
    <3> QED BY <3>2, <3>3
  <2>3. Heir(p) = Outside \/ (/\ Heir(p) = Root /\ platform = "subreaper"
                              /\ p \in Tree /\ p # Root /\ table[Root].state = "R")
    BY DEF Heir, Tree
  <2>4. platform = "subreaper" /\ p \in Tree /\ p # Root /\ table[Root].state = "R" => Heir(p) = Root
    BY DEF Heir, Tree
  <2>5. table[p].parent # p
    BY <1>0 DEF KinInv
  <2>6. KinInv'
    BY <1>0, <2>1, <2>2, <2>3, <2>5 DEF KinInv
  <2>7. Moves
    <3>1. \A c \in Pids : Given(c) /\ table'[c].parent \in Pids =>
       \/ table'[c].parent = table[c].parent
       \/ platform = "subreaper" /\ table'[c].parent = Root /\ table[c].parent \in Tree
      BY <1>0, <2>2, <2>3
    <3>2. ASSUME platform = "subreaper", table'[Root].state = "R", NEW c \in InUse(table'),
                 table[c].parent \in Tree
          PROVE  table'[c].parent \in {table[c].parent, Root}
      BY <1>0, <2>1, <2>2, <2>4, <3>2 DEF InUse
    <3> QED BY <1>0, <2>1, <2>2, <3>1, <3>2 DEF Moves
  <2> QED BY <2>6, <2>7
<1>3. ASSUME NEW p \in Pids, Release(p), table[p].state = "Z" PROVE Moves /\ KinInv'
  <2>1. /\ table'[p].state = "free" /\ table'[p].parent = Outside /\ table'[p].life = table[p].life
        /\ \A q \in Pids : q # p => table'[q] = table[q]
    BY <1>3 DEF Release
  <2>2. KinInv'
    BY <1>0, <1>3, <2>1 DEF KinInv
  <2>3. Moves
    BY <1>0, <1>3, <2>1 DEF Moves, InUse
  <2> QED BY <2>2, <2>3
<1>4. ASSUME NEW p \in Pids, NEW c \in Pids, Fork(p, c) PROVE Moves /\ KinInv'
  BY <1>1, <1>4 DEF Fork
<1>5. ASSUME NEW c \in Pids, Arrive(c) PROVE Moves /\ KinInv'
  BY <1>1, <1>5 DEF Arrive
<1> HIDE DEF Moves, KinInv
<1> QED
  BY <1>2, <1>3, <1>4, <1>5 DEF Kernel, Reap

LEMMA TableMoves ==
  ASSUME MaxLives = 1, TypeOK, TableInv, KinInv, [Next]_vars
  PROVE  Moves /\ KinInv' /\ UNCHANGED platform
<1>1. /\ UNCHANGED platform
      /\ UNCHANGED table \/ Kernel \/ (Release(Root) /\ table[Root].state = "Z")
  BY DEF Next, KernelStep, RunLens, Finished, vars, List, ListFails, Read, Begin, Inspect,
     ListChildren, Probe, BeginWalk, Walk, EndWalk, EndObserve,
     TryWaitReaps, TryWaitNone, BeginReport, PrintReport
<1>2. CASE UNCHANGED table
  <2>1. KinInv'
    BY <1>2 DEF KinInv
  <2>2. Moves
    BY <1>2, SetsOfPids DEF Moves, Given, InUse
  <2> QED BY <1>1, <2>1, <2>2
<1> QED BY <1>1, <1>2, KernelIsKin

(* The tree loses members; it gains only processes that are new.           *)
LEMMA TreeShrinks ==
  ASSUME TypeOK, TableInv, Moves, NEW p \in Tree', Given(p)
  PROVE  p \in Tree
<1> DEFINE S == Tree \cup {c \in Pids : ~Given(c)}
<1>0. InUse(table) \in SUBSET Pids /\ InUse(table') \in SUBSET Pids /\ Tree \subseteq Pids
      /\ Tree' = TreeOf(table', InUse(table'))
  BY SetsOfPids DEF Tree
<1>1. S \in SUBSET Pids /\ Root \in S
        /\ \A c \in InUse(table) : table[c].parent \in Tree => c \in Tree
  BY <1>0, TreeIsClosed DEF Tree
<1>2. ASSUME NEW c \in InUse(table'), table'[c].parent \in S PROVE c \in S
  <2> SUFFICES ASSUME Given(c) PROVE c \in Tree
    BY <1>0
  <2>1. c \in InUse(table) /\ table'[c].parent \in Pids
    BY <1>0, <1>1, <1>2 DEF Moves, InUse
  <2>2. CASE table'[c].parent = table[c].parent
    <3>1. Given(table[c].parent)
      BY <1>0, <2>1, <2>2 DEF TableInv, InUse
    <3> QED BY <1>1, <1>2, <2>1, <2>2, <3>1
  <2>3. CASE table[c].parent \in Tree
    BY <1>1, <2>1, <2>3
  <2> QED BY <1>0, <2>1, <2>2, <2>3 DEF Moves
<1>3. Tree' \subseteq S
  <2> HIDE DEF S
  <2> QED BY <1>0, <1>1, <1>2, TreeIsLeast
<1> QED BY <1>0, <1>3

(* A command that is a subreaper and runs keeps all its descendants.       *)
LEMMA TreeStays ==
  ASSUME KinInv, Moves, platform = "subreaper", table'[Root].state = "R"
  PROVE  Tree \cap InUse(table') \subseteq Tree'
<1> DEFINE S == {c \in Tree : c \in InUse(table') => c \in Tree'}
<1>0. InUse(table) \in SUBSET Pids /\ InUse(table') \in SUBSET Pids /\ Tree \subseteq Pids
      /\ Tree' = TreeOf(table', InUse(table'))
  BY SetsOfPids DEF Tree
<1>1. /\ S \in SUBSET Pids /\ Root \in S
      /\ \A c \in InUse(table) : table[c].parent \in Tree => c \in Tree
      /\ Root \in Tree' /\ \A c \in InUse(table') : table'[c].parent \in Tree' => c \in Tree'
  BY <1>0, TreeIsClosed DEF Tree
<1>2. ASSUME NEW c \in InUse(table), table[c].parent \in S PROVE c \in S
  <2> SUFFICES ASSUME c \in InUse(table') PROVE c \in Tree'
    BY <1>1, <1>2
  <2>1. table[c].parent \in Tree'
    BY <1>0, <1>2 DEF KinInv, Moves, InUse
  <2>2. table'[c].parent \in {table[c].parent, Root}
    BY <1>2 DEF Moves
  <2> QED BY <1>1, <2>1, <2>2
<1>3. Tree \subseteq S
  <2> HIDE DEF S
  <2> QED BY <1>0, <1>1, <1>2, TreeIsLeast DEF Tree
<1> QED BY <1>3
-----------------------------------------------------------------------------
(* The processes that were in the tree when /proc was listed: their parents*)
(* were, too, and are so as long as they have not been reparented.         *)
ListedInv ==
  /\ listed # {} => Root \in listed
  /\ \A c \in listed : Given(c)
  /\ \A c \in listed \ {Root} : table[c].parent \in Pids => table[c].parent \in listed

(* `listed' is what the tree was in the step that took it.                 *)
LEMMA ListedMoves ==
  ASSUME [Next]_vars
  PROVE  \/ UNCHANGED listed
         \/ UNCHANGED table /\ listed' = Tree
         \/ UNCHANGED table /\ listed' = {}
  BY DEF Next, KernelStep, RunLens, Finished, vars, List, ListFails, Read, Begin, Inspect,
     ListChildren, Probe, BeginWalk, Walk, EndWalk, EndObserve,
     TryWaitReaps, TryWaitNone, BeginReport, PrintReport, Tree

LEMMA ListedStep ==
  ASSUME MaxLives = 1, TypeOK, TableInv, KinInv, ListedInv, [Next]_vars
  PROVE  ListedInv'
<1>1. \/ UNCHANGED listed
      \/ UNCHANGED table /\ listed' = Tree
      \/ UNCHANGED table /\ listed' = {}
  BY ListedMoves
<1>2. CASE UNCHANGED listed
  <2>1. \A c \in listed : c \in Pids /\ Given(c)'
    BY TableMoves DEF ListedInv, Moves, Given, TypeOK
  <2>2. ASSUME NEW c \in listed \ {Root}, table'[c].parent \in Pids PROVE table'[c].parent \in listed
    <3>1. c \in Pids /\ Given(c) /\ Root \in listed
      BY DEF ListedInv, TypeOK
    <3>2. \/ table'[c].parent = table[c].parent
          \/ table'[c].parent = Root
      BY <2>2, <3>1, TableMoves DEF Moves
    <3> QED BY <2>2, <3>1, <3>2 DEF ListedInv
  <2> QED BY <1>2, <2>1, <2>2 DEF ListedInv
<1>3. CASE UNCHANGED table /\ listed' = Tree
  <2>1. InUse(table) \in SUBSET Pids /\ Root \in Tree /\ Tree \subseteq Pids
    BY SetsOfPids, TreeIsClosed DEF Tree
  <2>2. \A c \in Tree \ {Root} : c \in InUse(table) /\ table[c].parent \in Tree
    BY <2>1, TreeParent DEF Tree
  <2>3. Given(Root)
    BY DEF TableInv, Ours, Who, Command, Given
  <2>4. \A c \in Tree : Given(c)
    BY <2>1, <2>2, <2>3 DEF TableInv, InUse
  <2> QED BY <1>3, <2>1, <2>2, <2>4 DEF ListedInv, Given
<1>4. CASE UNCHANGED table /\ listed' = {}
  BY <1>4 DEF ListedInv
<1> QED BY <1>1, <1>2, <1>3, <1>4

(* Unless the command adopts its orphans, a parent pid in the snapshot is  *)
(* out of date only where the parent is no descendant any more.            *)
LinkInv ==
  platform # "subreaper" =>
    \A c \in Found : table[c].parent \in Pids => processes[c].parent = table[c].parent

LEMMA LinkStep ==
  ASSUME MaxLives = 1, TypeOK, TableInv, SnapshotInv, KinInv, LinkInv, [Next]_vars
  PROVE  LinkInv'
<1> SUFFICES ASSUME platform # "subreaper", NEW c \in Found', table'[c].parent \in Pids
             PROVE  processes'[c].parent = table'[c].parent
  BY TableMoves DEF LinkInv
<1>1. c \in Pids
  BY DEF Found
<1>2. CASE c \in Found /\ processes'[c] = processes[c]
  <2>1. Given(c)
    BY <1>2 DEF SnapshotInv, EntryInv, Given
  <2>2. table'[c].parent = table[c].parent
    BY <1>1, <2>1, TableMoves DEF Moves
  <2> QED BY <1>2, <2>2 DEF LinkInv
<1>3. CASE UNCHANGED table /\ processes'[c] = Entry(c)
  BY <1>3 DEF Entry
<1>4. ASSUME NEW p \in Pids, processes' = [processes EXCEPT ![p] = Entry(p)], UNCHANGED table
      PROVE  processes'[c].parent = table'[c].parent
  <2>1. p = c => processes'[c] = Entry(c)
    BY <1>4 DEF TypeOK
  <2>2. p # c => processes'[c] = processes[c] /\ c \in Found
    BY <1>1, <1>4 DEF TypeOK, Found
  <2> QED BY <1>2, <1>3, <1>4, <2>1, <2>2
<1>5. CASE UNCHANGED processes
  BY <1>2, <1>5 DEF Found
<1>6. CASE processes' = [p \in Pids |-> NoInfo]
  BY <1>1, <1>6 DEF Found, NoInfo
<1>7. \/ UNCHANGED processes
      \/ processes' = [p \in Pids |-> NoInfo]
      \/ \E p \in Pids : processes' = [processes EXCEPT ![p] = Entry(p)] /\ UNCHANGED table
  BY DEF Next, KernelStep, RunLens, Finished, vars, List, ListFails, Read, Begin, Inspect,
     ListChildren, Probe, BeginWalk, Walk, EndWalk, EndObserve,
     TryWaitReaps, TryWaitNone, BeginReport, PrintReport, snapshot, EmptySnapshot
<1> QED BY <1>4, <1>5, <1>6, <1>7
-----------------------------------------------------------------------------
(* On Linux each of them is read, or found unreadable.                     *)
Complete == available /\ unreadable_pids = {}

ScanInv ==
  platform # "macos" =>
    /\ stage \notin {"probe", "children"}
    /\ stage \in {"read", "update"} /\ Complete =>
         /\ todo \cap Found = {} /\ (stage = "update" => todo = {})
         /\ \A c \in listed \ {Root} : c \in todo \/ c \in Found

(* What a read leaves of the snapshot that it adds to.                     *)
LEMMA Reading ==
  ASSUME TypeOK, NEW p \in Pids, Read(p), Complete'
  PROVE  /\ Complete /\ stage = "read" /\ p \in todo /\ p \in InUse(table)
         /\ UNCHANGED <<table, listed>> /\ todo' = todo \ {p}
         /\ stage' = "update" => todo' = {}
         /\ Found' = Found \cup {p}
         /\ processes'[p] = Entry(p) /\ \A c \in Pids \ {p} : processes'[c] = processes[c]
<1>1. table[p].state # "free" /\ processes' = [processes EXCEPT ![p] = Entry(p)]
  BY DEF Read, Complete
<1>2. processes'[p] = Entry(p) /\ \A c \in Pids \ {p} : processes'[c] = processes[c]
  BY <1>1 DEF TypeOK
<1>3. table[p].state \in {"R", "Z"}
  BY <1>1 DEF TypeOK, Process
<1>4. processes'[p].state # "none"
  BY <1>2, <1>3 DEF Entry
<1>5. Found' = Found \cup {p}
  BY <1>2, <1>4 DEF Found
<1> QED BY <1>1, <1>2, <1>5 DEF Read, Complete, Rest, InUse

LEMMA ScanStep ==
  ASSUME TypeOK, ScanInv, [Next]_vars
  PROVE  ScanInv'
<1> SUFFICES ASSUME platform # "macos" PROVE ScanInv'
  BY DEF ScanInv, Next, KernelStep, RunLens, Finished, vars
<1> USE DEF snapshot, recorded
<1>1. stage \notin {"probe", "children"} /\ stage' \notin {"probe", "children"}
  BY DEF ScanInv, Next, KernelStep, RunLens, Finished, vars, List, ListFails, Read, Begin,
     Inspect, ListChildren, Probe, BeginWalk, Walk, EndWalk,
     EndObserve, TryWaitReaps, TryWaitNone, BeginReport, PrintReport, Rest
<1> SUFFICES ASSUME stage' \in {"read", "update"}, Complete'
             PROVE  /\ todo' \cap Found' = {} /\ (stage' = "update" => todo' = {})
                    /\ \A c \in listed' \ {Root} : c \in todo' \/ c \in Found'
  BY <1>1 DEF ScanInv
<1>2. CASE UNCHANGED <<stage, todo, snapshot, listed>>
  BY <1>2 DEF ScanInv, Complete, Found
<1>3. CASE List
  <2>1. todo' = InUse(table) /\ listed' = Tree /\ Found' = {} /\ (stage' = "update" => todo' = {})
    BY <1>3 DEF List, EmptySnapshot, Found, NoInfo, Rest, Tree
  <2>2. \A c \in Tree \ {Root} : c \in InUse(table)
    BY SetsOfPids, TreeParent DEF Tree
  <2> QED BY <2>1, <2>2
<1>4. ASSUME NEW p \in Pids, Read(p)
      PROVE  /\ todo' \cap Found' = {} /\ (stage' = "update" => todo' = {})
             /\ \A c \in listed' \ {Root} : c \in todo' \/ c \in Found'
  BY <1>4, Reading DEF ScanInv
<1> QED
  BY <1>1, <1>2, <1>3, <1>4 DEF Next, KernelStep, RunLens, Finished, vars, ListFails, Begin,
     Inspect, ListChildren, Probe, BeginWalk, Walk, EndWalk,
     EndObserve, TryWaitReaps, TryWaitNone, BeginReport, PrintReport, Complete
-----------------------------------------------------------------------------
(* Where the command adopts its orphans, parent pids get out of date all   *)
(* the time.  But then the tree keeps its processes, and what a parent pid *)
(* changes to is the root: with the links of the snapshot, for the pids    *)
(* still to be read those of the table, all that was listed hangs together.*)
Link(c) == [parent |-> IF c \in Found THEN processes[c].parent ELSE table[c].parent]
Linked == TreeOf([c \in Pids |-> Link(c)], listed)

SubreaperInv ==
  platform = "subreaper" /\ table[Root].state = "R" =>
    /\ listed \cap InUse(table) \subseteq Tree
    /\ stage \in {"read", "update"} /\ Complete /\ todo \cap listed \subseteq InUse(table) =>
         listed \subseteq Linked

(* A link that leads to the root instead takes nobody out of the tree.     *)
LEMMA TreeGrows ==
  ASSUME NEW t, NEW u, NEW present \in SUBSET Pids,
         \A c \in present \ {Root} : u[c].parent \in {t[c].parent, Root}
  PROVE  TreeOf(t, present) \subseteq TreeOf(u, present)
<1> DEFINE S == TreeOf(u, present)
<1>1. S \in SUBSET Pids /\ Root \in S /\ \A c \in present : u[c].parent \in S => c \in S
  BY SetsOfPids, TreeIsClosed
<1>2. \A c \in present : t[c].parent \in S => c \in S
  BY <1>1
<1> HIDE DEF S
<1>3. TreeOf(t, present) \subseteq S
  BY <1>1, <1>2, TreeIsLeast
<1> QED BY <1>3 DEF S

LEMMA SubreaperStep ==
  ASSUME MaxLives = 1, TypeOK, TableInv, KinInv, ListedInv, ScanInv, SubreaperInv, [Next]_vars
  PROVE  SubreaperInv'
<1> SUFFICES ASSUME platform = "subreaper", table'[Root].state = "R" PROVE SubreaperInv'
  BY TableMoves DEF SubreaperInv
<1> USE DEF snapshot, recorded
<1>1. table[Root].state = "R" /\ Moves /\ KinInv' /\ UNCHANGED platform
  BY TableMoves DEF Moves
<1>2. listed' \cap InUse(table') \subseteq Tree'
  <2>1. CASE UNCHANGED listed
    <3>1. ASSUME NEW c \in listed, c \in InUse(table') PROVE c \in Tree'
      <4>1. c \in InUse(table)
        BY <1>1, <3>1 DEF ListedInv, Moves, InUse
      <4>2. c \in Tree
        BY <1>1, <4>1 DEF SubreaperInv
      <4> QED BY <1>1, <3>1, <4>2, TreeStays
    <3> QED BY <2>1, <3>1
  <2>2. CASE UNCHANGED table /\ listed' = Tree
    BY <2>2 DEF Tree
  <2> QED BY <2>1, <2>2, ListedMoves
<1>3. ASSUME stage' \in {"read", "update"}, Complete', todo' \cap listed' \subseteq InUse(table')
      PROVE  listed' \subseteq Linked'
  <2> DEFINE links == [c \in Pids |-> Link(c)]
             now == [c \in Pids |-> Link(c)']
  <2>0. /\ Linked = TreeOf(links, listed) /\ Linked' = TreeOf(now, listed')
        /\ listed \in SUBSET Pids
    BY DEF Linked, TypeOK
  <2>1. ASSUME UNCHANGED listed, listed \subseteq Linked,
               \A c \in listed \ {Root} : Link(c)'.parent \in {Link(c).parent, Root}
        PROVE  listed' \subseteq Linked'
    <3>1. \A c \in listed \ {Root} : now[c].parent \in {links[c].parent, Root}
      BY <2>0, <2>1
    <3> HIDE DEF links, now
    <3>2. TreeOf(links, listed) \subseteq TreeOf(now, listed)
      BY <2>0, <3>1, TreeGrows
    <3> QED BY <2>0, <2>1, <3>2
  <2>2. CASE UNCHANGED <<stage, todo, snapshot, listed>>
    <3>1. Complete /\ Found' = Found /\ processes' = processes
      BY <1>3, <2>2 DEF Complete, Found
    <3>2. todo \cap listed \subseteq InUse(table)
      BY <1>1, <1>3, <2>2 DEF ListedInv, Moves, InUse
    <3>3. listed \subseteq Linked
      BY <1>1, <1>3, <2>2, <3>1, <3>2 DEF SubreaperInv
    <3>4. ASSUME NEW c \in listed \ {Root} PROVE Link(c)'.parent \in {Link(c).parent, Root}
      <4>1. CASE c \in Found
        BY <3>1, <4>1 DEF Link
      <4>2. CASE c \notin Found
        <5>1. c \in todo /\ c \in InUse(table) /\ c \in InUse(table')
          BY <1>1, <1>3, <2>2, <3>1, <3>2, <4>2 DEF ScanInv
        <5>2. c \in Tree
          BY <1>1, <5>1 DEF SubreaperInv
        <5>3. table[c].parent \in Tree
          BY <5>2, SetsOfPids, TreeParent DEF Tree
        <5>4. table'[c].parent \in {table[c].parent, Root}
          BY <1>1, <5>1, <5>3 DEF Moves
        <5> QED BY <3>1, <4>2, <5>4 DEF Link
      <4> QED BY <4>1, <4>2
    <3> QED BY <2>1, <2>2, <3>3, <3>4
  <2>3. ASSUME NEW p \in Pids, Read(p) PROVE listed' \subseteq Linked'
    <3>1. /\ Complete /\ stage = "read" /\ p \in todo /\ p \in InUse(table)
          /\ UNCHANGED <<table, listed>> /\ todo' = todo \ {p} /\ Found' = Found \cup {p}
          /\ processes'[p] = Entry(p) /\ \A c \in Pids \ {p} : processes'[c] = processes[c]
      BY <1>3, <2>3, Reading
    <3>2. todo \cap listed \subseteq InUse(table)
      BY <1>3, <3>1
    <3>3. listed \subseteq Linked
      BY <1>1, <3>1, <3>2 DEF SubreaperInv
    <3>4. p \notin Found
      BY <1>1, <3>1 DEF ScanInv
    <3>5. \A c \in listed : Link(c)'.parent = Link(c).parent
      BY <2>0, <3>1, <3>4 DEF Link, Entry
    <3> QED BY <2>1, <3>1, <3>3, <3>5
  <2>4. CASE List
    <3>1. UNCHANGED table /\ listed' = Tree /\ Found' = {}
      BY <2>4 DEF List, EmptySnapshot, Found, NoInfo, Tree
    <3>2. Tree \in SUBSET Pids /\ InUse(table) \in SUBSET Pids
      BY SetsOfPids DEF Tree
    <3>3. \A c \in Tree : now[c].parent = table[c].parent
      BY <3>1, <3>2 DEF Link
    <3>4. /\ Linked' \in SUBSET Pids /\ Root \in Linked'
          /\ \A c \in Tree : table[c].parent \in Linked' => c \in Linked'
      <4> HIDE DEF now
      <4>1. Linked' = TreeOf(now, Tree)
        BY <2>0, <3>1
      <4> QED BY <3>2, <3>3, <4>1, SetsOfPids, TreeIsClosed
    <3> DEFINE S == Linked' \cup (Pids \ Tree)
    <3>5. ASSUME NEW c \in InUse(table), table[c].parent \in S PROVE c \in S
      <4>1. c \in Tree /\ c # Root => table[c].parent \in Tree
        BY <3>2, TreeParent DEF Tree
      <4> QED BY <3>2, <3>4, <3>5, <4>1
    <3>6. Tree \subseteq S
      <4>1. S \in SUBSET Pids /\ Root \in S
        BY <3>4
      <4> HIDE DEF S
      <4> QED BY <3>2, <3>5, <4>1, TreeIsLeast DEF Tree
    <3> QED BY <3>1, <3>6
  <2>5. stage \notin {"probe", "children"}
    BY <1>1 DEF ScanInv
  <2> HIDE DEF links, now
  <2> QED
    BY <1>1, <1>3, <2>2, <2>3, <2>4, <2>5 DEF Next, KernelStep, RunLens, Finished, vars,
       ListFails, Begin, Inspect, ListChildren, Probe, BeginWalk, Walk, EndWalk, EndObserve, TryWaitReaps, TryWaitNone, BeginReport, PrintReport,
       Complete
<1> QED BY <1>2, <1>3 DEF SubreaperInv
-----------------------------------------------------------------------------
(* On macOS, where the snapshot itself goes from parents to children: what *)
(* has been popped is in the snapshot, and its children are in it or still *)
(* to come, but for processes that have lost their parents since.          *)
ChildrenInv ==
  platform = "macos" /\ stage \in {"read", "probe", "children", "update"} =>
    /\ Root \in todo \cup seen /\ \A c \in todo \cup seen : Given(c)
    /\ stage \in {"probe", "children"} => at \in seen
    /\ stage = "update" => todo = {}
    /\ \A c \in todo \ (known_pids \cup {Root}) : table[c].parent \in Pids => table[c].parent \in seen
    /\ unreadable_pids = {} =>
         /\ \A c \in seen \ {Root} : table[c].parent \in Pids =>
              c \in Found \/ (stage = "probe" /\ at = c)
         /\ \A c \in listed \ {Root}, q \in seen :
              table[c].parent = q /\ (q = Root \/ table[q].parent \in Pids) =>
                c \in todo \cup seen \/ (stage \in {"probe", "children"} /\ at = q)

LEMMA ChildrenStep ==
  ASSUME MaxLives = 1, TypeOK, OneLifeInv, KinInv, ListedInv, ChildrenInv, [Next]_vars
  PROVE  ChildrenInv'
<1> SUFFICES ASSUME platform = "macos", stage' \in {"read", "probe", "children", "update"}
             PROVE  ChildrenInv'
  BY TableMoves DEF ChildrenInv, OneLifeInv
<1> USE DEF snapshot, recorded
<1>1. Moves /\ KinInv' /\ UNCHANGED platform /\ Root \in Pids
  BY TableMoves, ProcessTableAssumption DEF OneLifeInv
<1>2. todo \subseteq Pids /\ seen \subseteq Pids /\ listed \subseteq Pids
  BY DEF TypeOK
<1>3. CASE KernelStep
  <2>1. /\ UNCHANGED <<stage, todo, seen, at, unreadable_pids, listed>>
        /\ Found' = Found /\ known_pids' = known_pids
    BY <1>3 DEF KernelStep, Found, known_pids, descendants
  <2>2. \A c \in Pids : Given(c) => Given(c)'
    BY <1>1 DEF Moves, Given
  <2>3. \A c \in Pids : Given(c) /\ table'[c].parent \in Pids => table'[c].parent = table[c].parent
    BY <1>1 DEF Moves
  <2>4. \A c \in listed : Given(c)
    BY DEF ListedInv
  <2>5. \A c \in todo \cup seen : Given(c)
    BY <2>1 DEF ChildrenInv
  <2>6. ASSUME NEW c \in todo \ (known_pids \cup {Root}), table'[c].parent \in Pids
        PROVE  table'[c].parent \in seen
    BY <1>2, <2>1, <2>3, <2>5, <2>6 DEF ChildrenInv
  <2>7. ASSUME unreadable_pids = {}, NEW c \in seen \ {Root}, table'[c].parent \in Pids
        PROVE  c \in Found \/ (stage = "probe" /\ at = c)
    BY <1>2, <2>1, <2>3, <2>5, <2>7 DEF ChildrenInv
  <2>8. ASSUME unreadable_pids = {}, NEW c \in listed \ {Root}, NEW q \in seen,
               table'[c].parent = q, q = Root \/ table'[q].parent \in Pids
        PROVE  c \in todo \cup seen \/ (stage \in {"probe", "children"} /\ at = q)
    <3>1. table[c].parent = q /\ (q = Root \/ table[q].parent \in Pids)
      BY <1>2, <2>3, <2>4, <2>5, <2>8
    <3> QED BY <2>1, <2>8, <3>1 DEF ChildrenInv
  <2>9. \A c \in todo \cup seen : Given(c)'
    BY <1>2, <2>2, <2>5
  <2> QED BY <2>1, <2>6, <2>7, <2>8, <2>9 DEF ChildrenInv
<1>4. CASE Begin
  <2>1. /\ todo' = {Root} \cup known_pids /\ seen' = {} /\ stage' = "read"
        /\ known_pids' = known_pids /\ UNCHANGED table
    BY <1>4 DEF Begin, known_pids, descendants
  <2>2. \A c \in {Root} \cup known_pids : Given(c)
    BY DEF OneLifeInv, RecordInv, TableInv, Ours, Who, Command, Given, known_pids, descendants
  <2> QED BY <2>1, <2>2 DEF ChildrenInv, Given
<1>5. ASSUME NEW p \in Pids, Inspect(p) PROVE ChildrenInv'
  <2>1. /\ stage = "read" /\ p \in todo /\ seen' = seen \cup {p} /\ todo' = todo \ {p}
        /\ UNCHANGED <<table, unreadable_pids, listed>> /\ known_pids' = known_pids
        /\ stage' = "update" => todo' = {}
    BY <1>5 DEF Inspect, Rest, known_pids, descendants
  <2>2. \/ stage' = "probe" /\ at' = p /\ UNCHANGED processes
        \/ stage' = "children" /\ at' = p /\ processes' = [processes EXCEPT ![p] = Entry(p)]
             /\ table[p].state # "free"
        \/ /\ p \notin known_pids \cup {Root} /\ table[p].parent \notin seen'
           /\ UNCHANGED processes /\ stage' \in {"read", "update"}
    BY <1>5 DEF Inspect, Rest
  <2>3. p \notin known_pids \cup {Root} /\ table[p].parent \notin seen' => table[p].parent \notin Pids
    BY <2>1 DEF ChildrenInv
  <2>4. Found \subseteq Found' /\ (stage' = "children" => p \in Found')
    <3>1. CASE UNCHANGED processes /\ stage' # "children"
      BY <3>1 DEF Found
    <3>2. CASE processes' = [processes EXCEPT ![p] = Entry(p)] /\ table[p].state # "free"
      <4>1. processes'[p] = Entry(p) /\ \A c \in Pids \ {p} : processes'[c] = processes[c]
        BY <3>2 DEF TypeOK
      <4>2. Entry(p).state # "none"
        BY <3>2 DEF Entry, TypeOK, Process
      <4> QED BY <4>1, <4>2 DEF Found
    <3> QED BY <2>2, <3>1, <3>2
  <2>5. ASSUME NEW c \in todo' \ (known_pids \cup {Root}), table[c].parent \in Pids
        PROVE  table[c].parent \in seen'
    BY <2>1, <2>5 DEF ChildrenInv
  <2>6. ASSUME unreadable_pids = {}, NEW c \in seen' \ {Root}, table[c].parent \in Pids
        PROVE  c \in Found' \/ (stage' = "probe" /\ at' = c)
    <3>1. CASE c = p
      BY <2>2, <2>3, <2>4, <2>6, <3>1
    <3>2. CASE c # p
      BY <2>1, <2>4, <2>6, <3>2 DEF ChildrenInv
    <3> QED BY <3>1, <3>2
  <2>7. ASSUME unreadable_pids = {}, NEW c \in listed \ {Root}, NEW q \in seen',
               table[c].parent = q, q = Root \/ table[q].parent \in Pids
        PROVE  c \in todo' \cup seen' \/ (stage' \in {"probe", "children"} /\ at' = q)
    <3>1. CASE q = p
      BY <2>2, <2>3, <2>7, <3>1
    <3>2. CASE q # p
      BY <2>1, <2>7, <3>2 DEF ChildrenInv
    <3> QED BY <3>1, <3>2
  <2>8. /\ Root \in todo' \cup seen' /\ \A c \in todo' \cup seen' : Given(c)'
        /\ stage' \in {"probe", "children"} => at' \in seen'
    BY <2>1, <2>2 DEF ChildrenInv, Given
  <2> QED BY <2>1, <2>5, <2>6, <2>7, <2>8 DEF ChildrenInv
<1>6. CASE ListChildren
  <2> DEFINE children == {c \in InUse(table) : table[c].parent = at} \ seen
  <2>1. /\ stage = "children" /\ UNCHANGED <<table, seen, unreadable_pids, listed>>
        /\ Found' = Found /\ known_pids' = known_pids
    BY <1>6 DEF ListChildren, Found, known_pids, descendants
  <2>2. \/ todo' = todo \cup children /\ stage' = Rest(todo')
        \/ stage' = "probe" /\ UNCHANGED <<todo, at>>
    BY <1>6 DEF ListChildren
  <2>3. at \in seen /\ children \subseteq Pids /\ \A c \in children : Given(c) /\ table[c].parent = at
    BY <2>1 DEF ChildrenInv, InUse, OneLifeInv, TableInv
  <2>4. ASSUME NEW c \in listed, table[c].parent = at PROVE c \in children \cup seen
    BY <1>2, <2>3, <2>4 DEF KinInv, InUse
  <2> HIDE DEF children
  <2>5. CASE todo' = todo \cup children /\ stage' = Rest(todo')
    <3>1. stage' \in {"read", "update"} /\ (stage' = "update" => todo' = {})
      BY <2>5 DEF Rest
    <3> QED BY <2>1, <2>3, <2>4, <2>5, <3>1 DEF ChildrenInv, Given
  <2>6. CASE stage' = "probe" /\ UNCHANGED <<todo, at>>
    BY <2>1, <2>3, <2>6 DEF ChildrenInv, Given
  <2> QED BY <2>2, <2>5, <2>6
<1>7. CASE Probe
  <2>1. /\ stage = "probe" /\ UNCHANGED <<table, todo, seen, listed>>
        /\ Found' = Found /\ known_pids' = known_pids
        /\ stage' \in {"read", "update"} /\ (stage' = "update" => todo' = {})
        /\ unreadable_pids' = {} => unreadable_pids = {} /\ table[at].state = "free"
    BY <1>7 DEF Probe, Rest, Found, known_pids, descendants
  <2>2. at \in Pids
    BY DEF TypeOK
  <2>3. table[at].state = "free" => /\ table[at].parent \notin Pids
                                    /\ \A c \in Pids : table[c].parent # at
    BY <2>2 DEF KinInv
  <2>4. unreadable_pids' = {} =>
          /\ \A c \in seen \ {Root} : table[c].parent \in Pids => c \in Found
          /\ \A c \in listed \ {Root}, q \in seen :
               table[c].parent = q /\ (q = Root \/ table[q].parent \in Pids) => c \in todo \cup seen
    BY <1>2, <2>1, <2>2, <2>3 DEF ChildrenInv
  <2> QED BY <2>1, <2>4 DEF ChildrenInv, Given
<1>8. CASE UNCHANGED vars
  <2>1. /\ UNCHANGED <<table, stage, todo, seen, at, unreadable_pids, listed, observed, processes>>
    BY <1>8 DEF vars
  <2> QED BY <2>1 DEF ChildrenInv, Given, Found, known_pids, descendants
<1> QED
  BY <1>3, <1>4, <1>5, <1>6, <1>7, <1>8 DEF Next, RunLens, Finished, List, ListFails, Read,
     BeginWalk, Walk, EndWalk, EndObserve, TryWaitReaps,
     TryWaitNone, BeginReport, PrintReport
-----------------------------------------------------------------------------
(* What the snapshot shows is recorded by the walk, and the tree that was  *)
(* listed and still is one is what the snapshot shows.                     *)
SeenInv ==
  /\ stage = "walk" => seen \ {Root} \subseteq descendants
  /\ stage = "files" => TreeOf(processes, Found) \ {Root} \subseteq descendants
  /\ stage \in {"walk", "files"} /\ Complete => listed \cap Tree \subseteq TreeOf(processes, Found)

SteadyInv == /\ KinInv /\ ListedInv /\ LinkInv /\ ScanInv
             /\ SubreaperInv /\ ChildrenInv /\ SeenInv

(* G holds whatever the snapshot has come to.                              *)
LEMMA ListedIsReached ==
  ASSUME ListedInv, LinkInv, platform # "subreaper", NEW G \in SUBSET Pids, Root \in G,
         \A c \in listed \ {Root} :
           /\ table[c].parent \in G
           /\ table[c].parent = Root \/ table[table[c].parent].parent \in Pids
           => c \in G /\ c \in Found
  PROVE  listed \cap Tree \subseteq TreeOf(processes, Found)
<1> DEFINE T == TreeOf(processes, Found)
           S == {c \in Pids : c \in listed => /\ c \in T /\ c \in G
                                              /\ c = Root \/ table[c].parent \in Pids}
<1>1. InUse(table) \in SUBSET Pids /\ Found \in SUBSET Pids
  BY SetsOfPids DEF Found
<1>2. Root \in T /\ \A c \in Found : processes[c].parent \in T => c \in T
  BY <1>1, TreeIsClosed
<1> HIDE DEF T
<1>3. S \in SUBSET Pids /\ Root \in S
  BY <1>2
<1>4. ASSUME NEW c \in InUse(table), table[c].parent \in S PROVE c \in S
  <2> SUFFICES ASSUME c \in listed, c # Root
      PROVE  c \in T /\ c \in G /\ table[c].parent \in Pids
    BY <1>1, <1>2
  <2>1. table[c].parent \in Pids /\ table[c].parent \in listed
    BY <1>4 DEF ListedInv
  <2>2. /\ table[c].parent \in T /\ table[c].parent \in G
        /\ table[c].parent = Root \/ table[table[c].parent].parent \in Pids
    BY <1>4, <2>1
  <2>3. c \in G /\ c \in Found
    BY <2>2
  <2>4. processes[c].parent = table[c].parent
    BY <2>1, <2>3 DEF LinkInv
  <2> QED BY <1>2, <2>1, <2>2, <2>3, <2>4
<1>5. Tree \subseteq S
  <2> HIDE DEF S
  <2> QED BY <1>1, <1>3, <1>4, TreeIsLeast DEF Tree
<1> QED BY <1>5 DEF T

LEMMA SnapshotHasTheTree ==
  ASSUME TypeOK, KinInv, ListedInv, LinkInv, ScanInv, SubreaperInv, ChildrenInv,
         stage = "update", Complete
  PROVE  listed \cap Tree \subseteq TreeOf(processes, Found)
<1>0. Root \in Pids /\ listed \in SUBSET Pids /\ Found \in SUBSET Pids /\ InUse(table) \in SUBSET Pids
  BY ProcessTableAssumption, SetsOfPids DEF TypeOK, Found
<1>1. CASE platform = "macos"
  <2>1. /\ Root \in seen /\ seen \in SUBSET Pids /\ unreadable_pids = {}
        /\ todo = {}
    BY <1>1 DEF ChildrenInv, Complete, TypeOK
  <2>2. ASSUME NEW c \in listed \ {Root}, table[c].parent \in seen,
               table[c].parent = Root \/ table[table[c].parent].parent \in Pids
        PROVE  c \in seen /\ c \in Found
    <3>1. c \in seen
      BY <1>1, <2>1, <2>2 DEF ChildrenInv
    <3>2. table[c].parent \in Pids
      BY <2>1, <2>2
    <3> QED BY <1>1, <2>1, <3>1, <3>2 DEF ChildrenInv
  <2> QED BY <1>1, <2>1, <2>2, ListedIsReached
<1>2. CASE platform \notin {"macos", "subreaper"}
  <2>1. \A c \in listed \ {Root} : c \in Pids /\ c \in Found
    BY <1>0, <1>2 DEF ScanInv
  <2> QED BY <1>0, <1>2, <2>1, ListedIsReached
<1>3. CASE platform = "subreaper" /\ table[Root].state = "R"
  <2> DEFINE links == [c \in Pids |-> Link(c)]
             T == TreeOf(processes, Found)
  <2>1. todo = {} /\ \A c \in listed \ {Root} : c \in Found
    BY <1>3 DEF ScanInv
  <2>2. listed \subseteq Linked /\ Linked = TreeOf(links, listed)
    BY <1>3, <2>1 DEF SubreaperInv, Linked
  <2>3. T \in SUBSET Pids /\ Root \in T /\ \A c \in Found : processes[c].parent \in T => c \in T
    BY <1>0, SetsOfPids, TreeIsClosed
  <2>4. \A c \in listed \ {Root} : links[c].parent = processes[c].parent
    BY <1>0, <2>1 DEF Link
  <2> HIDE DEF links, T
  <2>5. TreeOf(links, listed) \subseteq T
    BY <2>1, <2>3, <2>4, TreeIsLeast
  <2> QED BY <2>2, <2>5 DEF T
<1>4. CASE table[Root].state # "R"
  <2>1. \A c \in InUse(table) : table[c].parent # Root
    BY <1>0, <1>4 DEF KinInv
  <2>2. Tree \subseteq {Root}
    BY <1>0, <2>1, TreeIsLeast DEF Tree
  <2> QED BY <1>0, <2>2, TreeIsClosed
<1> QED BY <1>1, <1>2, <1>3, <1>4

LEMMA RefreshRecords ==
  ASSUME TypeOK, SnapshotInv, RecordInv, NEW pids \in SUBSET Found, Refresh(pids)
  PROVE  descendants' = descendants \cup (pids \ {Root})
<1>1. ASSUME NEW p \in Pids PROVE observed'[p] # NoRecord <=> observed[p] # NoRecord \/ p \in pids
  <2>1. CASE p \notin pids
    BY <2>1 DEF Refresh
  <2>2. CASE p \in pids
    <3>1. observed'[p] = Refreshed(p)
      BY <2>2 DEF Refresh
    <3>2. processes[p].who.life = 1
      <4>1. processes[p].who = Who(table[p]) /\ table[p].life = 1
        BY <2>2 DEF SnapshotInv, EntryInv
      <4>2. Who(table[p]).life = table[p].life
        BY DEF Who
      <4> QED BY <4>1, <4>2
    <3>3. NoRecord.first.life = 0 /\ Command.life = 1
      BY DEF NoRecord, Nobody, Command
    <3>4. Refreshed(p).first.life = 1
      <4>1. CASE observed[p] = NoRecord
        BY <3>2, <4>1 DEF Refreshed
      <4>2. CASE observed[p] # NoRecord
        <5>1. observed[p].first = Command /\ observed[p] \in ObservedProcess
          BY <4>2 DEF RecordInv, TypeOK
        <5>2. Refreshed(p).first = observed[p].first
          BY <4>2, <5>1 DEF Refreshed, ObservedProcess
        <5> QED BY <3>3, <5>1, <5>2
      <4> QED BY <4>1, <4>2
    <3> QED BY <2>2, <3>1, <3>3, <3>4
  <2> QED BY <2>1, <2>2
<1> QED BY <1>1 DEF descendants, Found

LEMMA SeenStep ==
  ASSUME MaxLives = 1, TypeOK, WalkInv, OneLifeInv, SteadyInv, [Next]_vars
  PROVE  SeenInv'
<1> USE DEF snapshot, recorded, SteadyInv, OneLifeInv
<1>0. Moves /\ Found \in SUBSET Pids
  BY TableMoves DEF Found
<1>1. CASE BeginWalk
  <2>1. /\ stage = "update" /\ stage' = "walk" /\ seen' = {Root}
        /\ UNCHANGED <<table, processes, unreadable_pids, available, listed>>
        /\ Found' = Found
    BY <1>1 DEF BeginWalk, Found
  <2>2. Complete => listed \cap Tree \subseteq TreeOf(processes, Found)
    BY <2>1, SnapshotHasTheTree
  <2> QED BY <2>1, <2>2 DEF SeenInv, Complete, Tree
<1>2. ASSUME NEW p \in Pids, Walk(p) PROVE SeenInv'
  <2>1. /\ stage = "walk" /\ stage' = "walk" /\ seen' = seen \cup Children(p)
        /\ UNCHANGED <<table, processes, unreadable_pids, available, listed>>
        /\ Found' = Found /\ Refresh(Children(p))
    BY <1>2 DEF Walk, Found
  <2>2. Children(p) \in SUBSET Found
    BY DEF Children
  <2>3. descendants' = descendants \cup (Children(p) \ {Root})
    BY <2>1, <2>2, RefreshRecords
  <2> QED BY <2>1, <2>3 DEF SeenInv, Complete, Tree
<1>3. CASE EndWalk
  <2>1. /\ stage = "walk" /\ todo = {} /\ stage' = "files"
        /\ UNCHANGED <<table, processes, observed, unreadable_pids, available, listed>>
        /\ Found' = Found /\ descendants' = descendants
    BY <1>3 DEF EndWalk, Found, descendants
  <2>2. TreeOf(processes, Found) \subseteq seen
    <3>1. Root \in seen /\ seen \in SUBSET Pids
          /\ \A c \in Found : processes[c].parent \in seen => c \in seen
      BY <2>1 DEF WalkInv, TypeOK
    <3> QED BY <3>1, TreeIsLeast
  <2> QED BY <2>1, <2>2 DEF SeenInv, Complete, Tree
<1>4. CASE KernelStep \/ UNCHANGED vars
  <2>1. /\ UNCHANGED <<stage, processes, observed, unreadable_pids, available, listed>>
        /\ Found' = Found /\ descendants' = descendants
        /\ stage = "walk" => UNCHANGED seen
    BY <1>4 DEF KernelStep, vars, Found, descendants
  <2>2. \A p \in listed \cap Tree' : p \in Tree
    BY <1>0, TreeShrinks DEF ListedInv
  <2> QED BY <2>1, <2>2 DEF SeenInv, Complete
<1> QED
  BY <1>1, <1>2, <1>3, <1>4 DEF Next, RunLens, Finished, SeenInv, List, ListFails, Read, Begin,
     Inspect, ListChildren, Probe, EndObserve, TryWaitReaps, TryWaitNone,
     BeginReport, PrintReport, Rest

LEMMA SteadyInvariant ==
  ASSUME MaxLives = 1
  PROVE  Spec => []SteadyInv
<1>1. Init => SteadyInv
  <2> SUFFICES ASSUME Init PROVE SteadyInv
    OBVIOUS
  <2>1. Found = {} /\ listed = {} /\ stage = "list"
    BY DEF Init, Found, NoInfo
  <2>2. \A c \in Pids : table[c].parent = Outside
    BY DEF Init, Spawned
  <2> QED
    BY <2>1, <2>2, ProcessTableAssumption DEF SteadyInv, KinInv, ListedInv, LinkInv, ScanInv,
       SubreaperInv, ChildrenInv, SeenInv
<1>2. TypeOK /\ WalkInv /\ OneLifeInv /\ SteadyInv /\ [Next]_vars => SteadyInv'
  BY TableMoves, ListedStep, LinkStep, ScanStep, SubreaperStep, ChildrenStep, SeenStep
     DEF SteadyInv, OneLifeInv
<1> QED
  BY <1>1, <1>2, WalkInvariant, OneLifeInvariant, PTL DEF Spec

(* A snapshot that calls itself complete has shown the walk each process   *)
(* that was in the tree from when it began until the walk is over.         *)
THEOREM SteadyTree ==
  ASSUME MaxLives = 1
  PROVE  Spec => []SteadyTreeIsSeen
<1>1. SteadyInv => SteadyTreeIsSeen
  BY DEF SteadyInv, SeenInv, SteadyTreeIsSeen, Complete, Tree
<1> QED
  BY <1>1, SteadyInvariant, PTL
=============================================================================
