-------------------------- MODULE DescriptorsProofs --------------------------
(***************************************************************************)
(* Proofs about Descriptors for any descriptors, files and sizes, and for  *)
(* any interleaving of the process with the reads.                         *)
(***************************************************************************)
EXTENDS Descriptors, FiniteSetTheorems, TLAPS

-----------------------------------------------------------------------------
(* Type correctness.                                                       *)

LEMMA Counting ==
  /\ IsFiniteSet(Open) /\ Cardinality(Open) \in Nat /\ Cardinality(Fds) \in Nat
  /\ Cardinality(Open) = 0 => Open = {}
  /\ \A fds \in SUBSET Open : Cardinality(fds) = Cardinality(Open) => fds = Open
<1>1. IsFiniteSet(Fds) /\ Open \subseteq Fds
  BY DescriptorsAssumption DEF Open
<1>2. IsFiniteSet(Open)
  BY <1>1, FS_Subset
<1>3. \A fds \in SUBSET Open : Cardinality(fds) = Cardinality(Open) => fds = Open
  BY <1>2, FS_Subset
<1> QED BY <1>1, <1>2, <1>3, FS_CardinalityType, FS_EmptySet

LEMMA Sizes ==
  ASSUME NEW n \in Nat
  PROVE  Requested(n) \in 0..MAX_FDS
  BY DescriptorsAssumption DEF Requested, Least

LEMMA KnownIsDescriptor ==
  ASSUME NEW file \in Files, NEW mode \in SUBSET Directions
  PROVE  Known(file, mode) \in Descriptor
  BY DescriptorsAssumption DEF Known, Descriptor, Names

(* Where a call stands: only Linux asks twice about a descriptor, and never*)
(* for sockets; held are descriptors that are open.                        *)
LookInv ==
  /\ stage \in {"metadata", "fdinfo"} => platform = "linux" /\ target \in Files /\ fd \in Fds
  /\ platform = "linux" => wanted \subseteq {"file", "directory"}
  /\ held \subseteq Open

LEMMA LookStep == TypeOK /\ LookInv /\ [Next]_vars => LookInv'
<1> SUFFICES ASSUME TypeOK, LookInv, [Next]_vars PROVE LookInv'
  OBVIOUS
<1> USE DEF LookInv, Open, kernel, locals, fields
<1>1. ASSUME UNCHANGED platform, Observed PROVE LookInv'
  <2>1. ASSUME NEW n \in Fds, NEW f \in Files, NEW mode \in SUBSET Directions, OpenFd(n, f, mode)
        PROVE  LookInv'
    BY <1>1, <2>1, DescriptorsAssumption DEF OpenFd, TypeOK
  <2>2. ASSUME NEW n \in Fds, CloseFd(n) PROVE LookInv'
    BY <1>1, <2>2 DEF CloseFd, TypeOK
  <2>3. CASE Die
    BY <1>1, <2>3 DEF Die
  <2> QED BY <1>1, <2>1, <2>2, <2>3 DEF Observed
<1>2. ASSUME UNCHANGED platform, List PROVE LookInv'
  BY <1>2 DEF List, Begin
<1>3. ASSUME UNCHANGED platform, NEW kinds, Count(kinds) PROVE LookInv'
  BY <1>3 DEF Count, Begin
<1>4. ASSUME UNCHANGED platform, ListFds PROVE LookInv'
  BY <1>4 DEF ListFds
<1>5. ASSUME UNCHANGED platform, NEW n \in Fds, ReadLink(n) PROVE LookInv'
  BY <1>5 DEF ReadLink, TypeOK, Closed
<1>6. ASSUME UNCHANGED platform, Metadata \/ FdInfo PROVE LookInv'
  BY <1>6 DEF Metadata, FdInfo
<1>7. ASSUME UNCHANGED platform, NEW n \in Fds, PidFdInfo(n) PROVE LookInv'
  BY <1>7 DEF PidFdInfo
<1>8. ASSUME UNCHANGED platform, Merge PROVE LookInv'
  BY <1>8 DEF Merge
<1>9. ASSUME UNCHANGED vars PROVE LookInv'
  BY <1>9 DEF vars
<1> QED BY <1>1, <1>2, <1>3, <1>4, <1>5, <1>6, <1>7, <1>8, <1>9 DEF Next, RunLens

LEMMA TypeStep == TypeOK /\ LookInv /\ [Next]_vars => TypeOK'
<1> SUFFICES ASSUME TypeOK, LookInv, [Next]_vars PROVE TypeOK'
  OBVIOUS
<1> USE DEF TypeOK, kernel, locals, fields
<1>1. Closed \in {Closed} /\ \A n \in Open : table[n].file \in Files /\ table[n].mode \in SUBSET Directions
  BY DEF Open, Closed
<1>2. ASSUME UNCHANGED platform,
             NEW n \in Fds, NEW f \in Files, NEW mode \in SUBSET Directions, OpenFd(n, f, mode)
      PROVE  TypeOK'
  <2>1. opens' \in 0..MaxOpens
    BY <1>2, DescriptorsAssumption DEF OpenFd
  <2>2. opened' \subseteq Descriptor
    BY <1>2, KnownIsDescriptor DEF OpenFd
  <2>3. mixed' \in BOOLEAN /\ held' \subseteq Fds
    BY <1>2 DEF OpenFd
  <2>4. table' \in [Fds -> [file : Files, mode : SUBSET Directions] \cup {Closed}]
    BY <1>2 DEF OpenFd
  <2> QED BY <1>2, <2>1, <2>2, <2>3, <2>4 DEF OpenFd
<1>3. ASSUME UNCHANGED platform, NEW n \in Fds, CloseFd(n) PROVE TypeOK'
  BY <1>3 DEF CloseFd
<1>4. ASSUME UNCHANGED platform, Die PROVE TypeOK'
  BY <1>4 DEF Die
<1>5. ASSUME NEW kinds \in SUBSET Kinds, Begin(kinds)
      PROVE  wanted' \subseteq Kinds /\ held' \subseteq Fds /\ incomplete' \subseteq Kinds
  BY <1>5 DEF Begin, Open
<1>6. ASSUME UNCHANGED platform, List PROVE TypeOK'
  <2>1. {"file", "directory"} \in SUBSET Kinds
    BY DEF Kinds
  <2>2. stage' \in {"idle", "list", "entry", "metadata", "fdinfo"} /\ todo' \subseteq Fds
    BY <1>6 DEF List, Open
  <2> QED BY <1>5, <1>6, <2>1, <2>2 DEF List, Begin
<1>7. ASSUME UNCHANGED platform, NEW kinds \in SUBSET Kinds, Count(kinds) PROVE TypeOK'
  <2>1. /\ stage' \in {"idle", "list", "entry", "metadata", "fdinfo"}
        /\ limited' \in BOOLEAN
        /\ requested' \in 0..MAX_FDS
    <3>1. CASE ~alive
      BY <1>7, <3>1 DEF Count
    <3>2. CASE alive
      <4>1. PICK pbi_nfiles \in Cardinality(Open)..Cardinality(Fds) :
              /\ requested' = IF pbi_nfiles = 0 THEN 0 ELSE Requested(pbi_nfiles)
              /\ limited' = (pbi_nfiles >= MAX_FDS)
              /\ stage' = IF pbi_nfiles = 0 THEN "entry" ELSE "list"
        BY <1>7, <3>2 DEF Count
      <4>2. pbi_nfiles \in Nat
        BY Counting
      <4>3. 0 \in 0..MAX_FDS
        BY DescriptorsAssumption
      <4> QED BY <4>1, <4>2, <4>3, Sizes
    <3> QED BY <3>1, <3>2
  <2> QED BY <1>5, <1>7, <2>1 DEF Count, Begin
<1>8. ASSUME UNCHANGED platform, ListFds PROVE TypeOK'
  <2>1. 0 \in 0..MAX_FDS
    BY DescriptorsAssumption
  <2>2. /\ todo' \subseteq Fds /\ limited' \in BOOLEAN /\ stage' \in {"entry", "idle"}
        /\ incomplete' \subseteq Kinds
    BY <1>8 DEF ListFds, Open
  <2> QED BY <1>8, <2>1, <2>2 DEF ListFds
<1>9. ASSUME UNCHANGED platform, NEW n \in Fds, ReadLink(n) PROVE TypeOK'
  BY <1>1, <1>9 DEF ReadLink, Missed
<1>10. ASSUME UNCHANGED platform, Metadata PROVE TypeOK'
  BY <1>10 DEF Metadata, Missed
<1>11. ASSUME NEW d \in Descriptor, Missed \/ Push(d)
       PROVE  limited' \in BOOLEAN /\ descriptors' \subseteq Descriptor
  BY <1>11 DEF Missed, Push
<1>12. ASSUME UNCHANGED platform, FdInfo PROVE TypeOK'
  <2> DEFINE d == [name |-> NameOf[target], kind |-> IF directory THEN "directory" ELSE "file",
                   access |-> Access(table[fd].mode)]
  <2>1. limited' \in BOOLEAN /\ descriptors' \subseteq Descriptor
    <3>1. CASE fd \in Open
      <4>1. table[fd].mode \in SUBSET Directions
        BY <1>1, <3>1
      <4>2. Access(table[fd].mode) \in SUBSET Directions
        BY <4>1 DEF Access, Directions
      <4>3. NameOf[target] \in Names
        BY <1>12 DEF FdInfo, Names, LookInv
      <4>4. d \in Descriptor
        BY <4>2, <4>3 DEF Descriptor, Kinds
      <4>5. Push(d)
        BY <1>12, <3>1 DEF FdInfo
      <4> QED BY <4>4, <4>5 DEF Push
    <3>2. CASE fd \notin Open
      BY <1>12, <3>2 DEF FdInfo, Missed
    <3> QED BY <3>1, <3>2
  <2> QED BY <1>12, <2>1 DEF FdInfo
<1>13. ASSUME UNCHANGED platform, NEW n \in Fds, PidFdInfo(n) PROVE TypeOK'
  <2>1. limited' \in BOOLEAN /\ descriptors' \subseteq Descriptor
    <3>1. CASE Missed
      BY <3>1 DEF Missed
    <3>2. CASE n \in Open /\ Push(Known(table[n].file, table[n].mode))
      BY <1>1, <3>2, KnownIsDescriptor DEF Push
    <3> QED BY <1>13, <3>1, <3>2 DEF PidFdInfo
  <2> QED BY <1>13, <2>1 DEF PidFdInfo
<1>14. ASSUME UNCHANGED platform, Merge PROVE TypeOK'
  <2>1. ASSUME NEW k \in Kinds, NEW n \in Names PROVE Merged(k, n) \in SUBSET Directions
    BY DEF Merged, Descriptor
  <2>2. seen' \in [Kinds -> [Names -> SUBSET Directions]]
    BY <1>14, <2>1 DEF Merge
  <2>3. owed' \subseteq Descriptor
    <3>1. \A n \in held : Known(table[n].file, table[n].mode) \in Descriptor
      BY <1>1, KnownIsDescriptor DEF LookInv
    <3> QED BY <1>14, <3>1 DEF Merge
  <2>4. 0 \in 0..MAX_FDS
    BY DescriptorsAssumption
  <2> QED BY <1>14, <2>2, <2>3, <2>4 DEF Merge
<1>15. ASSUME UNCHANGED vars PROVE TypeOK'
  BY <1>15 DEF vars
<1>16. {"file", "directory"} \in SUBSET Kinds /\ {"socket"} \in SUBSET Kinds
  BY DEF Kinds
<1>17. ASSUME UNCHANGED platform, Observed PROVE TypeOK'
  BY <1>2, <1>3, <1>4, <1>17 DEF Observed
<1>18. ASSUME UNCHANGED platform, RunLens PROVE TypeOK'
  BY <1>6, <1>7, <1>8, <1>9, <1>10, <1>12, <1>13, <1>14, <1>16, <1>18 DEF RunLens
<1> QED BY <1>15, <1>17, <1>18 DEF Next

LEMMA InitTypes == Init => TypeOK /\ LookInv
<1> SUFFICES ASSUME Init PROVE TypeOK /\ LookInv
  OBVIOUS
<1>1. 0 \in 0..MaxOpens /\ 0 \in 0..MAX_FDS
  BY DescriptorsAssumption
<1>2. seen \in [Kinds -> [Names -> SUBSET Directions]]
  BY DEF Init
<1>3. table \in [Fds -> [file : Files, mode : SUBSET Directions] \cup {Closed}]
  BY DEF Init
<1> QED BY <1>1, <1>2, <1>3 DEF Init, TypeOK, LookInv

LEMMA TypeInvariant == Spec => [](TypeOK /\ LookInv)
<1>1. TypeOK /\ LookInv /\ [Next]_vars => (TypeOK /\ LookInv)'
  BY LookStep, TypeStep
<1> QED BY <1>1, InitTypes, PTL DEF Spec

(* Every variable of Descriptors keeps to its type: the size that macOS    *)
(* asks for to MAX_FDS, whatever the process has open.                     *)
THEOREM TypeCorrect == Spec => []TypeOK
  BY TypeInvariant, PTL

-----------------------------------------------------------------------------
(* What is held is reported.                                               *)

(* What RunLens has found out about the descriptor it is at, as long as    *)
(* nothing else got its number.                                            *)
AtInv ==
  stage \in {"metadata", "fdinfo"} /\ fd \in Open /\ (fd \in held \/ ~mixed) =>
    /\ target = table[fd].file
    /\ stage = "fdinfo" => (directory <=> KindOf[table[fd].file] = "directory")
                           /\ KindOf[table[fd].file] \in wanted

(* Every held descriptor is still to be asked about, or being asked about, *)
(* or on the list, or the list is known to have a gap.                     *)
Pending(n) == n \in todo \/ (stage \in {"metadata", "fdinfo"} /\ n = fd)
Listed(n) == \E d \in descriptors : /\ d.name = NameOf[table[n].file] /\ d.kind = KindOf[table[n].file]
                                    /\ table[n].mode \subseteq d.access
HeldInv ==
  stage \in {"entry", "metadata", "fdinfo"} =>
    \A n \in held : KindOf[table[n].file] \in wanted => limited \/ Pending(n) \/ Listed(n)

LEMMA AtStep == TypeOK /\ LookInv /\ AtInv /\ [Next]_vars => AtInv'
<1> SUFFICES ASSUME TypeOK, LookInv, AtInv, [Next]_vars PROVE AtInv'
  OBVIOUS
<1> USE DEF AtInv, LookInv, Open, kernel, locals, fields
<1>1. ASSUME UNCHANGED platform, Observed PROVE AtInv'
  <2>1. ASSUME NEW n \in Fds, NEW f \in Files, NEW mode \in SUBSET Directions, OpenFd(n, f, mode)
        PROVE  AtInv'
    BY <1>1, <2>1 DEF OpenFd, TypeOK
  <2>2. ASSUME NEW n \in Fds, CloseFd(n) PROVE AtInv'
    BY <1>1, <2>2 DEF CloseFd, TypeOK, Closed
  <2>3. CASE Die
    BY <1>1, <2>3 DEF Die, Closed
  <2> QED BY <1>1, <2>1, <2>2, <2>3 DEF Observed
<1>2. ASSUME UNCHANGED platform, List PROVE AtInv'
  BY <1>2 DEF List, Begin
<1>3. ASSUME UNCHANGED platform, NEW kinds, Count(kinds) PROVE AtInv'
  BY <1>3 DEF Count, Begin
<1>4. ASSUME UNCHANGED platform, ListFds PROVE AtInv'
  BY <1>4 DEF ListFds
<1>5. ASSUME UNCHANGED platform, NEW n \in Fds, ReadLink(n) PROVE AtInv'
  BY <1>5 DEF ReadLink
<1>6. ASSUME UNCHANGED platform, Metadata PROVE AtInv'
  BY <1>6 DEF Metadata, Kind
<1>7. ASSUME UNCHANGED platform, FdInfo PROVE AtInv'
  BY <1>7 DEF FdInfo
<1>8. ASSUME UNCHANGED platform, NEW n \in Fds, PidFdInfo(n) PROVE AtInv'
  BY <1>8 DEF PidFdInfo
<1>9. ASSUME UNCHANGED platform, Merge PROVE AtInv'
  BY <1>9 DEF Merge
<1>10. ASSUME UNCHANGED vars PROVE AtInv'
  BY <1>10 DEF vars
<1> QED BY <1>1, <1>2, <1>3, <1>4, <1>5, <1>6, <1>7, <1>8, <1>9, <1>10 DEF Next, RunLens

LEMMA HeldStep == TypeOK /\ LookInv /\ AtInv /\ HeldInv /\ [Next]_vars => HeldInv'
<1> SUFFICES ASSUME TypeOK, LookInv, AtInv, HeldInv, [Next]_vars PROVE HeldInv'
  OBVIOUS
<1> USE DEF HeldInv, Pending, Listed, LookInv, kernel, locals, fields
<1>1. ASSUME UNCHANGED platform, Observed PROVE HeldInv'
  <2>1. ASSUME NEW n \in Fds, NEW f \in Files, NEW mode \in SUBSET Directions, OpenFd(n, f, mode)
        PROVE  HeldInv'
    BY <1>1, <2>1 DEF OpenFd, TypeOK
  <2>2. ASSUME NEW n \in Fds, CloseFd(n) PROVE HeldInv'
    BY <1>1, <2>2 DEF CloseFd, TypeOK
  <2>3. CASE Die
    BY <1>1, <2>3 DEF Die
  <2> QED BY <1>1, <2>1, <2>2, <2>3 DEF Observed
<1>2. ASSUME UNCHANGED platform, List PROVE HeldInv'
  BY <1>2 DEF List, Begin
<1>3. ASSUME UNCHANGED platform, NEW kinds, Count(kinds) PROVE HeldInv'
  <2>1. CASE alive
    <3>1. PICK pbi_nfiles \in Cardinality(Open)..Cardinality(Fds) :
            stage' = IF pbi_nfiles = 0 THEN "entry" ELSE "list"
      BY <1>3, <2>1 DEF Count
    <3>2. CASE pbi_nfiles = 0
      <4>1. Open = {}
        BY <3>2, Counting
      <4> QED BY <1>3, <2>1, <4>1 DEF Count, Begin
    <3>3. CASE pbi_nfiles # 0
      BY <3>1, <3>3
    <3> QED BY <3>2, <3>3
  <2>2. CASE ~alive
    BY <1>3, <2>2 DEF Count, Begin
  <2> QED BY <2>1, <2>2
<1>4. ASSUME UNCHANGED platform, ListFds PROVE HeldInv'
  <2>1. CASE alive
    <3>1. PICK fds \in SUBSET Open :
            /\ Cardinality(fds) = Least(requested, Cardinality(Open))
            /\ todo' = {n \in fds : Kind(n) \in wanted}
            /\ limited' = (limited \/ Full(fds))
      BY <1>4, <2>1 DEF ListFds
    <3>2. CASE Full(fds)
      BY <1>4, <3>1, <3>2 DEF ListFds
    <3>3. CASE ~Full(fds)
      <4>1. Cardinality(fds) = Cardinality(Open)
        BY <3>1, <3>3 DEF Full, Least
      <4>2. fds = Open
        BY <4>1, Counting
      <4> QED BY <1>4, <2>1, <3>1, <4>2 DEF ListFds, Kind
    <3> QED BY <3>2, <3>3
  <2>2. CASE ~alive
    BY <1>4, <2>2 DEF ListFds
  <2> QED BY <2>1, <2>2
<1>5. ASSUME UNCHANGED platform, NEW n \in Fds, ReadLink(n) PROVE HeldInv'
  BY <1>5 DEF ReadLink, Missed
<1>6. ASSUME UNCHANGED platform, Metadata PROVE HeldInv'
  BY <1>6 DEF Metadata, Missed, Kind
<1>7. ASSUME UNCHANGED platform, FdInfo PROVE HeldInv'
  <2>1. CASE fd \in Open
    <3> DEFINE d == [name |-> NameOf[target], kind |-> IF directory THEN "directory" ELSE "file",
                     access |-> Access(table[fd].mode)]
    <3>1. descriptors' = descriptors \cup {d}
      BY <1>7, <2>1 DEF FdInfo, Push
    <3>2. ASSUME fd \in held
          PROVE  /\ d.name = NameOf[table[fd].file] /\ d.kind = KindOf[table[fd].file]
                 /\ table[fd].mode \subseteq d.access
      <4>1. /\ platform = "linux" /\ target = table[fd].file
            /\ directory <=> KindOf[table[fd].file] = "directory"
            /\ KindOf[table[fd].file] \in {"file", "directory"}
        BY <1>7, <2>1, <3>2 DEF FdInfo, AtInv
      <4> QED BY <4>1 DEF Access
    <3> HIDE DEF d
    <3> SUFFICES ASSUME NEW n \in held, KindOf[table[n].file] \in wanted
                 PROVE  limited' \/ n \in todo' \/ Listed(n)'
      BY <1>7 DEF FdInfo
    <3>3. CASE n = fd
      BY <1>7, <3>1, <3>2, <3>3 DEF FdInfo
    <3>4. CASE n # fd
      <4>1. limited \/ n \in todo \/ Listed(n)
        BY <1>7, <3>4 DEF FdInfo
      <4>2. limited' = limited
        BY <1>7, <2>1 DEF FdInfo, Push
      <4> QED BY <1>7, <3>1, <4>1, <4>2 DEF FdInfo
    <3> QED BY <3>3, <3>4
  <2>2. CASE fd \notin Open
    BY <1>7, <2>2 DEF FdInfo, Missed
  <2> QED BY <2>1, <2>2
<1>8. ASSUME UNCHANGED platform, NEW n \in Fds, PidFdInfo(n) PROVE HeldInv'
  <2>1. CASE Missed
    BY <1>8, <2>1 DEF PidFdInfo, Missed
  <2>2. CASE Push(Known(table[n].file, table[n].mode))
    <3>1. descriptors' = descriptors \cup {Known(table[n].file, table[n].mode)}
      BY <2>2 DEF Push
    <3>2. Listed(n)'
      BY <1>8, <3>1 DEF PidFdInfo, Known
    <3> SUFFICES ASSUME NEW m \in held, KindOf[table[m].file] \in wanted
                 PROVE  limited' \/ m \in todo' \/ Listed(m)'
      BY <1>8 DEF PidFdInfo
    <3>3. CASE m = n
      BY <3>2, <3>3
    <3>4. CASE m # n
      <4>1. limited \/ m \in todo \/ Listed(m)
        BY <1>8 DEF PidFdInfo
      <4>2. limited' = limited
        BY <2>2 DEF Push
      <4> QED BY <1>8, <3>1, <3>4, <4>1, <4>2 DEF PidFdInfo
    <3> QED BY <3>3, <3>4
  <2> QED BY <1>8, <2>1, <2>2 DEF PidFdInfo
<1>9. ASSUME UNCHANGED platform, Merge PROVE HeldInv'
  BY <1>9 DEF Merge
<1>10. ASSUME UNCHANGED vars PROVE HeldInv'
  BY <1>10 DEF vars
<1> QED BY <1>1, <1>2, <1>3, <1>4, <1>5, <1>6, <1>7, <1>8, <1>9, <1>10 DEF Next, RunLens

(* Once a call has been merged, what it owed is in the report for good.    *)
LEMMA MergeStep ==
  TypeOK /\ LookInv /\ HeldInv /\ HeldIsReported /\ [Next]_vars => HeldIsReported'
<1> SUFFICES ASSUME TypeOK, LookInv, HeldInv, HeldIsReported, [Next]_vars PROVE HeldIsReported'
  OBVIOUS
<1> USE DEF HeldIsReported, kernel, locals, fields
<1>1. ASSUME UNCHANGED <<seen, owed>>, incomplete \subseteq incomplete' PROVE HeldIsReported'
  BY <1>1
<1>2. ASSUME UNCHANGED platform, Observed PROVE HeldIsReported'
  BY <1>1, <1>2 DEF Observed, OpenFd, CloseFd, Die
<1>3. ASSUME List \/ ListFds \/ Metadata \/ FdInfo PROVE HeldIsReported'
  BY <1>1, <1>3 DEF List, ListFds, Begin, Metadata, FdInfo
<1>4. ASSUME NEW kinds, Count(kinds) PROVE HeldIsReported'
  BY <1>1, <1>4 DEF Count, Begin
<1>5. ASSUME Merge PROVE HeldIsReported'
  <2>1. \A k \in Kinds, n \in Names : seen'[k][n] = Merged(k, n)
    BY <1>5 DEF Merge
  <2>2. incomplete \subseteq incomplete' /\ (limited => wanted \subseteq incomplete')
    BY <1>5 DEF Merge
  <2>3. ASSUME NEW d \in owed PROVE d.access \subseteq seen'[d.kind][d.name] \/ d.kind \in incomplete'
    <3>1. d.kind \in Kinds /\ d.name \in Names
      BY DEF TypeOK, Descriptor
    <3>2. seen[d.kind][d.name] \subseteq seen'[d.kind][d.name]
      BY <2>1, <3>1 DEF Merged
    <3> QED BY <2>2, <3>2
  <2>4. ASSUME NEW n \in held, KindOf[table[n].file] \in wanted,
               NEW d, d = Known(table[n].file, table[n].mode)
        PROVE  d.access \subseteq seen'[d.kind][d.name] \/ d.kind \in incomplete'
    <3>1. table[n].file \in Files
      BY DEF LookInv, Open, TypeOK, Closed
    <3>2. d.kind = KindOf[table[n].file] /\ d.name = NameOf[table[n].file] /\ d.access = table[n].mode
      BY <2>4 DEF Known
    <3>3. limited \/ Listed(n)
      BY <1>5, <2>4 DEF Merge, HeldInv, Pending
    <3>4. CASE limited
      BY <2>2, <2>4, <3>2, <3>4
    <3>5. CASE Listed(n)
      <4>1. PICK e \in descriptors : /\ e.name = d.name /\ e.kind = d.kind
                                      /\ d.access \subseteq e.access
        BY <3>2, <3>5 DEF Listed
      <4>2. d.kind \in Kinds /\ d.name \in Names
        BY <3>1, <3>2, DescriptorsAssumption DEF Names
      <4>3. e.access \subseteq Merged(d.kind, d.name)
        BY <4>1 DEF Merged
      <4> QED BY <2>1, <4>1, <4>2, <4>3
    <3> QED BY <3>3, <3>4, <3>5
  <2>5. owed' = owed \cup {Known(table[n].file, table[n].mode) : n \in {m \in held : Kind(m) \in wanted}}
    BY <1>5 DEF Merge
  <2> QED BY <2>3, <2>4, <2>5 DEF Kind
<1>6. ASSUME UNCHANGED vars PROVE HeldIsReported'
  <2>1. UNCHANGED <<seen, owed>> /\ incomplete' = incomplete
    BY <1>6 DEF vars
  <2> QED BY <1>1, <2>1
<1>7. ASSUME NEW n \in Fds, ReadLink(n) \/ PidFdInfo(n) PROVE HeldIsReported'
  BY <1>1, <1>7 DEF ReadLink, PidFdInfo
<1>8. CASE RunLens
  BY <1>3, <1>4, <1>5, <1>7, <1>8 DEF RunLens
<1> QED BY <1>2, <1>6, <1>8 DEF Next

LEMMA HeldInvariant == Spec => [](HeldInv /\ AtInv /\ HeldIsReported)
<1>1. Init => HeldInv /\ AtInv /\ HeldIsReported
  BY DEF Init, HeldInv, AtInv, HeldIsReported
<1>2. /\ TypeOK /\ LookInv /\ HeldInv /\ AtInv /\ HeldIsReported /\ [Next]_vars
      => (HeldInv /\ AtInv /\ HeldIsReported)'
  BY HeldStep, AtStep, MergeStep
<1> QED BY <1>1, <1>2, TypeInvariant, PTL DEF Spec

(* For any number of descriptors and any buffer: what a process keeps open *)
(* throughout a call is reported with all its directions, or its kind is   *)
(* called incomplete.                                                      *)
THEOREM HeldReported == Spec => []HeldIsReported
  BY HeldInvariant, PTL

-----------------------------------------------------------------------------
(* Only what has been open is reported.                                    *)

WasOpen(kind, name, direction) ==
  \E e \in opened : /\ e.kind = kind /\ e.name = name
                    /\ \/ direction \in e.access
                       \/ platform = "linux" /\ e.access = {} /\ direction = "read"

OpenInv ==
  /\ \A n \in Open : Known(table[n].file, table[n].mode) \in opened
  /\ ~mixed => \A d \in descriptors : \A direction \in d.access :
                 WasOpen(d.kind, d.name, direction)

LEMMA OpenStep == TypeOK /\ LookInv /\ AtInv /\ OpenInv /\ [Next]_vars => OpenInv'
<1> SUFFICES ASSUME TypeOK, LookInv, AtInv, OpenInv, [Next]_vars PROVE OpenInv'
  OBVIOUS
<1> USE DEF OpenInv, WasOpen, Open, kernel, locals, fields
<1>1. ASSUME UNCHANGED platform, Observed PROVE OpenInv'
  <2>1. ASSUME NEW n \in Fds, NEW f \in Files, NEW mode \in SUBSET Directions, OpenFd(n, f, mode)
        PROVE  OpenInv'
    <3>1. table' = [table EXCEPT ![n] = [file |-> f, mode |-> mode]] /\ opened' = opened \cup {Known(f, mode)}
      BY <2>1 DEF OpenFd
    <3>2. \A m \in Open' : Known(table'[m].file, table'[m].mode) \in opened'
      BY <3>1 DEF TypeOK
    <3>3. descriptors' = descriptors /\ (~mixed' => ~mixed)
      BY <2>1 DEF OpenFd
    <3> QED BY <1>1, <3>1, <3>2, <3>3
  <2>2. ASSUME NEW n \in Fds, CloseFd(n) PROVE OpenInv'
    <3>1. \A m \in Open' : m \in Open /\ table'[m] = table[m]
      BY <2>2 DEF CloseFd, TypeOK, Closed
    <3> QED BY <1>1, <2>2, <3>1 DEF CloseFd
  <2>3. CASE Die
    BY <1>1, <2>3 DEF Die, Closed
  <2> QED BY <1>1, <2>1, <2>2, <2>3 DEF Observed
<1>2. ASSUME UNCHANGED <<platform, table, opened, descriptors, mixed>> PROVE OpenInv'
  BY <1>2
<1>3. ASSUME UNCHANGED platform, List \/ ListFds \/ Metadata PROVE OpenInv'
  BY <1>2, <1>3 DEF List, ListFds, Begin, Metadata, Missed
<1>4. ASSUME UNCHANGED platform, NEW kinds, Count(kinds) PROVE OpenInv'
  BY <1>2, <1>4 DEF Count, Begin
<1>5. ASSUME UNCHANGED <<platform, table, opened, mixed>>,
             NEW d, descriptors' = descriptors \cup {d},
             ~mixed => \A direction \in d.access : WasOpen(d.kind, d.name, direction)
      PROVE  OpenInv'
  BY <1>5
<1>6. ASSUME UNCHANGED platform, FdInfo PROVE OpenInv'
  <2>1. CASE fd \in Open
    <3> DEFINE d == [name |-> NameOf[target], kind |-> IF directory THEN "directory" ELSE "file",
                     access |-> Access(table[fd].mode)]
    <3>1. descriptors' = descriptors \cup {d} /\ UNCHANGED <<table, opened, mixed>>
      BY <1>6, <2>1 DEF FdInfo, Push
    <3>2. ASSUME ~mixed, NEW direction \in d.access PROVE WasOpen(d.kind, d.name, direction)
      <4>1. /\ platform = "linux" /\ target = table[fd].file
            /\ directory <=> KindOf[table[fd].file] = "directory"
            /\ KindOf[table[fd].file] \in {"file", "directory"}
        BY <1>6, <2>1, <3>2 DEF FdInfo, AtInv, LookInv
      <4>2. Known(table[fd].file, table[fd].mode) \in opened
        BY <2>1
      <4>3. d.name = NameOf[table[fd].file] /\ d.kind = KindOf[table[fd].file]
        BY <4>1
      <4>4. direction \in table[fd].mode \/ (table[fd].mode = {} /\ direction = "read")
        BY <3>2 DEF Access
      <4> QED BY <4>1, <4>2, <4>3, <4>4 DEF Known
    <3> QED BY <1>5, <1>6, <3>1, <3>2
  <2>2. CASE fd \notin Open
    BY <1>2, <1>6, <2>2 DEF FdInfo, Missed
  <2> QED BY <2>1, <2>2
<1>7. ASSUME UNCHANGED platform, NEW n \in Fds, PidFdInfo(n) PROVE OpenInv'
  <2>1. CASE Missed
    BY <1>2, <1>7, <2>1 DEF PidFdInfo, Missed
  <2>2. CASE n \in Open /\ Push(Known(table[n].file, table[n].mode))
    <3> DEFINE d == Known(table[n].file, table[n].mode)
    <3>1. descriptors' = descriptors \cup {d} /\ UNCHANGED <<table, opened, mixed>>
      BY <1>7, <2>2 DEF PidFdInfo, Push
    <3>2. d \in opened
      BY <2>2
    <3> HIDE DEF d
    <3> QED BY <1>5, <1>7, <3>1, <3>2
  <2> QED BY <1>7, <2>1, <2>2 DEF PidFdInfo
<1>8. ASSUME UNCHANGED platform, Merge PROVE OpenInv'
  BY <1>8 DEF Merge
<1>9. ASSUME UNCHANGED vars PROVE OpenInv'
  BY <1>2, <1>9 DEF vars
<1>10. ASSUME UNCHANGED platform, NEW n \in Fds, ReadLink(n) PROVE OpenInv'
  BY <1>2, <1>10 DEF ReadLink, Missed
<1>11. ASSUME UNCHANGED platform, RunLens PROVE OpenInv'
  BY <1>3, <1>4, <1>6, <1>7, <1>8, <1>10, <1>11 DEF RunLens
<1> QED BY <1>1, <1>9, <1>11 DEF Next

LEMMA ReportStep == TypeOK /\ OpenInv /\ ReportedWasOpen /\ [Next]_vars => ReportedWasOpen'
<1> SUFFICES ASSUME TypeOK, OpenInv, ReportedWasOpen, [Next]_vars, ~mixed' PROVE ReportedWasOpen'
  BY DEF ReportedWasOpen
<1>1. ~mixed /\ opened \subseteq opened' /\ platform' = platform
  <2>1. ASSUME Observed PROVE ~mixed /\ opened \subseteq opened'
    <3>1. ASSUME NEW n \in Fds, NEW f \in Files, NEW mode \in SUBSET Directions, OpenFd(n, f, mode)
          PROVE  ~mixed /\ opened \subseteq opened'
      BY <3>1 DEF OpenFd
    <3>2. ASSUME NEW n \in Fds, CloseFd(n) PROVE UNCHANGED <<mixed, opened>>
      BY <3>2 DEF CloseFd
    <3>3. ASSUME Die PROVE UNCHANGED <<mixed, opened>>
      BY <3>3 DEF Die
    <3> QED BY <2>1, <3>1, <3>2, <3>3 DEF Observed
  <2>2. ASSUME RunLens PROVE ~mixed /\ opened \subseteq opened'
    <3>1. UNCHANGED <<mixed, opened>>
      BY <2>2 DEF RunLens, List, Count, Begin, ListFds, Metadata, FdInfo, Merge, ReadLink, PidFdInfo,
                  kernel
    <3> QED BY <3>1
  <2>3. ASSUME UNCHANGED vars PROVE UNCHANGED <<mixed, opened, platform>>
    BY <2>3 DEF vars, kernel
  <2> QED BY <2>1, <2>2, <2>3 DEF Next
<1>2. ASSUME NEW kind, NEW name, NEW direction, WasOpen(kind, name, direction)
      PROVE  WasOpen(kind, name, direction)'
  BY <1>1, <1>2 DEF WasOpen
<1>3. ASSUME NEW k \in Kinds, NEW n \in Names, NEW direction \in seen'[k][n]
      PROVE  direction \in seen[k][n] \/ direction \in Merged(k, n)
  <2>1. CASE Merge
    BY <1>3, <2>1 DEF Merge
  <2>2. CASE ~Merge
    <3>1. seen' = seen
      BY <2>2 DEF Next, Observed, RunLens, OpenFd, CloseFd, Die, List, Count, Begin, ListFds, Metadata,
                  FdInfo, ReadLink, PidFdInfo, vars, fields
    <3> QED BY <1>3, <3>1
  <2> QED BY <2>1, <2>2
<1>4. ASSUME NEW k \in Kinds, NEW n \in Names, NEW direction \in Merged(k, n)
      PROVE  WasOpen(k, n, direction)
  <2>1. CASE direction \in seen[k][n]
    BY <1>1, <2>1 DEF ReportedWasOpen, WasOpen
  <2>2. CASE \E d \in descriptors : d.kind = k /\ d.name = n /\ direction \in d.access
    BY <1>1, <2>2 DEF OpenInv
  <2> QED BY <1>4, <2>1, <2>2 DEF Merged
<1>5. ASSUME NEW k \in Kinds, NEW n \in Names, NEW direction \in seen'[k][n]
      PROVE  WasOpen(k, n, direction)'
  <2>1. direction \in Merged(k, n)
    BY <1>3, <1>5 DEF Merged
  <2> QED BY <1>2, <1>4, <2>1
<1> QED BY <1>5 DEF ReportedWasOpen, WasOpen

LEMMA OpenInvariant == Spec => [](OpenInv /\ ReportedWasOpen)
<1>1. Init => OpenInv /\ ReportedWasOpen
  BY DEF Init, OpenInv, ReportedWasOpen, Open, Closed
<1>2. /\ TypeOK /\ LookInv /\ AtInv /\ OpenInv /\ ReportedWasOpen /\ [Next]_vars
      => (OpenInv /\ ReportedWasOpen)'
  BY OpenStep, ReportStep
<1> QED BY <1>1, <1>2, TypeInvariant, HeldInvariant, PTL DEF Spec

(* A file, directory or connection is in the report for a direction only   *)
(* if it has been open for it, on both backends, unless its number changed *)
(* hands between two questions of Linux.                                   *)
THEOREM OnlyIfOpen == Spec => []ReportedWasOpen
  BY OpenInvariant, PTL
=============================================================================
