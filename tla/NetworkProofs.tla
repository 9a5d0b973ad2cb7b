---------------------------- MODULE NetworkProofs ----------------------------
(***************************************************************************)
(* Proofs about Network for any processes, connections and tables, and any *)
(* interleaving of the processes with the reading of their sockets; and    *)
(* about Endpoints, the text of one socket, for every set of sockets.      *)
(***************************************************************************)
EXTENDS Network, Endpoints, SamplingProofs

-----------------------------------------------------------------------------
(* Type correctness.                                                       *)

LEMMA BecomingIsTyped ==
  ASSUME NEW f \in [Procs -> [Numbers -> Connections \cup {Closed, Other}]],
         TypeOK, Become(f), recorded' = recorded, SamplingTypeOK'
  PROVE  TypeOK'
  BY DEF TypeOK, Become, local, results

(* Only recorded processes are visited, and only in the loop over them.    *)
VisitInv ==
  /\ stage = "files" => todo \subseteq recorded
  /\ visiting # NoOne => stage = "files" /\ visiting \in recorded
  /\ reading => next_table <= Len(Tables)

(* The steps that a visit consists of, but for its first and its last.     *)
Reads ==
  \/ OpenTable \/ EndTable
  \/ \E n \in Numbers : ReadLink(n)
  \/ \E c \in Connections : ReadLine(c)

LEMMA ReadsLeave ==
  ASSUME Reads
  PROVE  UNCHANGED <<samplingVars, fds, visiting, results, steady, shown>>
  BY DEF Reads, OpenTable, EndTable, ReadLink, ReadLine

LEMMA DescriptorsLeave ==
  ASSUME TypeOK, Descriptors
  PROVE  /\ UNCHANGED <<samplingVars, local, results, shown>>
         /\ \E f \in [Procs -> [Numbers -> Connections \cup {Closed, Other}]] : Become(f)
<1> USE DEF TypeOK
<1>1. PICK p \in Procs, n \in Numbers, x \in Connections \cup {Closed, Other} : Assign(p, n, x)
  <2>1. CASE \E p \in Procs, n \in Numbers : OpenOther(p, n) \/ Close(p, n)
    BY <2>1 DEF OpenOther, Close
  <2>2. CASE \E p \in Procs, n \in Numbers, c \in Connections : Open(p, n, c)
    BY <2>2 DEF Open
  <2>3. CASE \E p, q \in Procs, n, m \in Numbers : Share(p, n, q, m)
    BY <2>3 DEF Share
  <2> QED BY <2>1, <2>2, <2>3 DEF Descriptors
<1>2. [fds EXCEPT ![p] = [@ EXCEPT ![n] = x]]
        \in [Procs -> [Numbers -> Connections \cup {Closed, Other}]]
  OBVIOUS
<1> QED BY <1>1, <1>2 DEF Assign, Become

LEMMA ProcessesLeave ==
  ASSUME TypeOK, Processes
  PROVE  /\ UNCHANGED <<local, results, shown>> /\ Kernel
         /\ \E f \in [Procs -> [Numbers -> Connections \cup {Closed, Other}]] : Become(f)
<1>1. PICK inherited \in SUBSET Numbers :
        Become([p \in Procs |-> [n \in Numbers |->
          IF state'[p] # "R" THEN Closed
          ELSE IF state[p] # "unborn" THEN fds[p][n]
          ELSE IF n \in inherited THEN fds[Root][n] ELSE Closed]])
  BY DEF Processes
<1>2. [p \in Procs |-> [n \in Numbers |->
          IF state'[p] # "R" THEN Closed
          ELSE IF state[p] # "unborn" THEN fds[p][n]
          ELSE IF n \in inherited THEN fds[Root][n] ELSE Closed]]
        \in [Procs -> [Numbers -> Connections \cup {Closed, Other}]]
  BY SamplingAssumption DEF TypeOK
<1> QED BY <1>1, <1>2 DEF Become, Processes

LEMMA VisitStep == TypeOK /\ VisitInv /\ [Next]_vars => VisitInv'
<1> SUFFICES ASSUME TypeOK, VisitInv, [Next]_vars PROVE VisitInv'
  OBVIOUS
<1> USE NetworkAssumption DEF VisitInv, local
<1>1. CASE Processes
  BY <1>1, ProcessesLeave DEF Kernel
<1>2. CASE Descriptors
  BY <1>2, DescriptorsLeave DEF samplingVars
<1>3. CASE Rounds
  <2>1. CASE Walk
    BY <1>3, <2>1, SamplingAssumption DEF Rounds, Walk, current_tree
  <2>2. CASE TryWait \/ List \/ ReadRest \/ \E p \in Procs : ReadStat(p)
    BY <1>3, <2>2 DEF Rounds, TryWait, List, ReadRest, ReadStat, AfterEntry
  <2> QED BY <1>3, <2>1, <2>2 DEF Rounds
<1>4. CASE BeginReport
  BY <1>4 DEF BeginReport
<1>5. ASSUME NEW p \in Procs, Skip(p) \/ FdsUnreadable(p) \/ ListFds(p) PROVE VisitInv'
  BY <1>5 DEF Skip, FdsUnreadable, ListFds, Visit
<1>6. CASE Reads
  <2>1. UNCHANGED <<samplingVars, visiting>>
    BY <1>6, ReadsLeave
  <2>2. reading' => next_table' <= Len(Tables)
    BY <1>6 DEF Reads, OpenTable, EndTable, ReadLink, ReadLine
  <2> QED BY <2>1, <2>2 DEF samplingVars
<1>7. CASE Merge
  <2>1. reading' => next_table' <= Len(Tables)
    BY <1>7 DEF Merge
  <2> QED BY <1>7, <2>1 DEF Merge, samplingVars
<1>8. CASE Leave
  BY <1>8 DEF Leave, EndObserve
<1>9. CASE UNCHANGED vars
  BY <1>9 DEF vars, samplingVars
<1> QED
  BY <1>1, <1>2, <1>3, <1>4, <1>5, <1>6, <1>7, <1>8, <1>9 DEF Next, RunLens, Reads

LEMMA TypeStep == TypeOK /\ VisitInv /\ [Next]_vars => TypeOK'
<1> SUFFICES ASSUME TypeOK, VisitInv, [Next]_vars PROVE TypeOK'
  OBVIOUS
<1>1. SamplingTypeOK /\ Root \in Procs /\ Len(Tables) \in Nat
  BY SamplingAssumption, NetworkAssumption DEF TypeOK
<1>2. CASE Processes
  BY <1>1, <1>2, ProcessesLeave, BecomingIsTyped, KernelKeepsTypes DEF Kernel
<1>3. CASE Descriptors
  BY <1>1, <1>3, DescriptorsLeave, BecomingIsTyped, StandingKeepsTypes DEF samplingVars
<1>4. CASE Rounds
  <2>1. SamplingTypeOK'
    BY <1>1, <1>4, SnapshotKeepsTypes, ObserveKeepsTypes DEF Rounds
  <2>2. recorded \subseteq recorded'
    BY <1>4 DEF Rounds, List, ReadRest, Walk, TryWait, ReadStat
  <2> QED BY <1>4, <2>1, <2>2 DEF Rounds, TypeOK, local, results
<1>5. CASE BeginReport
  BY <1>5, TreesAreProcesses
     DEF BeginReport, TypeOK, SamplingTypeOK, kernel, snapshot, local, results
<1>6. CASE Reads
  <2>1. UNCHANGED <<samplingVars, fds, visiting, results, steady, shown>>
    BY <1>6, ReadsLeave
  <2>2. SamplingTypeOK' /\ recorded' = recorded
    BY <1>1, <2>1, StandingKeepsTypes DEF samplingVars
  <2>3. next_table' \in 1..Len(Tables) + 1 /\ pending' \subseteq Numbers
    <3>1. CASE OpenTable
      BY <1>1, <3>1 DEF OpenTable, TypeOK
    <3>2. CASE EndTable
      <4>1. next_table <= Len(Tables)
        BY <3>2 DEF EndTable, VisitInv
      <4> QED BY <1>1, <3>2, <4>1 DEF EndTable, TypeOK
    <3>3. CASE (\E n \in Numbers : ReadLink(n)) \/ \E c \in Connections : ReadLine(c)
      BY <3>3 DEF ReadLink, ReadLine, TypeOK
    <3> QED BY <1>6, <3>1, <3>2, <3>3 DEF Reads
  <2>4. /\ socket_ids' \subseteq Connections /\ sockets' \subseteq Connections
        /\ due' \subseteq Connections
    BY <1>6 DEF Reads, OpenTable, EndTable, ReadLink, ReadLine, InUse, TypeOK
  <2>5. {reading', read_any', incomplete'} \subseteq BOOLEAN
    BY <1>6 DEF Reads, OpenTable, EndTable, ReadLink, ReadLine, TypeOK
  <2> QED BY <2>1, <2>2, <2>3, <2>4, <2>5 DEF TypeOK, results
<1>7. CASE Merge
  <2>1. visiting \in Procs /\ visiting \in recorded /\ UNCHANGED <<samplingVars, fds, limited>>
    BY <1>7 DEF Merge, TypeOK, VisitInv
  <2>2. SamplingTypeOK' /\ recorded' = recorded
    BY <1>1, <2>1, StandingKeepsTypes DEF samplingVars
  <2>3. connections' \in [Connections -> SUBSET recorded]
    BY <1>7, <2>1 DEF Merge, TypeOK, Associated
  <2>4. shown' \subseteq Procs \X Connections
    BY <1>7, <2>1 DEF Merge, TypeOK, Steadily
  <2>5. next_table' \in 1..Len(Tables) + 1
    BY <1>1, <1>7 DEF Merge
  <2> QED BY <1>7, <2>1, <2>2, <2>3, <2>4, <2>5 DEF Merge, TypeOK
<1>8. CASE Leave
  <2>1. SamplingTypeOK' /\ recorded' = recorded
    <3>1. CASE EndObserve
      BY <1>1, <3>1, ObserveKeepsTypes DEF EndObserve
    <3>2. CASE ~EndObserve
      BY <1>8, <3>2 DEF Leave, TypeOK, SamplingTypeOK, kernel, snapshot
    <3> QED BY <3>1, <3>2
  <2> QED BY <1>8, <2>1 DEF Leave, TypeOK, local, is_limited
<1>9. ASSUME NEW p \in Procs, Skip(p) \/ FdsUnreadable(p) \/ ListFds(p) PROVE TypeOK'
  <2>1. SamplingTypeOK' /\ recorded' = recorded
    BY <1>1, <1>9, ObserveKeepsTypes DEF Skip, FdsUnreadable, ListFds, Visit
  <2>2. Held(p) \subseteq Connections /\ OpenNumbers(p) \subseteq Numbers
    BY DEF Held, OpenNumbers
  <2>3. CASE Skip(p)
    BY <2>1, <2>3 DEF Skip, TypeOK, local, results
  <2>4. CASE FdsUnreadable(p)
    BY <2>1, <2>2, <2>4 DEF FdsUnreadable, TypeOK, local
  <2>5. CASE ListFds(p)
    BY <2>1, <2>2, <2>5 DEF ListFds, TypeOK, results
  <2> QED BY <1>9, <2>3, <2>4, <2>5
<1>10. CASE UNCHANGED vars
  BY <1>1, <1>10, StandingKeepsTypes DEF vars, samplingVars, TypeOK, local, results
<1> QED
  BY <1>2, <1>3, <1>4, <1>5, <1>6, <1>7, <1>8, <1>9, <1>10 DEF Next, RunLens, Reads

LEMMA TypeInvariant == Spec => [](TypeOK /\ VisitInv)
<1>1. Init => TypeOK
  <2> SUFFICES ASSUME Init PROVE TypeOK
    OBVIOUS
  <2>1. SamplingTypeOK /\ Len(Tables) \in Nat
    BY NetworkAssumption, SamplingStarts DEF Init
  <2>2. next_table \in 1..Len(Tables) + 1
    BY <2>1 DEF Init
  <2>3. /\ connections \in [Connections -> SUBSET recorded]
        /\ fds \in [Procs -> [Numbers -> Connections \cup {Closed, Other}]]
    BY DEF Init
  <2> QED BY <2>1, <2>2, <2>3 DEF Init, TypeOK
<1>2. Init => VisitInv
  BY DEF Init, SamplingInit, VisitInv
<1> QED BY <1>1, <1>2, TypeStep, VisitStep, PTL DEF Spec

(* Every value stays of its type; among the associated processes are only  *)
(* processes that the report has a record of.                              *)
THEOREM TypeCorrect == Spec => []TypeOK
  BY TypeInvariant, PTL

-----------------------------------------------------------------------------
(* Connections.  Of the numbers listed, one that still stands for what it  *)
(* did is yet to be looked at, or was looked at when it did; a table that  *)
(* could be read has a line for what was in use all the while.             *)

FdsInv ==
  /\ visiting = NoOne => steady = {} /\ pending = {} /\ ~reading /\ next_table = 1
  /\ reading \/ next_table > 1 => pending = {}
  /\ ~incomplete => \A n \in steady \ pending :
       fds[visiting][n] \in Connections => fds[visiting][n] \in socket_ids

TablesInv ==
  /\ ~incomplete /\ next_table > 1 => read_any
  /\ ~incomplete => \A c \in Steadily : \A i \in 1..Len(Tables) :
       TableOf[c] = Tables[i] => /\ i < next_table => c \in sockets
                                 /\ i = next_table /\ reading => c \in due

ShownInv ==
  /\ \A m \in shown : m[1] \in connections[m[2]] \/ observation_limited
  /\ stage = "done" /\ observation_limited => limited

(* Whatever happens to descriptors, what is steady is in use.              *)
LEMMA SteadyAfter ==
  ASSUME TypeOK, NEW f, Become(f)
  PROVE  /\ Steadily' \subseteq Steadily
         /\ visiting \in Procs => Steadily' \subseteq InUse(fds')
         /\ \A n \in steady' : n \in steady /\ fds'[visiting'][n] = fds[visiting][n]
         /\ due' = due \cap InUse(fds')
  BY DEF Become, Steadily, InUse, local, TypeOK

(* When all tables have been read, none is missing.                        *)
LEMMA SteadyIsSeen ==
  ASSUME TypeOK, FdsInv, TablesInv, pending = {}, next_table > Len(Tables),
         ~incomplete, read_any
  PROVE  Steadily \subseteq Seen
<1>1. Len(Tables) \in Nat /\ next_table = Len(Tables) + 1
  BY NetworkAssumption DEF TypeOK
<1>2. ASSUME NEW c \in Steadily PROVE c \in Seen
  <2>1. PICK i \in 1..Len(Tables) : TableOf[c] = Tables[i]
    BY NetworkAssumption DEF Steadily
  <2>2. c \in sockets
    BY <1>1, <2>1 DEF TablesInv
  <2>3. c \in socket_ids
    BY DEF FdsInv, Steadily
  <2> QED BY <2>2, <2>3 DEF Seen
<1> QED BY <1>2

LEMMA FdsStep == TypeOK /\ VisitInv /\ FdsInv /\ [Next]_vars => FdsInv'
<1> SUFFICES ASSUME TypeOK, VisitInv, FdsInv, [Next]_vars PROVE FdsInv'
  OBVIOUS
<1>1. Len(Tables) \in Nat /\ next_table \in Int /\ next_table >= 1
  BY NetworkAssumption DEF TypeOK
<1>2. ASSUME NEW f, Become(f) PROVE FdsInv'
  BY <1>2, SteadyAfter DEF Become, FdsInv, local
<1>3. CASE Processes \/ Descriptors
  BY <1>2, <1>3, ProcessesLeave, DescriptorsLeave
<1>4. CASE Rounds \/ BeginReport \/ Leave \/ (\E p \in Procs : Skip(p) \/ FdsUnreadable(p))
           \/ UNCHANGED vars
  BY <1>4 DEF Rounds, BeginReport, Leave, Skip, FdsUnreadable, vars, local, FdsInv
<1>5. ASSUME NEW p \in Procs, ListFds(p) PROVE FdsInv'
  <2>1. visiting' = p /\ p # NoOne /\ ~reading /\ next_table = 1
    BY <1>5, NetworkAssumption DEF ListFds, FdsInv
  <2>2. UNCHANGED <<reading, next_table>>
    BY <1>5 DEF ListFds
  <2>3. ~incomplete' => steady' \ pending' = {}
    BY <1>5 DEF ListFds
  <2> QED BY <2>1, <2>2, <2>3 DEF FdsInv
<1>6. ASSUME NEW n \in Numbers, ReadLink(n) PROVE FdsInv'
  <2>1. visiting # NoOne /\ ~reading /\ next_table = 1
    BY <1>1, <1>6 DEF ReadLink, FdsInv
  <2> QED BY <1>6, <2>1 DEF ReadLink, FdsInv
<1>7. CASE OpenTable \/ EndTable \/ \E c \in Connections : ReadLine(c)
  BY <1>7, <1>1 DEF OpenTable, EndTable, ReadLine, FdsInv
<1>8. CASE Merge
  <2>1. ~reading
    BY <1>1, <1>8 DEF Merge, VisitInv
  <2> QED BY <1>8, <2>1 DEF Merge, FdsInv
<1> QED BY <1>3, <1>4, <1>5, <1>6, <1>7, <1>8 DEF Next, RunLens

LEMMA TablesStep == TypeOK /\ VisitInv /\ FdsInv /\ TablesInv /\ [Next]_vars => TablesInv'
<1> SUFFICES ASSUME TypeOK, VisitInv, FdsInv, TablesInv, [Next]_vars PROVE TablesInv'
  OBVIOUS
<1>1. Len(Tables) \in Nat /\ next_table \in Int /\ next_table >= 1
  BY NetworkAssumption DEF TypeOK
<1>2. ASSUME NEW f, Become(f) PROVE TablesInv'
  <2>1. UNCHANGED <<visiting, reading, next_table, sockets, read_any, incomplete>>
    BY <1>2 DEF Become, local
  <2>2. CASE visiting = NoOne
    BY <1>2, <2>1, <2>2, SteadyAfter DEF FdsInv, TablesInv, Steadily
  <2>3. CASE visiting \in Procs
    BY <1>2, <2>1, <2>3, SteadyAfter DEF TablesInv
  <2> QED BY <2>2, <2>3 DEF TypeOK
<1>3. CASE Processes \/ Descriptors
  BY <1>2, <1>3, ProcessesLeave, DescriptorsLeave
<1>4. CASE Rounds \/ BeginReport \/ Leave \/ (\E p \in Procs : Skip(p) \/ FdsUnreadable(p))
           \/ UNCHANGED vars
  BY <1>4 DEF Rounds, BeginReport, Leave, Skip, FdsUnreadable, vars, local, TablesInv, Steadily
<1>5. ASSUME NEW p \in Procs, ListFds(p) PROVE TablesInv'
  BY <1>1, <1>5 DEF ListFds, FdsInv, TablesInv
<1>6. ASSUME NEW n \in Numbers, ReadLink(n) PROVE TablesInv'
  BY <1>6 DEF ReadLink, TablesInv, Steadily
<1>7. CASE OpenTable
  <2>1. visiting \in Procs /\ Steadily' = Steadily /\ Steadily \subseteq InUse(fds)
    BY <1>7 DEF OpenTable, TypeOK, Steadily, InUse
  <2>2. CASE state[visiting] # "R"
    BY <1>7, <2>2 DEF OpenTable, TablesInv
  <2>3. CASE state[visiting] = "R"
    BY <1>7, <2>1, <2>3 DEF OpenTable, TablesInv
  <2> QED BY <2>2, <2>3
<1>8. ASSUME NEW c \in Connections, ReadLine(c) PROVE TablesInv'
  BY <1>8 DEF ReadLine, TablesInv, Steadily
<1>9. CASE EndTable
  <2>1. /\ Steadily' = Steadily /\ next_table' = next_table + 1 /\ ~reading' /\ read_any'
        /\ reading /\ due \subseteq sockets /\ sockets' = sockets /\ incomplete' = incomplete
    BY <1>9 DEF EndTable, Steadily
  <2>2. ASSUME ~incomplete, NEW c \in Steadily, NEW i \in 1..Len(Tables),
               TableOf[c] = Tables[i], i < next_table + 1
        PROVE  c \in sockets
    <3>1. i < next_table \/ i = next_table
      BY <1>1, <2>2
    <3> QED BY <2>1, <2>2, <3>1 DEF TablesInv
  <2> QED BY <2>1, <2>2 DEF TablesInv
<1>10. CASE Merge
  BY <1>10 DEF Merge, TablesInv, Steadily
<1> QED BY <1>3, <1>4, <1>5, <1>6, <1>7, <1>8, <1>9, <1>10 DEF Next, RunLens

LEMMA ShownStep ==
  TypeOK /\ VisitInv /\ FdsInv /\ TablesInv /\ ShownInv /\ [Next]_vars => ShownInv'
<1> SUFFICES ASSUME TypeOK, VisitInv, FdsInv, TablesInv, ShownInv, [Next]_vars PROVE ShownInv'
  OBVIOUS
<1> USE DEF ShownInv
<1>1. CASE Processes \/ Descriptors
  BY <1>1, ProcessesLeave, DescriptorsLeave DEF Kernel, samplingVars, results
<1>2. CASE Rounds
  <2>1. stage' # "done"
    BY <1>2 DEF Rounds, List, ReadRest, Walk, TryWait, ReadStat, AfterEntry
  <2> QED BY <1>2, <2>1 DEF Rounds, results
<1>3. CASE BeginReport
  BY <1>3 DEF BeginReport, results
<1>4. ASSUME NEW p \in Procs, Skip(p) \/ ListFds(p) PROVE ShownInv'
  BY <1>4 DEF Skip, ListFds, Visit, results
<1>5. ASSUME NEW p \in Procs, FdsUnreadable(p) PROVE ShownInv'
  BY <1>5 DEF FdsUnreadable, Visit
<1>6. CASE Reads
  BY <1>6, ReadsLeave DEF samplingVars, results
<1>7. CASE Merge
  <2>1. stage' = "files"
    BY <1>7 DEF Merge, VisitInv, samplingVars
  <2>2. CASE incomplete \/ ~read_any
    BY <1>7, <2>1, <2>2 DEF Merge
  <2>3. CASE ~incomplete /\ read_any
    <3>1. Steadily \subseteq Seen
      BY <1>7, <2>3, SteadyIsSeen DEF Merge
    <3>2. \A c \in Connections : connections[c] \subseteq connections'[c]
      BY <1>7 DEF Merge, Associated
    <3>3. \A c \in Steadily : c \in Connections /\ visiting \in connections'[c]
      BY <1>7, <3>1 DEF Merge, Associated, Steadily
    <3>4. shown \subseteq Procs \X Connections
      BY DEF TypeOK
    <3>5. ASSUME NEW m \in shown' PROVE m[1] \in connections'[m[2]] \/ observation_limited'
      <4>1. CASE m \in shown
        BY <1>7, <3>2, <3>4, <4>1 DEF Merge
      <4>2. CASE m \in {visiting} \X Steadily
        BY <3>3, <4>2
      <4> QED BY <1>7, <3>5, <4>1, <4>2 DEF Merge
    <3> QED BY <2>1, <3>5
  <2> QED BY <2>2, <2>3
<1>8. CASE Leave
  BY <1>8 DEF Leave, is_limited
<1>9. CASE UNCHANGED vars
  BY <1>9 DEF vars, samplingVars, results
<1> QED
  BY <1>1, <1>2, <1>3, <1>4, <1>5, <1>6, <1>7, <1>8, <1>9 DEF Next, RunLens, Reads

(* A connection that a descriptor of a process stood for from the listing  *)
(* of its descriptors to the end of the tables is reported with it, or the *)
(* report is limited: with any number of processes, descriptors, tables and*)
(* connections, whatever opens, moves, is inherited, closes or exits while *)
(* the numbers and the lines of the tables are read one by one.            *)
THEOREM SteadyIsReported == Spec => []SteadyConnectionIsSeen
<1>1. Init => FdsInv /\ TablesInv /\ ShownInv
  BY DEF Init, SamplingInit, FdsInv, TablesInv, ShownInv, Steadily
<1>2. ShownInv => SteadyConnectionIsSeen
  BY DEF ShownInv, SteadyConnectionIsSeen
<1> QED BY <1>1, <1>2, TypeInvariant, FdsStep, TablesStep, ShownStep, PTL DEF Spec

-----------------------------------------------------------------------------
(* Endpoints: what the two backends make of the bytes of a socket.         *)

(* An IPv4 address, an IPv6 address and a mapped one have that many bytes. *)
LEMMA MappedIsIPv6 ==
  ASSUME NEW a \in IPv4
  PROVE  Mapped(a) \in IPv6
<1>1. \A i \in 1..16 : i <= 12 => Prefix[i] \in Byte
  BY DEF Prefix, Byte
<1>2. \A i \in 1..16 : ~(i <= 12) => a[i - 12] \in Byte
  BY DEF IPv4
<1> QED
  BY <1>1, <1>2 DEF Mapped, IPv6

(* decode_ipv4_address undoes the order of bytes of the kernel's word.     *)
LEMMA DecodesIPv4 ==
  ASSUME NEW a \in IPv4
  PROVE  decode_ipv4_address(Words(a)) = a
<1>1. DOMAIN a = 1..4
  BY DEF IPv4
<1>2. \A i \in 1..4 : Words(a)[5 - i] = a[i]
  <2> TAKE i \in 1..4
  <2>1. i = 1 \/ i = 2 \/ i = 3 \/ i = 4
    OBVIOUS
  <2>2. Words(a)[5 - i] = a[4 * ((4 - i) \div 4) + 4 - ((4 - i) % 4)]
    BY <1>1 DEF Words
  <2> QED
    BY <2>1, <2>2
<1> QED
  BY <1>1, <1>2 DEF decode_ipv4_address, IPv4

(* decode_ipv6_address undoes it for each of the four words.               *)
LEMMA DecodesIPv6 ==
  ASSUME NEW a \in IPv6
  PROVE  decode_ipv6_address(Words(a)) = a
<1>1. DOMAIN a = 1..16
  BY DEF IPv6
<1> DEFINE w == Words(a)
           Word(i) == (i - 1) \div 4
           Swapped(i) == IF i \in 1..4 THEN 5 - i ELSE IF i \in 5..8 THEN 13 - i
                         ELSE IF i \in 9..12 THEN 21 - i ELSE 29 - i
<1>2. w = [i \in 1..16 |-> a[4 * ((i - 1) \div 4) + 4 - ((i - 1) % 4)]]
  BY <1>1 DEF Words
<1>3. decode_ipv6_address(w) = [i \in 1..16 |-> w[Swapped(i)]]
  <2> DEFINE r1 == reverse(w, 1, 4)
             r2 == reverse(r1, 5, 8)
             r3 == reverse(r2, 9, 12)
  <2>1. r1 = [i \in 1..16 |-> IF i \in 1..4 THEN w[5 - i] ELSE w[i]]
    BY <1>2 DEF reverse
  <2>2. r2 = [i \in 1..16 |-> IF i \in 5..8 THEN r1[13 - i] ELSE r1[i]]
    BY <2>1 DEF reverse
  <2>3. r3 = [i \in 1..16 |-> IF i \in 9..12 THEN r2[21 - i] ELSE r2[i]]
    BY <2>2 DEF reverse
  <2>4. decode_ipv6_address(w) = [i \in 1..16 |-> IF i \in 13..16 THEN r3[29 - i] ELSE r3[i]]
    BY <2>3 DEF reverse, decode_ipv6_address
  <2> HIDE DEF w, r1, r2, r3
  <2>5. \A i \in 1..16 : (IF i \in 13..16 THEN r3[29 - i] ELSE r3[i]) = w[Swapped(i)]
    BY <2>1, <2>2, <2>3
  <2> QED
    BY <2>4, <2>5
<1>4. \A i \in 1..16 : w[Swapped(i)] = a[i]
  <2> HIDE DEF w
  <2> TAKE i \in 1..16
  <2>1. Swapped(i) \in 1..16
    OBVIOUS
  <2>2. w[Swapped(i)] = a[4 * ((Swapped(i) - 1) \div 4) + 4 - ((Swapped(i) - 1) % 4)]
    BY <1>2, <2>1
  <2>3. 4 * ((Swapped(i) - 1) \div 4) + 4 - ((Swapped(i) - 1) % 4) = i
    OBVIOUS
  <2> QED
    BY <2>2, <2>3
<1> QED
  BY <1>1, <1>3, <1>4 DEF IPv6

(* from_be gives back the port that the kernel keeps in network order.     *)
LEMMA DecodesPort ==
  ASSUME NEW port \in Port
  PROVE  from_be(Exchanged(port)) = port
<1> DEFINE h == port \div 256
           l == port % 256
<1>1. h \in Int /\ l \in Int /\ 0 <= l /\ l < 256 /\ port = 256 * h + l
  BY DEF Port
<1> HIDE DEF h, l
<1>p. port \in Int /\ 0 <= port /\ port < 65536
  BY DEF Port
<1>2. 0 <= h /\ h < 256
  <2>1. CASE h < 0
    BY <1>1, <1>p, <2>1
  <2>2. CASE h >= 256
    BY <1>1, <1>p, <2>2
  <2> QED
    BY <1>1, <2>1, <2>2
<1>3. (256 * l + h) % 256 = h /\ (256 * l + h) \div 256 = l
  BY <1>1, <1>2
<1>4. Exchanged(port) = 256 * l + h
  BY DEF Exchanged, h, l
<1> QED
  BY <1>1, <1>3, <1>4 DEF from_be, Exchanged

LEMMA ZeroPort ==
  ASSUME NEW port \in Port
  PROVE  Exchanged(port) = 0 <=> port = 0
BY DecodesPort DEF Port, from_be, Exchanged

(* Code and name of every phase of a TCP connection.                       *)
LEMMA SameNames ==
  ASSUME NEW p \in TcpPhases
  PROVE  network_socket_state("TCP", LinuxCode[p]) = tcp_state(MacCode[p])
<1> DEFINE nss(code) == network_socket_state("TCP", code)
<1>1. /\ nss(1) = "ESTABLISHED" /\ nss(2) = "SYN_SENT" /\ nss(3) = "SYN_RECV"
      /\ nss(4) = "FIN_WAIT1" /\ nss(5) = "FIN_WAIT2" /\ nss(6) = "TIME_WAIT"
      /\ nss(7) = "CLOSE" /\ nss(8) = "CLOSE_WAIT" /\ nss(9) = "LAST_ACK"
      /\ nss(10) = "LISTEN" /\ nss(11) = "CLOSING"
  BY DEF network_socket_state, TcpNames
<1>2. /\ tcp_state(0) = "CLOSE" /\ tcp_state(1) = "LISTEN" /\ tcp_state(2) = "SYN_SENT"
      /\ tcp_state(3) = "SYN_RECV" /\ tcp_state(4) = "ESTABLISHED" /\ tcp_state(5) = "CLOSE_WAIT"
      /\ tcp_state(6) = "FIN_WAIT1" /\ tcp_state(7) = "CLOSING" /\ tcp_state(8) = "LAST_ACK"
      /\ tcp_state(9) = "FIN_WAIT2" /\ tcp_state(10) = "TIME_WAIT"
  BY DEF tcp_state
<1>3. /\ p = "established" => LinuxCode[p] = 1 /\ MacCode[p] = 4
      /\ p = "syn sent" => LinuxCode[p] = 2 /\ MacCode[p] = 2
      /\ p = "syn received" => LinuxCode[p] = 3 /\ MacCode[p] = 3
      /\ p = "fin wait 1" => LinuxCode[p] = 4 /\ MacCode[p] = 6
      /\ p = "fin wait 2" => LinuxCode[p] = 5 /\ MacCode[p] = 9
      /\ p = "time wait" => LinuxCode[p] = 6 /\ MacCode[p] = 10
  BY DEF LinuxCode, MacCode
<1>4. /\ p = "closed" => LinuxCode[p] = 7 /\ MacCode[p] = 0
      /\ p = "close wait" => LinuxCode[p] = 8 /\ MacCode[p] = 5
      /\ p = "last ack" => LinuxCode[p] = 9 /\ MacCode[p] = 8
      /\ p = "listening" => LinuxCode[p] = 10 /\ MacCode[p] = 1
      /\ p = "closing" => LinuxCode[p] = 11 /\ MacCode[p] = 7
  BY DEF LinuxCode, MacCode
<1> HIDE DEF nss
<1>5. nss(LinuxCode[p]) = tcp_state(MacCode[p])
  BY <1>1, <1>2, <1>3, <1>4 DEF TcpPhases
<1> QED
  BY <1>5 DEF nss

(* What a socket may be.                                                   *)
LEMMA ShapeOfSocket ==
  ASSUME NEW s \in Socket
  PROVE  /\ s.local = [address |-> s.local.address, port |-> s.local.port]
         /\ s.remote = [address |-> s.remote.address, port |-> s.remote.port]
         /\ s.local.port \in Port /\ s.remote.port \in Port
         /\ s.protocol \in {"TCP", "UDP"} /\ s.phase \in TcpPhases
         /\ \/ s.family = 4 /\ s.shape = 4 /\ s.local.address \in IPv4 /\ s.remote.address \in IPv4
            \/ s.family = 6 /\ s.shape = 4 /\ s.local.address \in IPv4 /\ s.remote.address \in IPv4
            \/ s.family = 6 /\ s.shape = 6 /\ s.local.address \in IPv6 /\ s.remote.address \in IPv6
<1>1. s \in Sockets(4, 4, IPv4) \/ s \in Sockets(6, 4, IPv4) \/ s \in Sockets(6, 6, IPv6)
  BY DEF Socket
<1> QED
  BY <1>1 DEF Sockets, Endpoint

(* One endpoint of a socket, on its way through a line of /proc/<pid>/net. *)
LEMMA LinuxEndpoint ==
  ASSUME NEW s \in Socket, NEW e,
         e = s.local \/ e = s.remote
  PROVE  parse_network_endpoint(Printed(s, e), s.family = 6) = Shown(s, e)
<1>1. e = [address |-> e.address, port |-> e.port]
  BY ShapeOfSocket
<1>2. CASE s.family = 4 /\ s.shape = 4 /\ e.address \in IPv4
  <2>1. decode_ipv4_address(Words(e.address)) = e.address
    BY <1>2, DecodesIPv4
  <2> QED
    BY <1>1, <1>2, <2>1 DEF parse_network_endpoint, Printed, Shown, TalksIPv4
<1>3. CASE s.family = 6 /\ s.shape = 4 /\ e.address \in IPv4
  <2>1. decode_ipv6_address(Words(Mapped(e.address))) = Mapped(e.address)
    BY <1>3, MappedIsIPv6, DecodesIPv6
  <2>2. Shown(s, e) = [address |-> Mapped(e.address), port |-> e.port]
    BY <1>1, <1>3 DEF Shown, TalksIPv4
  <2> QED
    BY <1>3, <2>1, <2>2 DEF parse_network_endpoint, Printed, TalksIPv4
<1>4. CASE s.family = 6 /\ s.shape = 6 /\ e.address \in IPv6
  <2>1. decode_ipv6_address(Words(e.address)) = e.address
    BY <1>4, DecodesIPv6
  <2> QED
    BY <1>1, <1>4, <2>1 DEF parse_network_endpoint, Printed, Shown, TalksIPv4
<1> QED
  BY <1>2, <1>3, <1>4, ShapeOfSocket

(* What holds of every socket holds of those that are being decoded.       *)
LEMMA ListedInvariant == Decoding => [](listed \subseteq SomeSockets)
<1>1. listed \subseteq SomeSockets /\ [listed' \subseteq SomeSockets]_listed
      => (listed \subseteq SomeSockets)'
  OBVIOUS
<1> QED BY <1>1, PTL DEF Decoding

LEMMA EndpointsOf ==
  ASSUME NEW s \in SomeSockets
  PROVE  /\ OnLinux(s).local = Shown(s, s.local) /\ OnLinux(s).remote = Shown(s, s.remote)
         /\ OnMacOS(s).local = s.local /\ OnMacOS(s).remote = s.remote
<1>1. s \in Socket
  BY EndpointsAssumption
<1>2. OnLinux(s).local = Shown(s, s.local) /\ OnLinux(s).remote = Shown(s, s.remote)
  BY <1>1, LinuxEndpoint DEF OnLinux, parse_network_socket, Line
<1>3. OnMacOS(s).local = s.local /\ OnMacOS(s).remote = s.remote
  <2>1. /\ from_be(Exchanged(s.local.port)) = s.local.port
        /\ from_be(Exchanged(s.remote.port)) = s.remote.port
    BY <1>1, ShapeOfSocket, DecodesPort
  <2> QED
    BY <1>1, <2>1, ShapeOfSocket DEF OnMacOS, socket_record, SocketInfo
<1> QED
  BY <1>2, <1>3

(* Both backends file any socket under its own two endpoints.              *)
THEOREM OwnEndpoints == Decoding => []EndpointsAreTheSockets
<1>1. listed \subseteq SomeSockets => EndpointsAreTheSockets
  BY EndpointsOf DEF EndpointsAreTheSockets
<1> QED BY <1>1, ListedInvariant, PTL

LEMMA SameText ==
  ASSUME NEW s \in SomeSockets
  PROVE  /\ OnLinux(s).protocol.label = OnMacOS(s).protocol.label
         /\ OnLinux(s).state = OnMacOS(s).state
<1>1. s \in Socket
  BY EndpointsAssumption
<1>2. OnLinux(s).protocol.label = OnMacOS(s).protocol.label
  BY <1>1 DEF OnLinux, OnMacOS, parse_network_socket, socket_record, SocketInfo, Protocol
<1>3. CASE s.protocol = "TCP"
  <2>1. s.phase \in TcpPhases
    BY <1>1, ShapeOfSocket
  <2>2. network_socket_state("TCP", LinuxCode[s.phase]) = tcp_state(MacCode[s.phase])
    BY <2>1, SameNames
  <2>3. OnLinux(s).state = network_socket_state("TCP", LinuxCode[s.phase])
    BY <1>3 DEF OnLinux, parse_network_socket, Line
  <2>4. OnMacOS(s).state = tcp_state(MacCode[s.phase])
    BY <1>3 DEF OnMacOS, socket_record, SocketInfo
  <2> QED
    BY <1>2, <2>2, <2>3, <2>4
<1>4. CASE s.protocol = "UDP"
  <2>1. OnLinux(s).state = IF s.remote.port = 0 THEN "UNCONNECTED" ELSE "ESTABLISHED"
    BY <1>4 DEF OnLinux, parse_network_socket, Line, network_socket_state, Connected
  <2>2. Exchanged(s.remote.port) = 0 <=> s.remote.port = 0
    BY <1>1, ShapeOfSocket, ZeroPort
  <2> QED
    BY <1>2, <1>4, <2>1, <2>2 DEF OnMacOS, socket_record, SocketInfo
<1> QED
  BY <1>1, <1>2, <1>3, <1>4, ShapeOfSocket

(* A mapped address is neither ::1 nor ::, as its eleventh byte is 255.    *)
LEMMA RemoteOn ==
  ASSUME NEW s \in SomeSockets
  PROVE  is_remote(OnLinux(s)) <=> is_remote(OnMacOS(s)) \/ TalksIPv4(s)
<1>1. s \in Socket
  BY EndpointsAssumption
<1>s. \/ s.shape = 4 /\ s.family \in {4, 6} /\ s.remote.address \in IPv4
      \/ s.shape = 6 /\ s.family = 6 /\ s.remote.address \in IPv6
  BY <1>1, ShapeOfSocket
<1>2. OnLinux(s).protocol.version = s.family /\ OnMacOS(s).protocol.version = s.shape
  BY <1>s DEF OnLinux, OnMacOS, parse_network_socket, socket_record, SocketInfo, Protocol
<1>3. CASE TalksIPv4(s)
  <2>1. OnLinux(s).remote.address = Mapped(s.remote.address)
    <3>1. s.remote = [address |-> s.remote.address, port |-> s.remote.port]
      BY <1>1, ShapeOfSocket
    <3>2. [s.remote EXCEPT !.address = Mapped(@)].address = Mapped(s.remote.address)
      BY <3>1
    <3> QED BY <1>3, <3>2, EndpointsOf DEF Shown
  <2>2. Mapped(s.remote.address)[11] = 255 /\ 11 \in DOMAIN Mapped(s.remote.address)
    BY DEF Mapped, Prefix
  <2>3. ~is_loopback_v6(Mapped(s.remote.address)) /\ ~is_unspecified(Mapped(s.remote.address))
    BY <2>2 DEF is_loopback_v6, is_unspecified
  <2> QED BY <1>2, <1>3, <2>1, <2>3 DEF is_remote, is_remote_address, TalksIPv4
<1>4. CASE ~TalksIPv4(s)
  <2>1. OnLinux(s).remote = s.remote /\ OnMacOS(s).remote = s.remote
    BY <1>4, EndpointsOf DEF Shown
  <2>2. s.family = s.shape
    BY <1>s, <1>4 DEF TalksIPv4
  <2> QED BY <1>2, <1>4, <2>1, <2>2 DEF is_remote
<1> QED BY <1>3, <1>4

(* Both backends give any socket the same protocol and the same state, and *)
(* Linux counts as remote, besides those that macOS does, exactly the IPv6 *)
(* sockets that talk IPv4: those that do so with this machine are the only *)
(* connections on which the two reports differ.                            *)
THEOREM Agreement == Decoding => []BackendsAgree
<1>1. listed \subseteq SomeSockets => BackendsAgree
  BY SameText, RemoteOn DEF BackendsAgree
<1> QED BY <1>1, ListedInvariant, PTL
=============================================================================
