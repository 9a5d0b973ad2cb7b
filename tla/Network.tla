------------------------------ MODULE Network ------------------------------
(***************************************************************************)
(* NetworkObservation (src/src/network.rs): the sockets of the processes,  *)
(* found by listing the descriptor numbers of a process, looking at one    *)
(* number after the other, and then reading, line by line, the socket      *)
(* tables that give these sockets their endpoints, while the process opens,*)
(* moves and closes sockets, forks and exits.  A connection is its socket  *)
(* and its key (protocol and both endpoints); its TCP state, and the       *)
(* command lines filed with it, are left out.                              *)
(***************************************************************************)
EXTENDS Sampling, Sequences

CONSTANTS Numbers,      \* descriptor numbers
          Connections,  \* the keys
          Tables,       \* the files of /proc/<pid>/net in the order they are read
          TableOf,      \* which of them lists a connection
          Hidden,       \* processes whose descriptors RunLens may not read
          Closed,       \* a number that stands for nothing
          Other,        \* ... for a file, or a socket that no table lists
          NoOne

ASSUME NetworkAssumption ==
  /\ Tables \in Seq(STRING) /\ Tables # <<>>
  /\ \A c \in Connections : \E i \in 1..Len(Tables) : TableOf[c] = Tables[i]
  /\ {Closed, Other} \cap Connections = {} /\ Closed # Other
  /\ Hidden \subseteq Procs /\ NoOne \notin Procs

VARIABLES
  fds,         \* kernel: what each number of each process stands for
  visiting,    \* the process that network_snapshot is at, NoOne between two
  pending,     \* the numbers that read_socket_inodes has yet to look at
  next_table,  \* the table that read_network_sockets reads next
  reading,     \* is it in the middle of that table?
  socket_ids,  \* the connections behind the descriptors
  sockets,     \* the connections found in the tables so far
  read_any, incomplete, \* was a table read; was an entry or a table not?
  connections,          \* key -> the processes associated with it
  backend_available, observation_limited,
  limited,     \* limitations.network
  steady,      \* history: numbers of `visiting' as they were when listed
  due,         \* history: in use ever since the table was opened that lists it
  shown        \* history: which process held what while it was visited

local == <<visiting, pending, next_table, reading, socket_ids, sockets, read_any, incomplete>>
results == <<connections, backend_available, observation_limited, limited>>
vars == <<samplingVars, fds, local, results, steady, due, shown>>

TypeOK ==
  /\ SamplingTypeOK
  /\ fds \in [Procs -> [Numbers -> Connections \cup {Closed, Other}]]
  /\ visiting \in Procs \cup {NoOne} /\ pending \subseteq Numbers
  /\ next_table \in 1..Len(Tables) + 1
  /\ socket_ids \subseteq Connections /\ sockets \subseteq Connections
  /\ connections \in [Connections -> SUBSET recorded]
  /\ {reading, read_any, incomplete, backend_available, observation_limited, limited} \subseteq BOOLEAN
  /\ steady \subseteq Numbers /\ due \subseteq Connections
  /\ shown \subseteq Procs \X Connections

Init ==
  /\ SamplingInit
  /\ fds = [p \in Procs |-> [n \in Numbers |-> Closed]]
  /\ visiting = NoOne /\ pending = {} /\ next_table = 1 /\ reading = FALSE
  /\ socket_ids = {} /\ sockets = {} /\ read_any = FALSE /\ incomplete = FALSE
  /\ connections = [c \in Connections |-> {}]
  /\ backend_available = FALSE /\ observation_limited = FALSE /\ limited = FALSE
  /\ steady = {} /\ due = {} /\ shown = {}

-----------------------------------------------------------------------------
(* The kernel: sockets are opened, inherited by children, moved from number*)
(* to number and from process to process, and closed.                      *)

InUse(f) == {c \in Connections : \E p \in Procs, n \in Numbers : f[p][n] = c}
Held(p) == {c \in Connections : \E n \in Numbers : fds[p][n] = c}
OpenNumbers(p) == {n \in Numbers : fds[p][n] # Closed}

Become(f) ==
  /\ fds' = f
  /\ steady' = {n \in steady : f[visiting][n] = fds[visiting][n]}
  /\ due' = due \cap InUse(f)
  /\ UNCHANGED <<local, results, shown>>

(* A child starts with those descriptors that survive its exec; whoever    *)
(* exits has none.                                                         *)
Processes ==
  /\ Kernel
  /\ \E inherited \in SUBSET Numbers :
       Become([p \in Procs |-> [n \in Numbers |->
         IF state'[p] # "R" THEN Closed
         ELSE IF state[p] # "unborn" THEN fds[p][n]
         ELSE IF n \in inherited THEN fds[Root][n] ELSE Closed]])

Assign(p, n, x) ==
  /\ state[p] = "R"
  /\ Become([fds EXCEPT ![p] = [@ EXCEPT ![n] = x]])
  /\ UNCHANGED samplingVars

(* The number of a socket is not given out again during one visit.         *)
Open(p, n, c) == c \notin InUse(fds) \cup socket_ids \cup sockets /\ Assign(p, n, c)

OpenOther(p, n) == Assign(p, n, Other)

(* dup2, or descriptors sent to another process.                           *)
Share(p, n, q, m) == fds[p][n] \in Connections /\ Assign(q, m, fds[p][n])

Close(p, n) == fds[p][n] # Closed /\ Assign(p, n, Closed)

Descriptors ==
  \E p \in Procs, n \in Numbers :
    \/ OpenOther(p, n) \/ Close(p, n)
    \/ \E c \in Connections : Open(p, n, c)
    \/ \E q \in Procs, m \in Numbers : Share(p, n, q, m)

-----------------------------------------------------------------------------
(* The rounds of main, without what the other modules add to them.         *)

Rounds ==
  /\ \/ List \/ ReadRest \/ Walk \/ TryWait
     \/ \E p \in Procs : ReadStat(p)
  /\ UNCHANGED <<fds, local, results, steady, due, shown>>

(* print_report looks once more at the descendants, in the tree or not.    *)
BeginReport ==
  /\ stage = "update" /\ round = "report"
  /\ stage' = "files"
  /\ todo' = Found \cap (recorded \ {Root})
  /\ UNCHANGED <<kernel, round, current, snapshot, recorded, fds, local, results,
                 steady, due, shown>>

-----------------------------------------------------------------------------
(* observe_pids and network_snapshot.                                      *)

(* A process that the snapshot has as a zombie is not looked at.           *)
Skip(p) ==
  /\ visiting = NoOne /\ p \notin Alive
  /\ Visit(p)
  /\ UNCHANGED <<fds, local, results, steady, due, shown>>

(* read_socket_inodes gives nothing: the process is gone, or hidden.       *)
FdsUnreadable(p) ==
  /\ visiting = NoOne /\ p \in Alive /\ (state[p] # "R" \/ p \in Hidden)
  /\ Visit(p)
  /\ observation_limited' = TRUE
  /\ shown' = shown \cup ({p} \X Held(p))
  /\ UNCHANGED <<fds, local, connections, backend_available, limited, steady, due>>

(* read_dir of /proc/<pid>/fd: an entry that cannot be read is left out.   *)
ListFds(p) ==
  /\ visiting = NoOne /\ p \in Alive /\ state[p] = "R" /\ p \notin Hidden
  /\ Visit(p)
  /\ visiting' = p
  /\ pending' \in SUBSET OpenNumbers(p)
  /\ incomplete' = (pending' # OpenNumbers(p))
  /\ steady' = OpenNumbers(p)
  /\ UNCHANGED <<fds, next_table, reading, socket_ids, sockets, read_any, results, due, shown>>

(* read_link of one of them: the number may stand for something else since,*)
(* or for nothing.                                                         *)
ReadLink(n) ==
  /\ n \in pending
  /\ pending' = pending \ {n}
  /\ socket_ids' = socket_ids \cup ({fds[visiting][n]} \cap Connections)
  /\ incomplete' = (incomplete \/ fds[visiting][n] = Closed)
  /\ UNCHANGED <<samplingVars, fds, visiting, next_table, reading, sockets, read_any, results,
                 steady, due, shown>>

(* read_network_sockets: a process that has exited has no tables.          *)
OpenTable ==
  /\ visiting # NoOne /\ pending = {} /\ ~reading /\ next_table <= Len(Tables)
  /\ IF state[visiting] = "R"
     THEN /\ reading' = TRUE
          /\ due' = {c \in InUse(fds) : TableOf[c] = Tables[next_table]}
          /\ UNCHANGED <<incomplete, next_table>>
     ELSE /\ incomplete' = TRUE /\ next_table' = next_table + 1
          /\ UNCHANGED <<reading, due>>
  /\ UNCHANGED <<samplingVars, fds, visiting, pending, socket_ids, sockets, read_any, results,
                 steady, shown>>

(* The sockets of the process's network namespace, in any order, also after*)
(* the process has exited.                                                 *)
ReadLine(c) ==
  /\ reading
  /\ c \in InUse(fds) \ sockets /\ TableOf[c] = Tables[next_table]
  /\ sockets' = sockets \cup {c}
  /\ UNCHANGED <<samplingVars, fds, visiting, pending, next_table, reading, socket_ids, read_any,
                 incomplete, results, steady, due, shown>>

(* A table has lines for all the sockets that exist while it is read; those*)
(* that come or go meanwhile may be in it.                                 *)
EndTable ==
  /\ reading /\ due \subseteq sockets
  /\ reading' = FALSE /\ read_any' = TRUE /\ next_table' = next_table + 1
  /\ due' = {}
  /\ UNCHANGED <<samplingVars, fds, visiting, pending, socket_ids, sockets, incomplete, results,
                 steady, shown>>

(* Mutants of Associated.                                                  *)
AssociatedAnew(c) == {visiting}        \* a known connection starts anew
AssociatedAnyone(c) ==                 \* with whoever holds it, known or not
  connections[c] \cup {p \in Procs : c \in Held(p)}

Associated(c) == connections[c] \cup {visiting}

Seen == IF read_any THEN socket_ids \cap sockets ELSE {}

(* What the numbers stand for that still stand for what they did.          *)
Steadily == {c \in Connections : \E n \in steady : fds[visiting][n] = c}

(* observe_process, with the snapshot of the process or without.           *)
Merge ==
  /\ visiting # NoOne /\ pending = {} /\ next_table > Len(Tables)
  /\ connections' = [c \in Connections |-> IF c \in Seen THEN Associated(c) ELSE connections[c]]
  /\ backend_available' = (backend_available \/ read_any)
  /\ observation_limited' = (observation_limited \/ incomplete \/ ~read_any)
  /\ shown' = shown \cup ({visiting} \X Steadily)
  /\ visiting' = NoOne /\ next_table' = 1
  /\ socket_ids' = {} /\ sockets' = {} /\ read_any' = FALSE /\ incomplete' = FALSE
  /\ steady' = {}
  /\ UNCHANGED <<samplingVars, fds, pending, reading, limited, due>>

is_limited == ~backend_available \/ observation_limited

Leave ==
  /\ visiting = NoOne
  /\ \/ EndObserve
     \/ /\ stage = "files" /\ todo = {} /\ round = "report"
        /\ stage' = "done"
        /\ UNCHANGED <<kernel, round, todo, current, snapshot, recorded>>
  /\ limited' = (limited \/ is_limited)
  /\ UNCHANGED <<fds, local, connections, backend_available, observation_limited,
                 steady, due, shown>>

-----------------------------------------------------------------------------
RunLens ==
  \/ Rounds \/ BeginReport \/ OpenTable \/ EndTable \/ Merge \/ Leave
  \/ \E p \in Procs : Skip(p) \/ FdsUnreadable(p) \/ ListFds(p)
  \/ \E n \in Numbers : ReadLink(n)
  \/ \E c \in Connections : ReadLine(c)

Next ==
  \/ stage # "done" /\ (Processes \/ Descriptors)
  \/ RunLens
  \/ stage = "done" /\ UNCHANGED vars

Spec == Init /\ [][Next]_vars

-----------------------------------------------------------------------------
(* Properties.                                                             *)

(* A connection that a descriptor of a process stood for from when its     *)
(* descriptors were listed to the end of the tables is in the report, with *)
(* that process among those associated with it, or else the report says    *)
(* that connections may be missing: whoever moved, shared or closed other  *)
(* descriptors meanwhile, and whatever becomes of this one afterwards.     *)
(* (One that is moved to another number while they are looked at is missed,*)
(* and no limitation reported, although it was held all along.)            *)
SteadyConnectionIsSeen ==
  stage = "done" => \A m \in shown : m[1] \in connections[m[2]] \/ limited
=============================================================================
