----------------------------- MODULE Filesystem -----------------------------
(***************************************************************************)
(* FilesystemObservation (src/src/filesystem.rs): storage I/O totals from  *)
(* the first and the last reading of each process, and whether files were  *)
(* seen open.  Which paths these are is left out; what counts is whether a *)
(* regular file was open for reading or for writing, or a directory.       *)
(***************************************************************************)
EXTENDS Sampling, Functions

CONSTANTS Directions,  \* {"read", "write"}
          Listings,    \* what the descriptors of a process may look like
          MaxBytes,    \* bound: bytes that one process transfers per direction
          Privileged,  \* does RunLens run as root?
          None         \* Option::None

(* What is open, and was an entry gone when its turn came?                 *)
Kinds == Directions \cup {"directory"}
Listing == [open : SUBSET Kinds, incomplete : BOOLEAN]

ASSUME FilesystemAssumption ==
  /\ Directions \subseteq {"read", "write"} /\ MaxBytes \in Nat
  /\ Listings \subseteq Listing
  /\ Privileged \in BOOLEAN /\ None \notin Int

VARIABLES
  io,             \* kernel: bytes transferred to and from storage so far
  shut,           \* kernel: processes RunLens may not look into (setuid programs)
  readIo,         \* snapshot: read_storage_bytes and write_storage_bytes
  observed_pids, initial_io, latest_io,  \* the fields of these names
  missing,        \* missing_initial_read and missing_initial_write
  paths,          \* what was seen open: the kinds of the entries of paths
  paths_limited,
  limited,        \* limitations.filesystem
  atList,         \* history: io when /proc was listed
  opening,        \* history: per process, atList at its first visit
  baseline,       \* history: per process, io at its first visit
  closing,        \* history: per process, atList at its last readable visit
  blind           \* history: unreadable since its counters were to be read

outside == <<io, shut>>
counters == <<observed_pids, initial_io, latest_io, missing>>
accesses == <<paths, paths_limited>>
history == <<atList, opening, baseline, closing, blind>>
vars == <<samplingVars, outside, readIo, counters, accesses, limited, history>>

Reading == [Directions -> 0..MaxBytes \cup {None}]
Amount == [Directions -> 0..MaxBytes]
Each(value) == [p \in Procs |-> [d \in Directions |-> value]]

TypeOK ==
  /\ SamplingTypeOK
  /\ io \in [Procs -> Amount] /\ shut \subseteq Procs
  /\ readIo \in [Procs -> Reading]
  /\ observed_pids \subseteq Procs
  /\ initial_io \in [Procs -> Reading] /\ latest_io \in [Procs -> Reading]
  /\ missing \in [Directions -> SUBSET observed_pids]
  /\ paths \subseteq Kinds
  /\ {paths_limited, limited} \subseteq BOOLEAN
  /\ {atList, opening, baseline, closing} \subseteq [Procs -> Amount] /\ blind \subseteq Procs

Init ==
  /\ SamplingInit
  /\ io = Each(0) /\ shut = {} /\ readIo = Each(None)
  /\ observed_pids = {} /\ initial_io = Each(None) /\ latest_io = Each(None)
  /\ missing = [d \in Directions |-> {}]
  /\ paths = {} /\ paths_limited = FALSE /\ limited = FALSE
  /\ atList = Each(0) /\ opening = Each(0) /\ baseline = Each(0) /\ closing = Each(0)
  /\ blind = {}

-----------------------------------------------------------------------------
(* The kernel.                                                             *)

Processes ==
  /\ Kernel
  /\ UNCHANGED <<outside, readIo, counters, accesses, limited, history>>

Transfer(p, d) ==
  /\ state[p] = "R" /\ io[p][d] < MaxBytes
  /\ io' = [io EXCEPT ![p][d] = @ + 1]
  /\ UNCHANGED <<samplingVars, shut, readIo, counters, accesses, limited, history>>

(* exec of a setuid program hides /proc/<pid>/io and /proc/<pid>/fd alike; *)
(* it may exec an ordinary program as the same user later.  Root reads all.*)
Shut(p) ==
  /\ state[p] = "R"
  /\ \/ p \notin shut /\ shut' = shut \cup {p} /\ UNCHANGED blind
     \/ p \in shut /\ shut' = shut \ {p} /\ blind' = blind \ {p}
  /\ UNCHANGED <<samplingVars, io, readIo, counters, accesses, limited, atList,
                 opening, baseline, closing>>

(* Only root may read these files of a zombie, which Linux gives to root.  *)
Readable(p) == IF Privileged THEN p \in InTable ELSE state[p] = "R" /\ p \notin shut

-----------------------------------------------------------------------------
(* The snapshot.                                                           *)

BeginSnapshot ==
  /\ List
  /\ readIo' = Each(None) /\ atList' = io
  /\ UNCHANGED <<outside, counters, accesses, limited, opening, baseline, closing, blind>>

ReadState(p) ==
  /\ ReadStat(p)
  /\ UNCHANGED <<outside, readIo, counters, accesses, limited, history>>

(* read_process_io: both counters are in one file.                         *)
ReadIo ==
  /\ ReadRest
  /\ IF Readable(current)
     THEN readIo' = [readIo EXCEPT ![current] = io[current]] /\ UNCHANGED blind
     ELSE blind' = blind \cup {current} /\ UNCHANGED readIo
  /\ UNCHANGED <<outside, counters, accesses, limited, atList, opening, baseline, closing>>

BeginObserve ==
  /\ Walk
  /\ UNCHANGED <<outside, readIo, counters, accesses, limited, history>>

-----------------------------------------------------------------------------
(* FilesystemObservation::observe, for one process of the tree.            *)

Unread(p) == {d \in Directions : readIo[p][d] = None}

(* observe_io.                                                             *)
MissingForgotten(p) == missing   \* mutant: the first reading need not succeed
MissingAfter(p) ==
  [d \in Directions |->
     IF p \notin observed_pids /\ d \in Unread(p) THEN missing[d] \cup {p} ELSE missing[d]]

InitialOverwritten(p) ==  \* mutant: without the test for is_none
  [initial_io EXCEPT ![p] = [d \in Directions |->
     IF d \in Unread(p) THEN initial_io[p][d] ELSE readIo[p][d]]]

InitialAfter(p) ==
  [initial_io EXCEPT ![p] = [d \in Directions |->
     IF p \notin MissingAfter(p)[d] /\ initial_io[p][d] = None
     THEN readIo[p][d] ELSE initial_io[p][d]]]

LatestAfter(p) ==
  [latest_io EXCEPT ![p] = [d \in Directions |->
     IF d \in Unread(p) THEN latest_io[p][d] ELSE readIo[p][d]]]

ObserveIoUnmarked(p) ==   \* mutant: observed_pids.contains in place of insert
  /\ missing' = MissingAfter(p)
  /\ initial_io' = InitialAfter(p)
  /\ latest_io' = LatestAfter(p)
  /\ UNCHANGED observed_pids

ObserveIo(p) ==
  /\ observed_pids' = observed_pids \cup {p}
  /\ missing' = MissingAfter(p)
  /\ initial_io' = InitialAfter(p)
  /\ latest_io' = LatestAfter(p)

(* observe_paths, for a process that the snapshot has as alive.  The list  *)
(* of its descriptors is read now, from the process as it has become: it   *)
(* may be gone, hidden, a zombie with none, or close some while they are   *)
(* looked at one by one, which leaves the list incomplete.                 *)
OpenFiles(p) ==
  \E listing \in Listings :
    /\ paths' = paths \cup listing.open
    /\ paths_limited' = (paths_limited \/ listing.incomplete)

ObservePathsQuietly(p) ==  \* mutant: no list is taken for an empty list
  IF state[p] = "R" /\ Readable(p) THEN OpenFiles(p) ELSE UNCHANGED accesses

ObservePaths(p) ==
  IF state[p] = "R" /\ Readable(p)
  THEN OpenFiles(p)
  ELSE /\ paths_limited' = (paths_limited \/ ~Readable(p))
       /\ UNCHANGED paths

First(p, h, value) == IF p \in observed_pids THEN h ELSE [h EXCEPT ![p] = value[p]]

Observe(p) ==
  /\ Visit(p)
  /\ ObserveIo(p)
  /\ IF p \in Alive THEN ObservePaths(p) ELSE UNCHANGED accesses
  /\ opening' = First(p, opening, atList)
  /\ baseline' = First(p, baseline, io)
  /\ closing' = IF Unread(p) = {} THEN [closing EXCEPT ![p] = atList[p]] ELSE closing
  /\ atList' = [atList EXCEPT ![p] = Each(0)[p]]  \* no longer of use
  /\ UNCHANGED <<outside, readIo, limited, blind>>

-----------------------------------------------------------------------------
(* The results.                                                            *)

Window(d) == [p \in observed_pids |-> latest_io[p][d] - initial_io[p][d]]

(* A sum of u64 that no byte counter reaches is not bounded here.          *)
aggregate_bytes(d) ==
  IF \/ missing[d] # {}
     \/ \E p \in observed_pids : \/ None \in {initial_io[p][d], latest_io[p][d]}
                                 \/ latest_io[p][d] < initial_io[p][d]
  THEN None ELSE SumFunction(Window(d))

(* Zero bytes are not believed when a file was open for it.                *)
bytes_for_report(d) ==
  IF d \in paths /\ aggregate_bytes(d) = 0 THEN None ELSE aggregate_bytes(d)

is_limited ==
  \/ observed_pids = {} \/ paths_limited
  \/ \E d \in Directions :
       missing[d] # {} \/ (bytes_for_report(d) = None /\ d \in paths)

has_activity ==
  \/ paths # {}
  \/ \E d \in Directions : bytes_for_report(d) \notin {None, 0}

(* What the report says of direction d: "unavailable" is None, and "none   *)
(* observed" says that there was nothing.                                  *)
Printed(d) ==
  IF observed_pids = {} THEN None
  ELSE IF has_activity THEN bytes_for_report(d) ELSE 0

-----------------------------------------------------------------------------
Leave ==
  /\ EndObserve
  /\ limited' = (limited \/ is_limited)
  /\ readIo' = Each(None) /\ atList' = Each(0) /\ blind' = {}
  /\ UNCHANGED <<outside, counters, accesses, opening, baseline, closing>>

Wait ==
  /\ TryWait
  /\ UNCHANGED <<outside, readIo, counters, accesses, limited, history>>

Report ==
  /\ Render
  /\ UNCHANGED <<outside, readIo, counters, accesses, limited, history>>

RunLens ==
  \/ BeginSnapshot \/ ReadIo \/ BeginObserve \/ Leave \/ Wait \/ Report
  \/ \E p \in Procs : ReadState(p) \/ Observe(p)

(* print_report only prints what these observations have left: what the    *)
(* processes do by then no longer shows.                                   *)
Next ==
  \/ /\ round # "report"
     /\ Processes \/ \E p \in Procs : Shut(p) \/ \E d \in Directions : Transfer(p, d)
  \/ RunLens
  \/ stage = "done" /\ UNCHANGED vars

Spec == Init /\ [][Next]_vars

-----------------------------------------------------------------------------
(* Properties.                                                             *)

Between(low, high, p, d) == IF high[p][d] > low[p][d] THEN high[p][d] - low[p][d] ELSE 0

(* Each process contributes what it transferred between its two readings:  *)
(* at most what it did since /proc was listed for the first of them, and at*)
(* least what it did from its first visit to the listing for the last,     *)
(* however many rounds follow in which a reading fails or is of a zombie.  *)
WindowsAreBracketed ==
  \A p \in observed_pids, d \in Directions : p \notin missing[d] =>
    /\ None \notin {initial_io[p][d], latest_io[p][d]}
    /\ Window(d)[p] <= Between(opening, io, p, d)
    /\ Between(baseline, closing, p, d) <= Window(d)[p]

Transferred(low, high, d) == [p \in observed_pids |-> Between(low, high, p, d)]

(* A total that the report prints is what the recorded processes have      *)
(* transferred between their first and their last reading: at most what    *)
(* they did since /proc was listed for the first, at least what they did   *)
(* from then until it was listed for the last.  Not so when the first      *)
(* reading of a process has failed: there is no total then, but if nothing *)
(* else was seen, the report has "none observed" where there may have been *)
(* some, with the words that one or more I/O counters were unavailable.    *)
BytesAreBracketed ==
  stage = "done" => \A d \in Directions : Printed(d) # None /\ missing[d] = {} =>
    /\ Printed(d) <= SumFunction(Transferred(opening, io, d))
    /\ SumFunction(Transferred(baseline, closing, d)) <= Printed(d)

(* src/README.md:75: "Unavailable measurements are labeled as unavailable  *)
(* or limited".  When observe has visited a living process that could not  *)
(* be looked into from the reading of its counters on, the data are called *)
(* limited, even if this was not the first reading: no counter tells, but  *)
(* its descriptors, looked at after them, cannot be read either.           *)
UnreadableIsLabelled ==
  stage = "files" /\ (current_tree \cap Alive \cap blind) \ todo # {} => is_limited

(* src/src/observation.rs:327: the report lists "filesystem descriptors or *)
(* I/O counters were unavailable".  Descriptors and first readings that    *)
(* failed are never forgotten, so when it says so, one of these failed or  *)
(* a total is unavailable in that very report.                             *)
LimitedOnlyIfUnavailable == stage = "done" /\ limited => is_limited
=============================================================================
