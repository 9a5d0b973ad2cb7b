# RunLens in TLA+

RunLens runs a command, watches it and its descendants, passes signals on to it, prints a report on
standard error and ends the way the command ended. It asks the system through one of two backends:
`/proc` on Linux, libproc on macOS. This directory holds models of that program, the configurations
that check them with TLC, and proofs that TLAPS checks. Source lines below are those of the repository
this project stands beside.

## 1. Inventory

| Part | Source | State it keeps | Operations |
|---|---|---|---|
| Main loop | `src/main.rs` | `RECEIVED_SIGNAL`, the dispositions of four signals, the `Child` | parse arguments, install handlers, spawn, `try_wait`, `forward_pending_signal`, `terminate_with_signal`; `record_signal` runs at any moment |
| Process observation | `src/observation.rs` | `primary`, `descendants`, `peak_resident_memory_kib`, five limitation flags | `observe(true)` every 50 ms, `observe(false)` once after the end, `print_report` |
| Linux boundary | `src/platform.rs` | none (a snapshot is built from scratch) | `process_snapshot`, `file_descriptors`, `network_snapshot` |
| macOS boundary | `src/platform/macos.rs` | none | the same three, by libproc |
| Filesystem observation | `src/filesystem.rs` | paths with their accesses, first and last I/O readings per pid, pids whose first reading failed | `observe_io`, `observe_paths`, totals, `is_limited` |
| Network observation | `src/network.rs` | connections with their processes, `backend_available`, `observation_limited` | `observe_pids`, reading and decoding of sockets, classification |
| Report, formatting | `src/report.rs`, `src/formatting.rs` | none | text |

How they interact: `main` is one thread. It calls `observe` and `print_report`, which call the boundary
for a snapshot and then, per process, `FilesystemObservation` and `NetworkObservation`, which go back
to the boundary for descriptors and sockets. The only code that runs concurrently inside RunLens is
the signal handler. Everything else that moves is outside: the kernel's process table, the processes
of the command, strangers that get their pids, and whoever sends signals. They move between any two
system calls of RunLens, and this is where its hard behaviour comes from:

* a snapshot is read entry by entry, and one entry from several files: it is no moment in time;
* what a snapshot selects (pids) is used later, when the pid may be a zombie, gone or somebody else's;
* parents exit and children are reparented while the tree is walked, by the kernel's links and by RunLens;
* the descriptors of a process are listed first and looked at one after another, while it closes and
  opens them;
* a signal arrives at any instruction, also while RunLens is about to kill itself with another one;
* readings fail for some processes and some rounds, and the report must say so.

What makes each part correct:

* Main loop: stored signals are forwarded once, in order, only to the command; the command's status is
  RunLens's own; RunLens ends.
* Process observation: what is recorded belongs to the command; nobody steady is overlooked; survivors are
  exactly the known descendants that live.
* Aggregation (CPU, memory, bytes): a number that is printed is bracketed by what the processes really
  used; otherwise it is labelled unavailable or limited.
* Descriptors: what is kept open is reported or called incomplete; what is reported has been open for that.
* Network: a connection held while its process is looked at is reported with it, or called incomplete; its
  endpoints, state and place are those of the socket, whichever backend tells them.
* Text: the command line of the report is the command that was run.

## 2. Modules

| Module | Models | Uses |
|---|---|---|
| `ProcessTable` | the kernel's process table: fork, exit, reparenting, zombies, reuse of pids; `platform` says which backend runs, and on Linux whether the command is a subreaper, which adopts orphans. External: written from what `src/` reads of it | |
| `Observation` | whose data `observe` and `print_report` record under which pid, with the snapshots of both backends | extends `ProcessTable` |
| `ObservationProofs` | theorems about it | extends `Observation` |
| `Sampling` | the rounds of `main` and the two-step reading of snapshot entries, shared by the next three | |
| `SamplingProofs` | lemmas: its actions keep the types | extends `Sampling` |
| `Resources` | CPU and memory readings, their aggregation, `limitations.resources` | extends `Sampling` |
| `ResourcesProofs` | theorems about it | extends `Resources`, `SamplingProofs`, `FoldProofs` |
| `Filesystem` | I/O readings, open files, byte totals, `limitations.filesystem` | extends `Sampling` |
| `FilesystemProofs` | theorems about it | extends `Filesystem`, `SamplingProofs`, `FoldProofs` |
| `Network` | sockets and tables, connections, `limitations.network` | extends `Sampling` |
| `NetworkProofs` | theorems about it and about `Endpoints` | extends `Network`, `Endpoints`, `SamplingProofs` |
| `Descriptors` | the reading of one process's descriptors while it changes them, on both backends | |
| `DescriptorsProofs` | theorems about it | extends `Descriptors` |
| `Endpoints` | what both backends make of a socket: endpoints, protocol, state, remote or local | |
| `Formatting` | the command line and the duration in the report | |
| `Supervisor` | `main` with its signal handler | instance of `Passthrough` |
| `Passthrough` | the abstract wrapper: launch once, pass the status on | |
| `SupervisorProofs` | theorems about `Supervisor`, among them that it implements `Passthrough`, and about `Formatting` | extends `Supervisor`, `Formatting`, `FoldProofs` |
| `FoldProofs` | lemmas: inductions over sets and sequences, sums, greatest elements, flattening | |
| `MC*` | instances for TLC | |

The state of RunLens falls into parts that do not read one another: which process is whose, the CPU and
memory numbers, the I/O numbers, the connections, the descriptors of one process, the signals. Each
module takes one part, keeps every step of the code that touches it, with its guards and its order, and
lets the steps of the other parts only take time (during which the outside moves). That is why
`observe` appears in several modules: `Observation!BeginWalk` to `EndWalk`, `Resources!Update`,
`Filesystem!Observe` and `Network!Merge` are the same calls seen by different state.

### Supervisor

`pc` is where `main` is; each action is one system call or atomic operation. `SignalArrives` is the
handler (lines 99-102) or the default action when none is installed. `ChildEnds` makes the command a
zombie, `TryWait` reaps it, and only then can `PidReused` hand its pid out. `faults`, chosen by `Init`
and never changed, says what is wrong with the surroundings of an execution: under `"sigchld"` the
kernel may discard the status at once, and under `"stderr"` `EndWithMessage` and `Report` may end with
101, because `eprintln!` panics when it cannot write. `Raise` ends with the signal itself, or with
`128 + n` when it is blocked. `accepted`, `asked`, `forwarded` and `sent` are history variables.

`Passthrough` has only three variables: the command, its status, the outcome. Under the mapping
`Wrapper`, the steps of `main` between the launch and the end are stutters.

### Observation

Every datum is abstracted to the process it came from: `Who(p)` has the number of the pid's owner
(`life`) and whether it descends from the command (`mine`), neither of which the code can see.

* Linux: `List` and `Read` are `current_processes`. Listing `/proc` is one step: the standard library
  reads it in large blocks before the entries are opened.
* macOS: `Begin`, `Inspect`, `ListChildren` and `Probe` are `process_snapshot` of `macos.rs`, which goes
  from the known pids to their children and on, with one call for a process, one for its children, and
  a last one to find out why a call has failed. A pid whose parent is no longer among those it has seen
  is dropped.
* `BeginWalk`, `Walk` and `EndWalk` are the body of `observe` with its work list (lines 131-171), one step
  for each parent that is popped, in any order, since the code's order is that of a hash map. `TreeOf`,
  the least set that contains the root and is closed under "my parent is in it", is its reference
  definition. The walk makes no system call, so the kernel does not move during it: `KernelStep`
  excludes it, which loses nothing, as such a step commutes with the walk.
* What `observe` reads of live processes after the walk is in the other modules; here (stage `"files"`) it only
  takes time. `TryWaitReaps` frees the command's pid before the last `observe` and the report.
* Pids are reused: a pid that is free goes to a new process of the command or to a stranger. `recycled`
  remembers whether one changed hands on which the code relied at that moment (`Watched`): the root pid,
  which `observe(false)` uses after `try_wait`, or a pid that the snapshot in progress has an entry of or
  names as a parent. Between two snapshots pids may change hands as they like.

### Resources, Filesystem, Network

`Sampling` has a kernel without reuse of pids and with a tree that is as deep as needed to tell members from
the others: a process is linked to the command or no longer. `ReadStat` reads state and parent, `ReadRest`
the other files of the same entry, and the process may exit between the two. These three modules take
the snapshot of Linux.

* `Resources`: `ReadCpu` converts ticks with the scaling and the width of `cpu_ticks_to_nanos`; `ReadMemory` finds
  nothing for a zombie; `Update` is `ObservedProcess::update`, the check of lines 173-182 and `update_peak_memory`.
  `PrintedCpu` and `PrintedPeak` are the report's lines, `None` for "unavailable".
* `Filesystem`: `Readable` says when `/proc/<pid>/io` and `/proc/<pid>/fd` can be read: by root always, by others
  only of a living process that has not become a setuid program (`shut`). For a zombie Linux gives
  both to root. `blind` remembers who has been unreadable since its counters were to be read.
  `Observe` is one round of `FilesystemObservation::observe`: `observe_io`, then `observe_paths` for what the
  snapshot has as alive. What the descriptors of a process look like is an input, `Listings`.
  In `Resources` and `Filesystem` history variables are set where a reading is made (`hidden`, `blind`), the flags of the
  code where it checks what has been read, later.
* `Network`: a process has descriptor numbers, each closed, or standing for a connection or for something else,
  and processes open, close, move (`Share`: dup2), pass on and inherit them at any time. `ListFds` is the `read_dir` of
  `/proc/<pid>/fd` and `ReadLink` the `read_link` of one number, whatever it stands for by then. `OpenTable`,
  `ReadLine` and `EndTable` read a file of `/proc/<pid>/net`: what is in use from its opening to its end has a
  line in it, what comes or goes meanwhile may have one. `Merge` is what `observe_process` makes of them. A
  socket stands for its connection key. The listing itself is one step, and an entry of it can fail.

### Descriptors

One process opens, closes and replaces what its numbers stand for (`OpenFd`, `CloseFd`, `Die`), and a call
of `file_descriptors` or of the macOS `network_snapshot` reads them. Linux asks three times about a
number: `ReadLink`, `Metadata` and `FdInfo`, each of which may find something else under it. macOS
asks once (`PidFdInfo`), but `list_fds` first takes a count (`Count`), asks for that many and some more,
capped by `MAX_FDS`, and takes a full buffer for a cut one (`ListFds`). `Merge` is `observe_paths`, or
`observe_process`, which add the list to what earlier calls saw. `held` has the numbers unchanged since the
call began, `owed` what that obliges RunLens to report, `opened` whatever has been open, and `mixed` tells
whether a number changed hands between two questions of Linux.

### Endpoints and Formatting

Both are pure. `Endpoints` has sockets as they are, what each kernel makes of them (`Line`: words printed in
the machine's order of bytes; `SocketInfo`: ports in network order), and what the code decodes from it
(`parse_network_socket`, `socket_record`). Addresses are their bytes; everything else of a line is left
out. `listed` has the sockets that are being read. In `Formatting` a text is a sequence of characters, one for each kind that
`format_argument` or a shell tells apart; `ShellReads` is the reader of a POSIX shell, and the
reference for `format_command`. `MCNetwork` and `MCSupervisor` compose them with the state of the run they
are checked in: all sockets are decoded in the initial state, each text is looked at in an initial
state of its own, and the first step drops them.

Definitions marked as mutants are never part of a specification: each is a definition with a
plausible bug, kept to show that the property next to it can fail.

## 3. Runs

| Run | Shows | Bounds |
|---|---|---|
| `supervisor` | signals forwarded in order, only to the command, and at last; the status returned whenever signals arrive; `main` implements `Passthrough`, liveness included, and ends under every fault; the command line reads back, and a longer run never looks shorter | 4 forwarded signals, 3 arrivals, one signal blocked, both faults; one argument of up to 3 characters of 7 kinds, or two of up to 2; milliseconds around a second, one and two minutes, an hour |
| `observation` | nobody steady is overlooked, though orphans are reparented (also to the command) and the system may fail, on both backends | 4 pids, each used once; on macOS at most 3 of them (`ThreeOnMacOS`) |
| `observation_reuse` | records are of the command until a pid changes hands that is relied on; known survivors are reported; the walk finds the tree of its snapshot, cycles included; the report is printed; all with pids reused, on both backends | 3 pids, each used up to twice, of which two, or three processes in all, in one behaviour; four on Linux while the root pid is the command's (`FewLives`) |
| `resources` | the CPU line and each reading in it are bracketed, and overflow gives no number; a counter that a living process lacked is never covered up; the peak covers what was there | 2 processes, up to 3 ticks of 1, 3 and 4 nanoseconds, of which 4 does not fit, 2 nanoseconds to a millisecond, memory up to 2, numbers up to 3; either CPU or memory moves in one behaviour (`OneKind`) |
| `filesystem` | byte totals and each process's part are bracketed, with processes hidden for a while; unreadable counters lead to the limitation | 2 processes, 1 direction, 1 byte each |
| `descriptors` | what is kept open is reported or called incomplete, what is reported was open for it, on both backends | 3 numbers, 3 opens, a file and a directory of one path and a connection, write-only or no access, `MAX_FDS` 3, 1 spare |
| `network` | steady connections are reported or called incomplete; both backends decode any kind of socket to its endpoints, one state and one place | 2 processes, 2 descriptor numbers each, 1 connection, 2 tables; every kind of socket: all protocols, families, shapes and phases, with 4 addresses (none, loopback, others of which one begins or ends like loopback) and 4 ports at each end |

Why these bounds are enough: the interesting cases need two processes that differ (one exits,
hides or is reparented while the other is read), three for a chain of parents with a stranger or a
grandchild, four for a subreaper with orphans of orphans; a macOS snapshot takes several calls a process,
and its rule for reparented children needs a parent, a child and one more. Two owners of a pid are
enough for a mistaken identity, and three pids for a parent, a child and a stranger between them; two signals for an order and a third for the slot to be taken again. A
buffer can be cut, full or just large enough with three descriptors and one spare. Counters need one
value per distinguishable sample, a width just below the sum of two, and a sum of two that only makes
a millisecond together. The two directions of I/O, the two CPU
counters and two connections meet in the code only where a flag is or-ed, so that one of each is
checked. Two numbers are enough to move a connection away from the number that is read next, and to reuse
that one. In `filesystem` the processes stand still once `print_report` runs, which reads nothing of theirs
that shows in these lines. There is no bound on the number of rounds: `main` loops as long as it
likes in every run. The configuration that checks liveness uses no symmetry; its constraints cut off steps of
the kernel only.

These runs find what the code does against what a document, a name or a message of it says:

| Run | Disagreement |
|---|---|
| `supervisor_coalesced` | a second signal within one round is dropped (`main.rs:101`) |
| `observation_stale_survivor` | a stranger with a reused pid counts as survivor (`observation.rs:274`) |
| `observation_lost_branch` | children of a reparented descendant are never recorded (`observation.rs:136`) |
| `resources_zombie` | a zombie in the tree suppresses the memory sample without a label (`observation.rs:457`) |
| `filesystem_sticky` | "I/O counters were unavailable" stays in a report that prints all totals (`observation.rs:186`) |

More was met while modelling and is in a model without a run of its own:

* A panic of `eprintln!` on a closed standard error replaces the command's status by 101, and an
  inherited ignored SIGCHLD loses the status and the report (`main.rs:73`): the two `faults` of
  `Supervisor`, which `PassedOn` has to allow for.
* `observe(false)` uses the pid that `try_wait` has freed (`main.rs:80`), so that a stranger can be
  recorded as the command; and one that gets a pid while a snapshot is made that names this pid as a parent can
  draw its own children in. `RecordsAreOfTheCommand` excepts both by `recycled`, and fails without it.
* A connection that is moved to another descriptor number while `read_socket_inodes` is at work, and whose old
  number is reused, is missed although it was held throughout, and no limitation is set (`network.rs:276`):
  `SteadyConnectionIsSeen` is therefore about one descriptor.
* An IPv6 socket connected to `127.0.0.1` is remote on Linux (`::ffff:127.0.0.1`, `network.rs:420`) and local
  on macOS: the last part of `BackendsAgree` has this as the only difference. `to_le_bytes` (`network.rs:360`) decodes an address on
  little-endian machines only, which `Endpoints` assumes.
* A descriptor opened with `O_PATH` is listed as read-capable (`platform.rs:55`): the exception in `ReportedWasOpen`.
* The three questions of Linux can give the path of one file the access of another: `mixed`, the other exception.
* Where the first I/O reading of a process failed and nothing was seen open, the report says "none observed",
  with a limitation: `BytesAreBracketed` is about totals without missing readings.
* `format_argument` leaves `=` unquoted (`formatting.rs:97`), so that a first word `NAME=value` would be an assignment to a
  shell; `Formatting` counts `=` among the safe characters, as the code does, and does not tell it apart.

Deadlock is checked in all runs: where RunLens has ended there is an explicit stuttering step
(`Gone`, `Finished`, and the last disjunct of `Next` elsewhere), and a call on a process that has died
still returns, so that any other stop is reported.

## 4. Fairness

Only RunLens's own steps are fair (`WF_vars(Main)`, `WF_vars(RunLens)`): it is one thread that the kernel schedules,
its system calls return, and its sleep is bounded. Nothing is assumed of the command (it may run for
ever), of the senders of signals, or of other processes. Liveness is therefore stated from the end of the
command on (`ReportEventually`, `EndsEventually`), or with an escape for it (`StoredIsForwardedEventually`). In the
models a snapshot ends because the listing is finite, or, on macOS, because no pid is inspected
twice; in the code too.

## 5. Proofs

`SupervisorProofs` (for every set of signals, codes, bounds and faults that `SupervisorAssumption` allows):

* `TypeCorrect`, `StoredInOrder`: the queue property holds by an invariant that also says when
  `signal_number` is set (only between `Swap` and `Kill`).
* `KillIsSafe`: between `try_wait` and `kill` nobody but `main` can free the pid, so the invariant ties
  `owner = "child"` to every `pc` of the loop, in executions where SIGCHLD is not ignored.
* `StatusReturned`: the invariant says that once the command has been waited for only the report and
  `terminate_with_signal` remain, with all handlers installed but the one of the very signal to be
  raised, so that any other signal that arrives is only recorded; what a fault adds is in `PassedOn`.
* `ReadsBack`: for any list of arguments of any length, a shell reads the line of the report as the
  command that was run. The shell's reading is a function on the prefixes of the line: between
  the quotes it gives back what `Replaced` has written (`QuotedIsRead`, by induction on the argument), a text of safe characters
  is read as it is (`SafeIsRead`), so that each argument takes a reader that is between words to
  the same state with one more word (`ArgumentIsRead`), and the list follows by induction (`CommandIsRead`).
* `Durations`: rounding and the change of unit never make a run look shorter than one of a millisecond less, for any
  duration.
* `IsPassthrough`: `Init` and every step of `Next` map to `Passthrough`'s, by the same invariant.

`ObservationProofs` (for every set of pids, any depth of tree, both backends):

* `TypeCorrect`, and `Attribution`, for pids reused at any time. The inductive invariant `AttributionInv` has two parts.
  Of the kernel, always: a child and its living parent are both the command's or both strangers
  (`FamilyInv`). Of RunLens, until `recycled`: while a snapshot is made, the owner of every pid that it has an
  entry of, or names as a parent, is on the side on which the snapshot found it (`LinksInv`); an entry and the
  entry of its parent are on one side (`AgreeInv`), although they were read at different moments and the one parent
  may have gone to another process of the command since; and so are the records (`RecordedInv`). A parent that
  was reparented away between two reads is why links have to be compared with the owner, not the parent.
* `TreeWalk`: what the walk has seen is always within the least closed set, and everything it has seen
  but not popped is still on the work list, so that an empty list leaves a closed set. It holds of any
  snapshot, with cycles and missing parents.
* `NoSurvivorLost`, without a bound on the reuse of pids: lives only go up, so that a record that still
  runs has been running all the time, and the snapshot of the report has it, calls it unreadable, or
  has yet to come to it (`CoverInv`).
* `SteadyTree`, assuming `MaxLives = 1` (with it, `OneLifeInv`: entries and records are of the one owner of each pid): whoever was in the tree when the snapshot began, and is in it when the walk has
  ended, is among the descendants, unless the snapshot is called incomplete. What the snapshot must hold was never there
  in one state, so `SteadyInv` says how far its links may be out of date. Unless the command adopts its orphans, a parent
  pid in the snapshot is wrong only where the process has left the tree (`LinkInv`), and all that was listed is read
  or still to be read (`ScanInv`). Where it does adopt them, parent pids become wrong at any time, but then the tree loses
  nobody alive and a link changes only to the root: the links of the snapshot, with those of the table for what is still to be
  read, hold together all that was listed (`SubreaperInv`). On macOS whoever is steady has been
  reached, or its parent is still to be asked for its children (`ChildrenInv`). `Moves` says what a kernel step can do to the
  table. Once the snapshot is complete `TreeWalk` gives that the walk reaches all of it (`SeenInv`).

`DescriptorsProofs` (for any descriptors, files, `MAX_FDS` and spare):

* `TypeCorrect`; `HeldReported`: until the call is merged every held descriptor is still to be asked
  about, being asked about, on the list, or `limited` is set (`HeldInv`). That macOS asks with a count
  from before the list grew is covered because a list shorter than its buffer is the whole
  set: `Counting`, the one fact about cardinalities.
* `OnlyIfOpen`: what Linux knows of the number it is at is true of what the number stands for, as long
  as it did not change hands (`AtInv`).

`NetworkProofs` (for any processes, descriptors, connections, tables and hidden processes):

* `TypeCorrect`, with `VisitInv`: only recorded processes are visited, one table at a time.
* `SteadyIsReported`: while a process is visited, a number that still stands for what it did when it was listed is
  yet to be looked at, or its connection is among those found, or an entry was lost (`FdsInv`). A connection
  that has been steady so far was in use when the table was opened that lists it, and is so until the table ends,
  so it is in that table, unless a table has failed (`TablesInv`). Lost entries and failed tables set the
  limitation at the end of the visit, which nothing takes back (`ShownInv`).
* About `Endpoints`, for every address, port and phase: `OwnEndpoints` (the decoders undo the order of bytes of either
  kernel) and `Agreement` (the two tables of state numbers agree in all eleven phases, and the backends differ on what
  is remote for IPv6 sockets that talk IPv4 only: a mapped address is neither `::1` nor `::`).

`FilesystemProofs` (for any processes, directions, listings and numbers of bytes, privileged or not):

* `TypeCorrect`; `LimitsAreLabelled`: who is in `blind` is not readable at its visit (`BlindInv`), so the visit sets
  `paths_limited`, which stays.
* `EachWindow`: a reading lies between the listing and now and not below the latest one (`Ordered`); first
  and latest readings enclose what the process did between its first and its last visit
  (`Enclosed`). It is the part of `BytesAreBracketed` that belongs to one process.
* `Bytes`: the printed totals are bracketed, by adding `EachWindow` up over the processes that were seen.

`ResourcesProofs` (for any processes and counters, any speed of the clock and any width of a number):

* `EachReading`: what is kept of a process is its count at one moment, not before the listing for the last
  snapshot that saw it alive (`ReadingInv`). A reading that overflows leaves an older one behind, and
  the line is then limited, because a living process that is reached is in `current_tree`: the command is in
  every snapshot that has one of its descendants, since only `try_wait` removes it (`CommandInv`).
* `LimitsAreLabelled`: a counter is found missing while the snapshot is made, and the flag is set by `observe` later. In
  between the entry that lacks it is alive in the snapshot, linked to the command (`HiddenInv`), and not read again
  (`OnceInv`); by `CommandInv` it is then in `current_tree`, which is all that the check looks at.
* `TypeCorrect`, `CpuLine` and `Peak`: the type invariant with its sums, which are numbers because the set of processes is finite;
  the printed CPU time is bracketed, by adding `EachReading` up; and the peak covers the memory that a tree without
  zombies held during a whole snapshot.

`FoldProofs` has what these sums, and the texts of `Formatting`, need. The library's theorems of induction take an operator
as parameter, which the provers cannot instantiate. Its lemmas take a set instead (of the subsets, or
of the lengths, for which a claim holds), and get the step to the whole from there being a
least counterexample, which is a first-order fact. The same argument shows that the recursive functions by which the
community modules define their folds exist, so that what `SumFunctionOnSet`, `Max` and `FlattenSeq` return is proved
from those definitions.

What cannot be had with reused pids is shown by the violation run `observation_stale_survivor`: the identity of
survivors.

Every invariant and every safety property of the passing runs is a theorem. Only model-checked are the liveness
properties (`StoredIsForwardedEventually`, `EndsEventually`, `ReportEventually`) and the liveness half of
`ImplementsPassthrough`: fairness and `ENABLED` are out of the prover's reach.

## 6. Not modelled

* The splitting of lines of `/proc`, the suffix " (deleted)", command lines, and the ABI of libproc.
* The CPU, memory and I/O counters of macOS with `mach_to_nanos`: after the call for a process's entry, CPU and
  memory come together in a second call and I/O in a third, and each call may fail alone, like a file of `/proc`.
  `Resources` and `Filesystem` take the files of Linux; the aggregation above them is the same code.
* The classification of paths (`is_sensitive_path`, `path_area`: tests on text without state), lists of
  examples, the printed lists and the depth of the printed tree.
* Inherited dispositions of signals other than SIGCHLD, which are taken to be the defaults.
* A second owner of a pid in `Filesystem`, `Resources` and `Network`, whose state spaces are at their limit: there, last
  readings of one owner can be overwritten by those of the next (`observation.rs:158`), and descriptors be read of a
  stranger (`platform.rs:81`).
* Errors of single entries of `/proc`, which `filter_map(Result::ok)` swallows (`platform.rs:141`): a process whose entry is
  lost is missed in a snapshot that calls itself complete.
* The count of distinct paths (`filesystem.rs:177`).

## 7. Plan

Done: `Supervisor`, `Passthrough`, `Observation` on both backends with its walk, `Resources`, `Filesystem`,
`Network`, `Descriptors`, `Endpoints`, `Formatting`, and the proofs of section 5. What is left, in order:

1. `Supervisor` with inherited dispositions (`nohup`), and the surviving mark of connections in `Observation`.
2. `RunLens`: a composition of `Supervisor` and `Observation` over one process table.
3. The classification of paths and the findings, as operators against a reference definition.

The runs share instances where these allow it, so that the set of runs stays small.
