----------------------------- MODULE Descriptors -----------------------------
(***************************************************************************)
(* How the descriptors of one process are read while it opens, closes and  *)
(* reopens them: file_descriptors of both backends (src/src/platform.rs,   *)
(* platform/macos.rs) with observe_paths (src/src/filesystem.rs), and the  *)
(* network_snapshot of macOS with observe_process (src/src/network.rs).    *)
(* Linux asks three times about each descriptor number; macOS asks once,   *)
(* but has to say beforehand how many descriptors it wants to hear of.     *)
(* The network_snapshot of Linux reads other files: see module Network.    *)
(***************************************************************************)
EXTENDS Integers, FiniteSets

CONSTANTS Fds,        \* descriptor numbers
          Files,      \* what they may be open on
          NameOf,     \* its path or endpoints; a removed file and its successor
                      \* may have one path
          KindOf,     \* "file", "directory", "socket" (TCP or UDP), "other"
          Modes,      \* directions a file may be open for, {} for O_PATH and O_EVTONLY
          MAX_FDS,    \* macOS: the most descriptors that are asked for
          Spare,      \* macOS: how many more than counted are asked for
          MaxOpens,   \* bound: how often something is opened
          NoFile      \* a descriptor that is closed

Directions == {"read", "write"}
Kinds == {"file", "directory", "socket", "other"}

ASSUME DescriptorsAssumption ==
  /\ Fds \subseteq Nat /\ IsFiniteSet(Fds)
  /\ KindOf \in [Files -> Kinds] /\ NoFile \notin Files
  /\ Modes \subseteq SUBSET Directions
  /\ MAX_FDS \in Nat \ {0} /\ Spare \in Nat \ {0} /\ MaxOpens \in Nat

VARIABLES
  platform,      \* "linux" or "macos": fixed by Init
  table,         \* kernel: fd -> what it is open on, and for what
  alive,         \* kernel: does the process still run?
  stage,         \* where the thread is in this call
  wanted,        \* the kinds that this call is about
  todo, fd,      \* the descriptors to look at, and the one it is at
  target, directory,  \* Linux: read_link of fd, and the type in its metadata
  requested, limited, \* the locals of these names, in list_fds and its callers
  descriptors,   \* FileDescriptorSnapshot.descriptors, NetworkSnapshot.sockets
  seen,          \* kind -> name -> access: paths, directories, connections
  incomplete,    \* kinds: paths_limited, NetworkObservation.observation_limited
  opens,         \* history: how often something was opened
  opened,        \* history: what has been open
  held,          \* history: descriptors unchanged since this call began
  owed,          \* history: what was held during a whole call that wanted it
  mixed          \* history: did a number change hands while Linux looked at it?

kernel == <<table, alive, opens, opened>>
locals == <<wanted, todo, fd, target, directory, requested, limited, descriptors>>
fields == <<seen, incomplete>>
vars == <<platform, kernel, stage, locals, fields, held, owed, mixed>>

Closed == [file |-> NoFile, mode |-> {}]
Open == {n \in Fds : table[n].file # NoFile}
Names == {NameOf[f] : f \in Files}
Kind(n) == KindOf[table[n].file]

(* What RunLens is to know of a descriptor.                                *)
Descriptor == [name : Names, kind : Kinds, access : SUBSET Directions]
Known(file, access) == [name |-> NameOf[file], kind |-> KindOf[file], access |-> access]

TypeOK ==
  /\ platform \in {"linux", "macos"}
  /\ table \in [Fds -> [file : Files, mode : SUBSET Directions] \cup {Closed}] /\ alive \in BOOLEAN
  /\ stage \in {"idle", "list", "entry", "metadata", "fdinfo"}
  /\ wanted \subseteq Kinds /\ todo \subseteq Fds /\ fd \in Fds \cup {-1}
  /\ target \in Files \cup {NoFile} /\ {directory, limited} \subseteq BOOLEAN
  /\ requested \in 0..MAX_FDS
  /\ descriptors \subseteq Descriptor
  /\ seen \in [Kinds -> [Names -> SUBSET Directions]] /\ incomplete \subseteq Kinds
  /\ opens \in 0..MaxOpens
  /\ held \subseteq Fds /\ mixed \in BOOLEAN
  /\ opened \subseteq Descriptor /\ owed \subseteq Descriptor

Init ==
  /\ platform \in {"linux", "macos"}
  /\ table = [n \in Fds |-> Closed] /\ alive = TRUE /\ opens = 0 /\ opened = {}
  /\ stage = "idle" /\ wanted = {} /\ todo = {} /\ fd = -1 /\ target = NoFile
  /\ directory = FALSE /\ requested = 0 /\ limited = FALSE /\ descriptors = {} /\ held = {}
  /\ seen = [k \in Kinds |-> [n \in Names |-> {}]] /\ incomplete = {}
  /\ owed = {} /\ mixed = FALSE

-----------------------------------------------------------------------------
(* The process.                                                            *)

(* open, accept or dup2, which closes what the number stood for.  A        *)
(* connection goes both ways.                                              *)
OpenFd(n, file, mode) ==
  /\ alive /\ opens < MaxOpens
  /\ mode \in IF KindOf[file] = "socket" THEN {Directions} ELSE Modes
  /\ table' = [table EXCEPT ![n] = [file |-> file, mode |-> mode]]
  /\ opens' = opens + 1
  /\ opened' = opened \cup {Known(file, mode)}
  /\ held' = held \ {n}
  /\ mixed' = (mixed \/ (n = fd /\ stage \in {"metadata", "fdinfo"}))
  /\ UNCHANGED <<alive, stage, locals, fields, owed>>

CloseFd(n) ==
  /\ n \in Open
  /\ table' = [table EXCEPT ![n] = Closed]
  /\ held' = held \ {n}
  /\ UNCHANGED <<alive, opens, opened, stage, locals, fields, owed, mixed>>

Die ==
  /\ alive
  /\ alive' = FALSE /\ table' = [n \in Fds |-> Closed] /\ held' = {}
  /\ UNCHANGED <<opens, opened, stage, locals, fields, owed, mixed>>

-----------------------------------------------------------------------------
(* file_descriptors on Linux.                                              *)

(* A call begins, for these kinds, with a process that may be gone.  The   *)
(* call that gives no list at all makes these kinds incomplete.            *)
Begin(kinds) ==
  /\ stage = "idle"
  /\ IF alive
     THEN wanted' = kinds /\ held' = Open /\ UNCHANGED incomplete
     ELSE incomplete' = incomplete \cup kinds /\ UNCHANGED <<wanted, held>>
  /\ UNCHANGED <<kernel, fd, target, directory, descriptors, seen, owed, mixed>>

(* read_dir of /proc/<pid>/fd.                                             *)
List ==
  /\ platform = "linux"
  /\ Begin({"file", "directory"})
  /\ IF alive THEN stage' = "entry" /\ todo' = Open ELSE UNCHANGED <<stage, todo>>
  /\ UNCHANGED <<requested, limited>>

Missed == limited' = TRUE /\ UNCHANGED descriptors
Push(d) == descriptors' = descriptors \cup {d} /\ UNCHANGED limited

ReadLink(n) ==
  /\ stage = "entry" /\ platform = "linux" /\ n \in todo
  /\ todo' = todo \ {n}
  /\ IF n \in Open
     THEN /\ target' = table[n].file /\ fd' = n /\ stage' = "metadata"
          /\ UNCHANGED <<limited, descriptors>>
     ELSE Missed /\ UNCHANGED <<target, fd, stage>>
  /\ UNCHANGED <<kernel, wanted, directory, requested, fields, held, owed, mixed>>

Metadata ==
  /\ stage = "metadata"
  /\ IF fd \in Open
     THEN /\ stage' = IF Kind(fd) \in wanted THEN "fdinfo" ELSE "entry"
          /\ directory' = (Kind(fd) = "directory")
          /\ UNCHANGED <<limited, descriptors>>
     ELSE Missed /\ stage' = "entry" /\ UNCHANGED directory
  /\ UNCHANGED <<kernel, wanted, todo, fd, target, requested, fields, held, owed, mixed>>

AccessSwapped(mode) == \* mutant: flags 1 is taken for reading
  IF mode = {"write"} THEN {"read"} ELSE IF mode = {"read"} THEN {"write"} ELSE mode

(* read_fd_access: the two low bits of the flags, which O_PATH leaves at 0.*)
Access(mode) == IF mode = {} THEN {"read"} ELSE mode

FdInfo ==
  /\ stage = "fdinfo"
  /\ IF fd \in Open
     THEN Push([name |-> NameOf[target], kind |-> IF directory THEN "directory" ELSE "file",
                access |-> Access(table[fd].mode)])
     ELSE Missed
  /\ stage' = "entry"
  /\ UNCHANGED <<kernel, wanted, todo, fd, target, directory, requested, fields, held, owed,
                 mixed>>

-----------------------------------------------------------------------------
(* file_descriptors and network_snapshot on macOS, by way of list_fds.     *)

Least(m, n) == IF m < n THEN m ELSE n

RequestedUncapped(n) == n + Spare   \* mutant: MAX_FDS is left out
Requested(n) == Least(n + Spare, MAX_FDS)

(* pbi_nfiles, which may count numbers that are not open.                  *)
Count(kinds) ==
  /\ platform = "macos"
  /\ Begin(kinds)
  /\ IF alive
     THEN \E pbi_nfiles \in Cardinality(Open)..Cardinality(Fds) :
            /\ requested' = IF pbi_nfiles = 0 THEN 0 ELSE Requested(pbi_nfiles)
            /\ limited' = (pbi_nfiles >= MAX_FDS)
            /\ stage' = IF pbi_nfiles = 0 THEN "entry" ELSE "list"
     ELSE UNCHANGED <<requested, limited, stage>>
  /\ UNCHANGED todo

FullUnnoticed(fds) == FALSE   \* mutant: a full buffer is taken for the whole list
Full(fds) == Cardinality(fds) = requested

(* listpidinfo: as many of the descriptors as the buffer takes.  Those of  *)
(* the other kinds are dropped by their type.                              *)
ListFds ==
  /\ stage = "list"
  /\ IF alive
     THEN \E fds \in SUBSET Open :
            /\ Cardinality(fds) = Least(requested, Cardinality(Open))
            /\ todo' = {n \in fds : Kind(n) \in wanted}
            /\ limited' = (limited \/ Full(fds))
            /\ stage' = "entry"
            /\ UNCHANGED incomplete
     ELSE /\ incomplete' = incomplete \cup wanted
          /\ stage' = "idle" /\ limited' = FALSE
          /\ UNCHANGED todo
  /\ wanted' = IF alive THEN wanted ELSE {}
  /\ requested' = 0
  /\ UNCHANGED <<kernel, fd, target, directory, descriptors, seen, held, owed, mixed>>

(* pidfdinfo has it all in one call: of what the number stands for by now. *)
(* It fails if that is of another sort, and it may have no path for it.    *)
PidFdInfo(n) ==
  /\ stage = "entry" /\ platform = "macos" /\ n \in todo
  /\ todo' = todo \ {n}
  /\ \/ Missed
     \/ /\ n \in Open /\ Kind(n) \in wanted
        /\ Push(Known(table[n].file, table[n].mode))
  /\ UNCHANGED <<kernel, stage, wanted, fd, target, directory, requested, fields, held, owed,
                 mixed>>

-----------------------------------------------------------------------------
(* observe_paths and observe_process add the list to what they have.       *)

Merged(k, n) == seen[k][n] \cup UNION {d.access : d \in {e \in descriptors : e.kind = k /\ e.name = n}}

Merge ==
  /\ stage = "entry" /\ todo = {}
  /\ seen' = [k \in Kinds |-> [n \in Names |-> Merged(k, n)]]
  /\ incomplete' = IF limited THEN incomplete \cup wanted ELSE incomplete
  /\ owed' = owed \cup {Known(table[n].file, table[n].mode) : n \in {m \in held : Kind(m) \in wanted}}
  /\ stage' = "idle" /\ wanted' = {} /\ fd' = -1 /\ target' = NoFile
  /\ directory' = FALSE /\ requested' = 0 /\ limited' = FALSE /\ descriptors' = {} /\ held' = {}
  /\ UNCHANGED <<kernel, todo, mixed>>

-----------------------------------------------------------------------------
Observed ==
  \/ \E n \in Fds, f \in Files, mode \in SUBSET Directions : OpenFd(n, f, mode)
  \/ \E n \in Fds : CloseFd(n)
  \/ Die

RunLens ==
  \/ List \/ Metadata \/ FdInfo \/ ListFds \/ Merge
  \/ Count({"file", "directory"}) \/ Count({"socket"})
  \/ \E n \in Fds : ReadLink(n) \/ PidFdInfo(n)

Next == UNCHANGED platform /\ (Observed \/ RunLens)

Spec == Init /\ [][Next]_vars

-----------------------------------------------------------------------------
(* Properties.                                                             *)

(* What a process kept open under one number throughout a call is reported *)
(* for ever, under its name and with every direction it is open for, or    *)
(* the report says that something of its kind may be missing: even though  *)
(* the list was asked for with a size from before it grew.                 *)
HeldIsReported ==
  \A d \in owed : d.access \subseteq seen[d.kind][d.name] \/ d.kind \in incomplete

(* A file, directory or connection is reported for reading or writing only *)
(* if it has been open for that.  Linux can get this wrong in one way: the *)
(* number is opened on something else between its three questions; and it  *)
(* takes an O_PATH descriptor for one that can be read.                    *)
ReportedWasOpen ==
  ~mixed => \A k \in Kinds, n \in Names : \A direction \in seen[k][n] :
    \E d \in opened : /\ d.kind = k /\ d.name = n
                      /\ \/ direction \in d.access
                         \/ platform = "linux" /\ d.access = {} /\ direction = "read"
=============================================================================
