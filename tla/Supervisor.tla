----------------------------- MODULE Supervisor -----------------------------
(***************************************************************************)
(* main (src/src/main.rs): it installs the signal handlers, spawns the     *)
(* command, polls it with try_wait, forwards the signal that its handler   *)
(* has recorded, and ends the way the command ended.  Observing and        *)
(* sleeping change nothing here: they only take time, during which signals *)
(* arrive and the command moves, as they do between any two steps.         *)
(***************************************************************************)
EXTENDS Integers, Sequences

CONSTANTS SIGNALS_TO_FORWARD, \* the signals with a handler
          Blocked,            \* signals blocked in RunLens, from its own parent
          Codes,              \* exit codes of the command
          MaxSignals,         \* bound: how many signals are sent to RunLens
          Faults              \* "sigchld": RunLens has inherited an ignored SIGCHLD
                              \* "stderr": writing to standard error may fail

SIGKILL == 9   \* stands for every signal without a handler that ends the command

ASSUME SupervisorAssumption ==
  /\ SIGNALS_TO_FORWARD \subseteq 1..64 \ {SIGKILL}
  /\ Blocked \subseteq 1..64 \ {SIGKILL}
  /\ Codes \subseteq 0..255
  /\ MaxSignals \in Nat
  /\ Faults \subseteq {"sigchld", "stderr"}

VARIABLES
  faults,          \* those of Faults that this execution has: fixed by Init
  pc,              \* where main is
  handled,         \* signals whose disposition is record_signal
  received_signal, \* RECEIVED_SIGNAL, 0 when empty
  signal_number,   \* the local of forward_pending_signal, 0 when none
  child,           \* the command: "none", "running", "zombie" or "reaped"
  owner,           \* who has the command's pid: "child", "nobody", "stranger"
  status,          \* ExitStatus of the command
  outcome,         \* how RunLens itself ended
  accepted,        \* history: the signals that record_signal stored
  asked,           \* history: the signals that reached record_signal
  forwarded,       \* history: the signals passed to kill
  sent             \* history: number of signals sent to RunLens

command == <<child, owner, status>>
history == <<accepted, asked, sent>>
vars == <<faults, pc, handled, received_signal, signal_number, command, outcome,
          history, forwarded>>

None == [how |-> "none", n |-> 0]
Exit(n) == [how |-> "exit", n |-> n]
Signal(n) == [how |-> "signal", n |-> n]
Statuses == {Exit(n) : n \in 0..255} \cup {Signal(n) : n \in 1..64}

TypeOK ==
  /\ faults \subseteq Faults
  /\ pc \in {"args", "install", "spawn", "try_wait", "swap", "kill", "report",
             "set_default", "raise", "gone"}
  /\ handled \subseteq SIGNALS_TO_FORWARD
  /\ received_signal \in SIGNALS_TO_FORWARD \cup {0}
  /\ signal_number \in SIGNALS_TO_FORWARD \cup {0}
  /\ child \in {"none", "running", "zombie", "reaped"}
  /\ owner \in {"child", "nobody", "stranger"}
  /\ status \in Statuses \cup {None}
  /\ outcome \in Statuses \cup {None}
  /\ accepted \in Seq(SIGNALS_TO_FORWARD)
  /\ asked \subseteq SIGNALS_TO_FORWARD
  /\ forwarded \in Seq(SIGNALS_TO_FORWARD)
  /\ sent \in 0..MaxSignals

Init ==
  /\ faults \in SUBSET Faults
  /\ pc = "args"
  /\ handled = {}
  /\ received_signal = 0 /\ signal_number = 0
  /\ child = "none" /\ owner = "nobody" /\ status = None
  /\ outcome = None
  /\ accepted = <<>> /\ asked = {} /\ sent = 0 /\ forwarded = <<>>

-----------------------------------------------------------------------------
(* main, one system call or atomic operation per step.                     *)

End(how) == outcome' = how /\ pc' = "gone"

(* eprintln panics when it cannot write, and a panic ends main with 101.   *)
EndWithMessage(how) == End(how) \/ ("stderr" \in faults /\ End(Exit(101)))

(* Mutants: the same steps with a plausible bug, for the properties below  *)
(* to find.  No specification uses them.                                   *)

SwapKillsZero == \* no early return when the slot is empty
  /\ pc = "swap"
  /\ signal_number' = received_signal
  /\ received_signal' = 0
  /\ pc' = "kill"
  /\ UNCHANGED <<handled, command, outcome, history, forwarded>>

SignalOverwrites(s) == \* record_signal with store in place of compare_exchange
  /\ sent < MaxSignals /\ outcome = None /\ s \notin Blocked
  /\ sent' = sent + 1
  /\ IF s \in handled
     THEN /\ received_signal' = s
          /\ accepted' = Append(accepted, s)
          /\ asked' = asked \cup {s}
          /\ UNCHANGED <<pc, outcome>>
     ELSE End(Signal(s)) /\ UNCHANGED <<received_signal, accepted, asked>>
  /\ UNCHANGED <<handled, signal_number, command, forwarded>>

TryWaitForwardsLate == \* the pending signal is forwarded after the wait as well
  /\ pc = "try_wait"
  /\ \/ child = "running" /\ pc' = "swap" /\ UNCHANGED <<child, owner, outcome>>
     \/ child = "zombie" /\ child' = "reaped" /\ owner' = "nobody" /\ pc' = "swap" /\ UNCHANGED outcome
     \/ child = "reaped" /\ End(Exit(1)) /\ UNCHANGED <<child, owner>>
  /\ UNCHANGED <<handled, received_signal, signal_number, status, history, forwarded>>

TryWaitForgetsSignals == \* the call of forward_pending_signal is missing
  /\ pc = "try_wait"
  /\ \/ child = "running" /\ UNCHANGED <<pc, child, owner, outcome>>
     \/ child = "zombie" /\ child' = "reaped" /\ owner' = "nobody" /\ pc' = "report" /\ UNCHANGED outcome
     \/ child = "reaped" /\ End(Exit(1)) /\ UNCHANGED <<child, owner>>
  /\ UNCHANGED <<handled, received_signal, signal_number, status, history, forwarded>>

TryWaitRetriesErrors == \* an error of try_wait is taken for "not yet"
  /\ pc = "try_wait"
  /\ IF child = "zombie"
     THEN child' = "reaped" /\ owner' = "nobody" /\ pc' = "report"
     ELSE pc' = "swap" /\ UNCHANGED <<child, owner>>
  /\ UNCHANGED <<handled, received_signal, signal_number, status, outcome, history, forwarded>>

KeepHandler == \* terminate_with_signal does not restore SIG_DFL
  /\ pc = "set_default"
  /\ pc' = "raise"
  /\ UNCHANGED <<handled, received_signal, signal_number, command, outcome, history, forwarded>>

RaiseExitsPlain == \* the exit after kill forgets the 128
  /\ pc = "raise"
  /\ End(IF status.n \in Blocked \cup handled THEN Exit(status.n) ELSE status)
  /\ UNCHANGED <<handled, received_signal, signal_number, command, history, forwarded>>

Args ==
  /\ pc = "args"
  /\ \/ pc' = "install" /\ UNCHANGED outcome
     \/ EndWithMessage(Exit(2))
  /\ UNCHANGED <<handled, received_signal, signal_number, command, history, forwarded>>

(* One iteration of install_signal_handlers, whose array is ascending.     *)
Install ==
  /\ pc = "install"
  /\ IF handled = SIGNALS_TO_FORWARD
     THEN pc' = "spawn" /\ UNCHANGED handled
     ELSE /\ \E s \in SIGNALS_TO_FORWARD \ handled :
               /\ \A t \in SIGNALS_TO_FORWARD \ handled : s <= t
               /\ handled' = handled \cup {s}
          /\ UNCHANGED pc
  /\ UNCHANGED <<received_signal, signal_number, command, outcome, history, forwarded>>

Spawn ==
  /\ pc = "spawn"
  /\ \/ /\ child' = "running" /\ owner' = "child"
        /\ pc' = "try_wait"
        /\ UNCHANGED outcome
     \/ EndWithMessage(Exit(1)) /\ UNCHANGED <<child, owner>>
  /\ UNCHANGED <<handled, received_signal, signal_number, status, history, forwarded>>

(* try_wait: nothing yet, a status, or an error (no child is left to wait  *)
(* for, since an ignored SIGCHLD makes the kernel reap children itself).   *)
TryWait ==
  /\ pc = "try_wait"
  /\ \/ /\ child = "running"
        /\ pc' = "swap"
        /\ UNCHANGED <<child, owner, outcome>>
     \/ /\ child = "zombie"
        /\ child' = "reaped" /\ owner' = "nobody"
        /\ pc' = "report"
        /\ UNCHANGED outcome
     \/ /\ child = "reaped"
        /\ EndWithMessage(Exit(1))
        /\ UNCHANGED <<child, owner>>
  /\ UNCHANGED <<handled, received_signal, signal_number, status, history, forwarded>>

(* RECEIVED_SIGNAL.swap(0): from here on the handler can store another one.*)
Swap ==
  /\ pc = "swap"
  /\ signal_number' = received_signal
  /\ received_signal' = 0
  /\ pc' = IF received_signal = 0 THEN "try_wait" ELSE "kill"
  /\ UNCHANGED <<handled, command, outcome, history, forwarded>>

(* kill(child_pid): it goes to whoever has the pid by now.                 *)
Kill ==
  /\ pc = "kill"
  /\ forwarded' = Append(forwarded, signal_number)
  /\ signal_number' = 0
  /\ pc' = "try_wait"
  /\ UNCHANGED <<handled, received_signal, command, outcome, history>>

(* The last observe and the report, then exit or terminate_with_signal.    *)
Report ==
  /\ pc = "report"
  /\ \/ /\ status.how = "signal"
        /\ pc' = "set_default"
        /\ UNCHANGED outcome
     \/ status.how = "exit" /\ End(status)
     \/ "stderr" \in faults /\ End(Exit(101))
  /\ UNCHANGED <<handled, received_signal, signal_number, command, history, forwarded>>

(* terminate_with_signal: restore the default action, then kill oneself;   *)
(* only a signal that does not end RunLens leads to the exit that follows. *)
SetDefault ==
  /\ pc = "set_default"
  /\ handled' = handled \ {status.n}
  /\ pc' = "raise"
  /\ UNCHANGED <<received_signal, signal_number, command, outcome, history, forwarded>>

Raise ==
  /\ pc = "raise"
  /\ End(IF status.n \in Blocked \cup handled THEN Exit(128 + status.n) ELSE status)
  /\ UNCHANGED <<handled, received_signal, signal_number, command, history, forwarded>>

-----------------------------------------------------------------------------
(* A signal reaches RunLens: record_signal runs, or the default action of a*)
(* signal that has no handler yet, or no more.                             *)
SignalArrives(s) ==
  /\ sent < MaxSignals
  /\ outcome = None
  /\ s \notin Blocked
  /\ sent' = sent + 1
  /\ IF s \in handled
     THEN /\ received_signal' = IF received_signal = 0 THEN s ELSE received_signal
          /\ accepted' = IF received_signal = 0 THEN Append(accepted, s) ELSE accepted
          /\ asked' = asked \cup {s}
          /\ UNCHANGED <<pc, outcome>>
     ELSE /\ End(Signal(s))
          /\ UNCHANGED <<received_signal, accepted, asked>>
  /\ UNCHANGED <<handled, signal_number, command, forwarded>>

(* The command ends, by itself or by a signal of anyone.  Its pid stays its*)
(* own until it has been waited for, which nobody needs to do if SIGCHLD   *)
(* has been ignored all along.                                             *)
ChildEnds(how) ==
  /\ child = "running"
  /\ status' = how
  /\ \/ child' = "zombie" /\ UNCHANGED owner
     \/ "sigchld" \in faults /\ child' = "reaped" /\ owner' = "nobody"
  /\ UNCHANGED <<pc, handled, received_signal, signal_number, outcome, history, forwarded>>

PidReused ==
  /\ owner = "nobody" /\ child = "reaped"
  /\ owner' = "stranger"
  /\ UNCHANGED <<pc, handled, received_signal, signal_number, child, status, outcome,
                 history, forwarded>>

-----------------------------------------------------------------------------
Main ==
  /\ UNCHANGED faults
  /\ \/ Args \/ Install \/ Spawn \/ TryWait \/ Swap \/ Kill
     \/ Report \/ SetDefault \/ Raise

World ==
  /\ UNCHANGED faults
  /\ \/ \E s \in SIGNALS_TO_FORWARD : SignalArrives(s)
     \/ \E n \in Codes : ChildEnds(Exit(n))
     \/ \E s \in SIGNALS_TO_FORWARD \cup {SIGKILL} : ChildEnds(Signal(s))
     \/ PidReused

Gone == pc = "gone" /\ UNCHANGED vars

Next == Main \/ World \/ Gone

(* main is a thread of its own that the kernel schedules; neither the      *)
(* command nor the senders of signals owe it anything.                     *)
Spec == Init /\ [][Next]_vars /\ WF_vars(Main)

-----------------------------------------------------------------------------
(* Properties.                                                             *)

Slot(s) == IF s = 0 THEN <<>> ELSE <<s>>

(* No signal is lost, doubled or overtaken once record_signal has stored   *)
(* it: what was stored is what was forwarded, then what was swapped out,   *)
(* then what is still in RECEIVED_SIGNAL.                                  *)
StoredIsForwardedInOrder ==
  accepted = forwarded \o Slot(signal_number) \o Slot(received_signal)

(* forward_pending_signal reaches the command and nobody else: the pid it  *)
(* signals has not been waited for, whatever happened since try_wait.  An  *)
(* ignored SIGCHLD is the one way to lose that.                            *)
OnlyTheCommandIsSignalled == pc = "kill" /\ "sigchld" \notin faults => owner = "child"

(* A status that tells the same: itself, or the code 128 + n that stands   *)
(* for signal n, when that signal is blocked and cannot be raised.  Under a*)
(* fault it may be 1, for a status that is lost, or 101, for a panic.      *)
PassedOn(s, o, present) ==
  \/ o = s
  \/ s.how = "signal" /\ s.n \in Blocked /\ o = Exit(128 + s.n)
  \/ "sigchld" \in present /\ o = Exit(1)
  \/ "stderr" \in present /\ o = Exit(101)

(* src/README.md:53: "The wrapped command's exit status is returned."  So  *)
(* main, once it is past try_wait, ends as the command did, and a signal   *)
(* that arrives during the last observe, the report or between signal(     *)
(* SIG_DFL) and kill does not change that.                                 *)
StatusIsReturned == status # None /\ outcome # None => PassedOn(status, outcome, faults)

(* RunLens implements the wrapper of Passthrough: one command at most, its *)
(* status passed on unchanged, and RunLens does end once the command has.  *)
(* Without a command it ends with 1, 2 or the signal that killed it.       *)
NotLaunched(present) ==
  {Exit(1), Exit(2)} \cup {Signal(n) : n \in 1..64}
    \cup (IF "stderr" \in present THEN {Exit(101)} ELSE {})

Wrapper == INSTANCE Passthrough WITH
  command <- IF child \in {"zombie", "reaped"} THEN "ended" ELSE child

ImplementsPassthrough == Wrapper!Spec

(* A stored signal reaches kill, unless the command ends first.            *)
StoredIsForwardedEventually ==
  \A n \in 1..MaxSignals :
    Len(accepted) >= n ~> (Len(forwarded) >= n \/ status # None \/ outcome # None)

(* main does not wait for ever for a command that is gone, even when that  *)
(* cannot be waited for or the report cannot be written.                   *)
EndsEventually == status # None ~> outcome # None

(* src/src/main.rs:36, SIGNALS_TO_FORWARD: each signal of it that reaches  *)
(* the handler is forwarded as long as the command is running.             *)
EverySignalIsForwarded ==
  \A s \in SIGNALS_TO_FORWARD :
    s \in asked ~> ( \/ \E i \in DOMAIN forwarded : forwarded[i] = s
                     \/ status # None \/ outcome # None )
=============================================================================
