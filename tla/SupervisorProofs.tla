-------------------------- MODULE SupervisorProofs --------------------------
(***************************************************************************)
(* Proofs about Supervisor for any signals, codes and number of signals.   *)
(* Each property has its own inductive invariant, a conjunction of named   *)
(* facts on where main is; the type invariant comes first and is then used *)
(* as a fact.  The head of the report follows, for any command line made   *)
(* of the characters of Formatting and any duration.                       *)
(***************************************************************************)
EXTENDS Supervisor, Formatting, FoldProofs, SequenceTheorems, TLAPS

(* Polling: main is in its wait loop.  Ending: it has reaped the command.  *)
Polling == pc \in {"try_wait", "swap", "kill"}
Ending == pc \in {"report", "set_default", "raise"}

-----------------------------------------------------------------------------
LEMMA StatusKinds ==
  /\ \A n \in 0..255 : Exit(n) \in Statuses
  /\ \A n \in 1..64 : Signal(n) \in Statuses
  /\ \A s \in Statuses : s.how \in {"exit", "signal"} /\ s # None
  /\ \A s \in Statuses : s.how = "signal" => s.n \in 1..64 /\ s = Signal(s.n)
  /\ \A s \in Statuses : s.how = "exit" => s.n \in 0..255 /\ s = Exit(s.n)
  BY DEF Statuses, Exit, Signal, None

LEMMA EndingsAreStatuses ==
  /\ \A n \in Codes : Exit(n) \in Statuses
  /\ \A s \in SIGNALS_TO_FORWARD \cup {SIGKILL} : Signal(s) \in Statuses
<1>1. \A n \in Codes : Exit(n) \in Statuses
  BY StatusKinds, SupervisorAssumption
<1>2. SIGKILL \in 1..64
  BY DEF SIGKILL
<1>3. \A s \in SIGNALS_TO_FORWARD \cup {SIGKILL} : Signal(s) \in Statuses
  BY <1>2, StatusKinds, SupervisorAssumption
<1> QED BY <1>1, <1>3

(* TypeOK together with what Kill, SetDefault and Raise rely on: there is a*)
(* signal to forward; there is a signal that ended the command.            *)
KillsASignal == pc = "kill" => signal_number # 0
EndsBySignal == pc \in {"set_default", "raise"} => status \in Statuses /\ status.how = "signal"
EndsAfterTheCommand == Ending => child = "reaped"

TypeInv == TypeOK /\ KillsASignal /\ EndsBySignal /\ EndsAfterTheCommand

LEMMA TypeStep == TypeInv /\ [Next]_vars => TypeInv'
<1> SUFFICES ASSUME TypeInv, [Next]_vars PROVE TypeInv'
  OBVIOUS
<1> USE DEF TypeInv, TypeOK, KillsASignal, EndsBySignal, EndsAfterTheCommand, Ending, command, history
<1>0. /\ Exit(1) \in Statuses /\ Exit(2) \in Statuses /\ Exit(101) \in Statuses
      /\ UNCHANGED faults
  BY StatusKinds DEF Next, Main, World, Gone, vars
<1>1. CASE Args
  BY <1>0, <1>1 DEF Args, EndWithMessage, End
<1>2. CASE Install
  BY <1>0, <1>2 DEF Install
<1>3. CASE Spawn
  BY <1>0, <1>3 DEF Spawn, EndWithMessage, End
<1>4. CASE TryWait
  BY <1>0, <1>4 DEF TryWait, EndWithMessage, End
<1>5. CASE Swap
  BY <1>0, <1>5 DEF Swap
<1>6. CASE Kill
  BY <1>0, <1>6 DEF Kill
<1>7. CASE Report
  <2>1. status.how \in {"exit", "signal"} => status \in Statuses
    BY DEF None
  <2> QED BY <1>0, <1>7, <2>1 DEF Report, End
<1>8. CASE SetDefault
  BY <1>0, <1>8 DEF SetDefault
<1>9. CASE Raise
  <2>1. status \in Statuses /\ status.n \in 1..64
    BY <1>9, StatusKinds DEF Raise
  <2>2. \A n \in 1..64 : 128 + n \in 0..255
    OBVIOUS
  <2>3. Exit(128 + status.n) \in Statuses
    BY <2>1, <2>2, StatusKinds
  <2>4. outcome' \in Statuses /\ pc' = "gone"
    BY <1>9, <2>1, <2>3 DEF Raise, End
  <2> QED BY <1>0, <1>9, <2>4 DEF Raise
<1>10. ASSUME NEW s \in SIGNALS_TO_FORWARD, SignalArrives(s) PROVE TypeInv'
  <2>1. Signal(s) \in Statuses
    BY StatusKinds, SupervisorAssumption
  <2>2. sent' \in 0..MaxSignals
    BY <1>10, SupervisorAssumption DEF SignalArrives
  <2>3. CASE s \in handled
    <3>1. /\ received_signal' \in SIGNALS_TO_FORWARD \cup {0}
          /\ accepted' \in {accepted, Append(accepted, s)}
          /\ asked' \subseteq SIGNALS_TO_FORWARD
      BY <1>10, <2>3 DEF SignalArrives
    <3>3. accepted' \in Seq(SIGNALS_TO_FORWARD)
      BY <3>1
    <3>2. UNCHANGED <<pc, outcome, handled, signal_number, command, forwarded>>
      BY <1>10, <2>3 DEF SignalArrives
    <3> QED BY <1>0, <2>2, <3>1, <3>2, <3>3
  <2>4. CASE s \notin handled
    BY <1>0, <1>10, <2>1, <2>2, <2>4 DEF SignalArrives, End
  <2> QED BY <2>3, <2>4
<1>11. ASSUME NEW how \in Statuses, ChildEnds(how) PROVE TypeInv'
  BY <1>0, <1>11 DEF ChildEnds
<1>12. CASE PidReused
  BY <1>0, <1>12 DEF PidReused
<1>13. CASE UNCHANGED vars
  BY <1>13 DEF vars
<1> QED
  BY <1>1, <1>2, <1>3, <1>4, <1>5, <1>6, <1>7, <1>8, <1>9, <1>10, <1>11, <1>12,
     <1>13, EndingsAreStatuses DEF Next, Main, World, Gone

LEMMA TypeInvariant == Spec => []TypeInv
<1>1. Init => TypeInv
  BY SupervisorAssumption DEF Init, TypeInv, TypeOK, KillsASignal, EndsBySignal,
     EndsAfterTheCommand, Ending
<1> QED
  BY <1>1, TypeStep, PTL DEF Spec

(* TypeOK holds in every reachable state: pc, dispositions, the two signal *)
(* slots, histories, and an outcome that is a real exit status.            *)
THEOREM TypeCorrect == Spec => []TypeOK
<1>1. TypeInv => TypeOK
  BY DEF TypeInv
<1> QED
  BY <1>1, TypeInvariant, PTL

-----------------------------------------------------------------------------
(* StoredIsForwardedInOrder is inductive once Swap is known not to overwrite *)
(* a signal that has been swapped out before.                              *)
NothingInHand ==
  pc \in {"args", "install", "spawn", "try_wait", "swap"} => signal_number = 0

SlotInv == StoredIsForwardedInOrder /\ NothingInHand

LEMMA SlotStep == TypeInv /\ SlotInv /\ [Next]_vars => SlotInv'
<1> SUFFICES ASSUME TypeInv, SlotInv, [Next]_vars PROVE SlotInv'
  OBVIOUS
<1> DEFINE Sig == SIGNALS_TO_FORWARD
<1> USE DEF SlotInv, StoredIsForwardedInOrder, NothingInHand, command, history
<1>1. /\ accepted \in Seq(Sig) /\ forwarded \in Seq(Sig)
      /\ signal_number \in Sig \cup {0} /\ received_signal \in Sig \cup {0}
      /\ 0 \notin Sig
  BY SupervisorAssumption DEF TypeInv, TypeOK
<1>2. Slot(0) = <<>> /\ \A s \in Sig : Slot(s) = <<s>>
  BY <1>1 DEF Slot
<1>3. \A s \in Seq(Sig) : s \o <<>> = s
  BY ConcatEmptySeq
<1>4. CASE Swap
  <2>1. signal_number = 0 /\ signal_number' = received_signal /\ received_signal' = 0
    BY <1>4 DEF Swap
  <2>2. accepted = (forwarded \o <<>>) \o Slot(received_signal)
    BY <1>2, <2>1
  <2>3. accepted = forwarded \o Slot(received_signal)
    BY <1>1, <1>3, <2>2
  <2>4. forwarded \o Slot(received_signal) \in Seq(Sig)
    BY <1>1, <2>3
  <2>5. accepted = (forwarded \o Slot(received_signal)) \o <<>>
    BY <1>3, <2>3, <2>4
  <2>6. UNCHANGED <<accepted, forwarded>>
    BY <1>4 DEF Swap
  <2>7. accepted' = forwarded' \o Slot(signal_number)' \o Slot(received_signal)'
    BY <1>2, <2>1, <2>5, <2>6 DEF Slot
  <2>8. NothingInHand'
    BY <1>4, <2>1 DEF Swap
  <2> QED BY <2>7, <2>8
<1>5. CASE Kill
  <2>1. signal_number \in Sig
    BY <1>1, <1>5 DEF Kill, TypeInv, KillsASignal
  <2>2. forwarded \o <<signal_number>> = Append(forwarded, signal_number)
    BY <1>1, <2>1, AppendIsConcat
  <2>3. Append(forwarded, signal_number) \in Seq(Sig)
    BY <1>1, <2>1
  <2>4. accepted = (Append(forwarded, signal_number) \o <<>>) \o Slot(received_signal)
    BY <1>2, <1>3, <2>1, <2>2, <2>3
  <2> QED BY <1>2, <1>5, <2>4 DEF Kill, Slot
<1>6. ASSUME NEW s \in Sig, SignalArrives(s) PROVE SlotInv'
  <2>1. CASE UNCHANGED <<received_signal, accepted>>
    BY <1>6, <2>1 DEF SignalArrives, End, Slot
  <2>2. CASE s \in handled /\ received_signal = 0
    <3>1. received_signal' = s /\ accepted' = Append(accepted, s)
          /\ UNCHANGED <<forwarded, signal_number, pc>>
      BY <1>6, <2>2 DEF SignalArrives
    <3>2. Slot(signal_number) \in Seq(Sig)
      BY <1>1, <1>2
    <3>3. forwarded \o Slot(signal_number) \in Seq(Sig)
      BY <1>1, <3>2
    <3>4. accepted = forwarded \o Slot(signal_number)
      BY <1>2, <1>3, <2>2, <3>3
    <3>5. Append(accepted, s) = accepted \o <<s>>
      BY <1>1, AppendIsConcat
    <3> QED BY <1>2, <3>1, <3>4, <3>5 DEF Slot
  <2> QED BY <1>6, <2>1, <2>2 DEF SignalArrives
<1>7. CASE UNCHANGED <<accepted, forwarded, signal_number, received_signal>>
           /\ NothingInHand'
  BY <1>7 DEF Slot
<1>8. CASE Args \/ Install \/ Spawn \/ TryWait \/ Report \/ SetDefault \/ Raise
  BY <1>7, <1>8 DEF Args, Install, Spawn, TryWait, Report, SetDefault, Raise, End,
     EndWithMessage
<1>9. CASE (\E how \in Statuses : ChildEnds(how)) \/ PidReused \/ UNCHANGED vars
  BY <1>7, <1>9 DEF ChildEnds, PidReused, vars
<1> QED
  BY <1>4, <1>5, <1>6, <1>8, <1>9, EndingsAreStatuses DEF Next, Main, World, Gone

(* Whatever is sent and whenever main is interrupted: a stored signal is   *)
(* forwarded exactly once, and in the order of storing.                    *)
THEOREM StoredInOrder == Spec => []StoredIsForwardedInOrder
<1>1. Init => SlotInv
  BY ConcatEmptySeq DEF Init, SlotInv, StoredIsForwardedInOrder, NothingInHand, Slot
<1>2. SlotInv => StoredIsForwardedInOrder
  BY DEF SlotInv
<1> QED
  BY <1>1, <1>2, SlotStep, TypeInvariant, PTL DEF Spec

-----------------------------------------------------------------------------
(* Between Spawn and the end of the loop the command has not been waited   *)
(* for, so nobody else can get its pid: as long as only try_wait reaps it. *)
Unreaped ==
  /\ pc \in {"args", "install", "spawn"} => child = "none"
  /\ Polling => child \in {"running", "zombie", "reaped"}
  /\ Polling /\ "sigchld" \notin faults => child # "reaped" /\ owner = "child"

LEMMA UnreapedStep ==
  ASSUME TypeInv, Unreaped, [Next]_vars
  PROVE  Unreaped'
<1> USE DEF Unreaped, Polling, command, history
<1>0. UNCHANGED faults
  BY DEF Next, Main, World, Gone, vars
<1>1. CASE Args \/ Install \/ Spawn \/ TryWait \/ Swap \/ Kill
  BY <1>0, <1>1 DEF Args, Install, Spawn, TryWait, Swap, Kill, End, EndWithMessage
<1>2. CASE Report \/ SetDefault \/ Raise
  BY <1>0, <1>2 DEF Report, SetDefault, Raise, End
<1>3. ASSUME NEW s \in SIGNALS_TO_FORWARD, SignalArrives(s) PROVE Unreaped'
  BY <1>0, <1>3 DEF SignalArrives, End
<1>4. ASSUME NEW how \in Statuses, ChildEnds(how) PROVE Unreaped'
  BY <1>0, <1>4 DEF ChildEnds
<1>5. CASE PidReused \/ UNCHANGED vars
  BY <1>0, <1>5 DEF PidReused, vars
<1> QED
  BY <1>1, <1>2, <1>3, <1>4, <1>5, EndingsAreStatuses DEF Next, Main, World, Gone

(* Every kill goes to the command's own pid, unless an ignored SIGCHLD has *)
(* the kernel reap the command behind RunLens's back.                      *)
THEOREM KillIsSafe == Spec => []OnlyTheCommandIsSignalled
<1>1. Init => Unreaped
  BY DEF Init, Unreaped, Polling
<1>2. TypeInv /\ Unreaped /\ [Next]_vars => Unreaped'
  BY UnreapedStep
<1>3. Unreaped => OnlyTheCommandIsSignalled
  BY DEF Unreaped, OnlyTheCommandIsSignalled, Polling
<1> QED
  BY <1>1, <1>2, <1>3, TypeInvariant, PTL DEF Spec

-----------------------------------------------------------------------------
(* The way from a status to an outcome.  The handlers stay in place until  *)
(* set_default takes one away: the only signal that can still kill RunLens *)
(* is the one that has killed the command.                                 *)
HandlersAreIn ==
  /\ Polling \/ pc \in {"spawn", "report", "set_default"} => handled = SIGNALS_TO_FORWARD
  /\ pc = "raise" => handled = SIGNALS_TO_FORWARD \ {status.n}

OutcomeIsStatus ==
  /\ pc = "gone" <=> outcome # None
  /\ child \in {"none", "running"} <=> status = None
  /\ pc = "gone" => child # "running" /\ child # "zombie"
  /\ pc = "gone" /\ child = "reaped" => PassedOn(status, outcome, faults)

StatusInv == Unreaped /\ HandlersAreIn /\ OutcomeIsStatus

LEMMA StatusStep ==
  ASSUME TypeInv, StatusInv, [Next]_vars
  PROVE  StatusInv'
<1>1. Unreaped'
  BY UnreapedStep DEF StatusInv
<1>0. UNCHANGED faults
  BY DEF Next, Main, World, Gone, vars
<1> USE <1>0 DEF StatusInv, HandlersAreIn, OutcomeIsStatus, Polling, Unreaped, command, history
<1>2. \A s \in Statuses : s # None
  BY StatusKinds
<1>3. \A n : Exit(n) # None /\ Signal(n) # None
  BY DEF Exit, Signal, None
<1>4. CASE Args
  BY <1>3, <1>1, <1>4 DEF Args, End, EndWithMessage
<1>5. CASE Install
  BY <1>1, <1>5 DEF Install
<1>6. CASE Spawn
  BY <1>3, <1>1, <1>6 DEF Spawn, End, EndWithMessage
<1>7. CASE TryWait
  BY <1>1, <1>3, <1>7 DEF TryWait, End, EndWithMessage, PassedOn
<1>8. CASE Swap \/ Kill
  BY <1>1, <1>8 DEF Swap, Kill
<1>9. CASE Report
  BY <1>1, <1>3, <1>9, StatusKinds DEF Report, End, PassedOn, None, TypeInv, TypeOK,
     EndsAfterTheCommand, Ending
<1>10. CASE SetDefault
  BY <1>1, <1>10 DEF SetDefault
<1>11. CASE Raise
  <2>1. status # None /\ status.how = "signal" /\ child = "reaped"
    BY <1>2, <1>11 DEF Raise, TypeInv, EndsBySignal, EndsAfterTheCommand, Ending
  <2>2. PassedOn(status, outcome', faults) /\ outcome' # None
    BY <1>3, <1>11, <2>1 DEF Raise, End, PassedOn
  <2>3. pc' = "gone" /\ UNCHANGED <<child, status>>
    BY <1>11 DEF Raise, End
  <2> QED BY <1>1, <2>1, <2>2, <2>3
<1>12. ASSUME NEW s \in SIGNALS_TO_FORWARD, SignalArrives(s) PROVE StatusInv'
  <2>1. CASE UNCHANGED <<pc, outcome>>
    BY <1>1, <1>12, <2>1 DEF SignalArrives
  <2>2. CASE s \notin handled /\ pc = "raise"
    <3>1. status \in Statuses /\ status.how = "signal" /\ child = "reaped"
      BY <2>2 DEF TypeInv, EndsBySignal, EndsAfterTheCommand, Ending
    <3>2. status = Signal(s)
      BY <2>2, <3>1, StatusKinds
    <3> QED
      BY <1>1, <1>2, <1>3, <1>12, <2>2, <3>1, <3>2 DEF SignalArrives, End, PassedOn
  <2>3. CASE s \notin handled /\ pc \in {"args", "install"}
    BY <1>1, <1>3, <1>12, <2>3 DEF SignalArrives, End
  <2> QED
    BY <1>12, <2>1, <2>2, <2>3 DEF SignalArrives, TypeInv, TypeOK
<1>13. ASSUME NEW how \in Statuses, ChildEnds(how) PROVE StatusInv'
  BY <1>1, <1>2, <1>13 DEF ChildEnds, TypeInv, EndsAfterTheCommand, Ending
<1>14. CASE PidReused \/ UNCHANGED vars
  BY <1>1, <1>14 DEF PidReused, vars
<1> QED
  BY <1>4, <1>5, <1>6, <1>7, <1>8, <1>9, <1>10, <1>11, <1>12, <1>13, <1>14,
     EndingsAreStatuses DEF Next, Main, World, Gone

(* RunLens ends as the command ended, whatever signals arrive and whenever *)
(* they do, if its standard error and SIGCHLD are in order; if they are    *)
(* not, with the code that stands for that fault at worst.                 *)
THEOREM StatusReturned == Spec => []StatusIsReturned
<1>1. Init => StatusInv
  BY DEF Init, StatusInv, HandlersAreIn, OutcomeIsStatus, Unreaped, Polling
<1>2. TypeInv /\ StatusInv /\ [Next]_vars => StatusInv'
  BY StatusStep
<1>3. TypeInv /\ StatusInv => StatusIsReturned
  BY DEF StatusInv, OutcomeIsStatus, StatusIsReturned, TypeInv, TypeOK
<1> QED
  BY <1>1, <1>2, <1>3, TypeInvariant, PTL DEF Spec

-----------------------------------------------------------------------------
(* Each step of RunLens is a step of the wrapper of Passthrough or does    *)
(* not show there: only Spawn, the end of the command and the end of       *)
(* RunLens do.                                                             *)
Mapped == IF child \in {"zombie", "reaped"} THEN "ended" ELSE child

LEMMA WrapperStep ==
  ASSUME TypeInv, TypeInv', StatusInv, StatusInv', [Next]_vars
  PROVE  [Wrapper!Next]_(Wrapper!vars)
<1>0. UNCHANGED faults
  BY DEF Next, Main, World, Gone, vars
<1> USE <1>0 DEF command, history
<1>1. CASE UNCHANGED <<Mapped, status, outcome>>
  BY <1>1 DEF Wrapper!vars, Mapped
<1>2. CASE Spawn /\ UNCHANGED outcome
  BY <1>2 DEF Spawn, StatusInv, Unreaped, OutcomeIsStatus, TypeInv, TypeOK,
     Wrapper!Next, Wrapper!Launch, End, EndWithMessage
<1>3. ASSUME NEW how \in Statuses, ChildEnds(how) PROVE Wrapper!CommandEnds
  BY <1>3 DEF ChildEnds, Wrapper!CommandEnds
<1>4. ASSUME outcome = None, outcome' # None, UNCHANGED <<child, status>>
      PROVE  Wrapper!Next
  <2>1. child' \in {"none", "reaped"} /\ pc' = "gone"
    BY <1>4 DEF StatusInv, OutcomeIsStatus, TypeInv, TypeOK
  <2>2. CASE child = "reaped"
    BY <1>4, <2>1, <2>2 DEF Wrapper!Next, Wrapper!PassOn, TypeInv, TypeOK, StatusInv,
       OutcomeIsStatus
  <2>3. CASE child = "none"
    <3>1. outcome' \in NotLaunched(faults)
      <4>1. CASE Args \/ Spawn
        BY <1>4, <4>1 DEF Args, Spawn, End, EndWithMessage, NotLaunched
      <4>2. ASSUME NEW s \in SIGNALS_TO_FORWARD, SignalArrives(s)
            PROVE  outcome' \in {Signal(n) : n \in 1..64}
        BY <1>4, <4>2, SupervisorAssumption DEF SignalArrives, End
      <4>3. ~(TryWait \/ Report \/ Raise)
        BY <2>3 DEF TryWait, Report, Raise, TypeInv, EndsAfterTheCommand, Ending,
           StatusInv, Unreaped, Polling
      <4>4. UNCHANGED outcome \/ ~(Install \/ Swap \/ Kill \/ SetDefault \/ PidReused)
        BY DEF Install, Swap, Kill, SetDefault, PidReused
      <4>5. UNCHANGED outcome \/ ~(\E how \in Statuses : ChildEnds(how))
        BY DEF ChildEnds
      <4> QED
        BY <1>4, <4>1, <4>2, <4>3, <4>4, <4>5, EndingsAreStatuses
           DEF Next, Main, World, Gone, vars, NotLaunched
    <3> QED BY <1>4, <2>3, <3>1 DEF Wrapper!Next, Wrapper!GiveUp
  <2> QED BY <1>4, <2>1, <2>2, <2>3
<1>5. CASE UNCHANGED <<Mapped, child, status>>
  <2>1. outcome # None => UNCHANGED outcome
    <3>1. ASSUME outcome # None, Main PROVE FALSE
      BY <3>1 DEF StatusInv, OutcomeIsStatus, Main, Args, Install, Spawn, TryWait, Swap,
         Kill, Report, SetDefault, Raise
    <3>2. World => outcome = None \/ UNCHANGED outcome
      BY DEF World, SignalArrives, ChildEnds, PidReused
    <3> QED BY <3>1, <3>2 DEF Next, Gone, vars
  <2> QED BY <1>1, <1>4, <1>5, <2>1
<1>6. CASE Spawn
  <2>1. UNCHANGED <<Mapped, child, status>> \/ UNCHANGED outcome
    BY <1>6 DEF Spawn, Mapped
  <2> QED BY <1>2, <1>5, <1>6, <2>1
<1>7. CASE TryWait
  <2>1. UNCHANGED <<Mapped, child, status>> \/ UNCHANGED <<Mapped, status, outcome>>
    BY <1>7 DEF TryWait, Mapped
  <2> QED BY <1>1, <1>5, <2>1
<1>8. CASE Args \/ Install \/ Swap \/ Kill \/ Report \/ SetDefault \/ Raise
  BY <1>5, <1>8 DEF Args, Install, Swap, Kill, Report, SetDefault, Raise, Mapped
<1>9. CASE (\E s \in SIGNALS_TO_FORWARD : SignalArrives(s)) \/ PidReused \/ UNCHANGED vars
  BY <1>5, <1>9 DEF SignalArrives, PidReused, vars, Mapped
<1>10. CASE \E how \in Statuses : ChildEnds(how)
  BY <1>3, <1>10 DEF Wrapper!Next
<1> QED
  BY <1>6, <1>7, <1>8, <1>9, <1>10, EndingsAreStatuses DEF Next, Main, World, Gone

(* The safety part of ImplementsPassthrough: RunLens is a wrapper that     *)
(* runs one command and passes its status on.                              *)
THEOREM IsPassthrough == Spec => Wrapper!Safety
<1>1. Init => StatusInv /\ Wrapper!Init
  BY DEF Init, StatusInv, HandlersAreIn, OutcomeIsStatus, Unreaped, Polling, Wrapper!Init
<1>2. TypeInv /\ StatusInv /\ [Next]_vars => StatusInv'
  BY StatusStep
<1>3. TypeInv /\ TypeInv' /\ StatusInv /\ StatusInv' /\ [Next]_vars
        => [Wrapper!Next]_(Wrapper!vars)
  BY WrapperStep
<1> QED
  BY <1>1, <1>2, <1>3, TypeInvariant, PTL DEF Spec, Wrapper!Safety

-----------------------------------------------------------------------------
(* format_duration: the text of a duration is the milliseconds, the tenth  *)
(* nearest to them, or the whole seconds in them.                          *)
LEMMA InMilliseconds ==
  ASSUME NEW m \in Nat, m < 1000, NEW text \in format_duration(m)
  PROVE  Meaning(text) = m
<1>1. text = [unit |-> "ms", milliseconds |-> m]
  BY DEF format_duration
<1> QED BY <1>1 DEF Meaning

LEMMA InSeconds ==
  ASSUME NEW m \in Nat, 1000 <= m, m < 60000, NEW text \in format_duration(m)
  PROVE  \E n \in Nat : Meaning(text) = 100 * n /\ 100 * n - 50 <= m /\ m <= 100 * n + 50
<1>1. PICK n \in Tenths(m) : text = [unit |-> "s", tenths |-> n]
  <2>1. ~(m < 1000)
    OBVIOUS
  <2> QED BY <2>1 DEF format_duration
<1>2. Meaning(text) = 100 * n
  BY <1>1 DEF Meaning
<1>3. m \div 100 \in Nat
  OBVIOUS
<1>4. n \in Nat /\ 100 * n - 50 <= m /\ m <= 100 * n + 50
  BY <1>3 DEF Tenths
<1> QED BY <1>2, <1>4

LEMMA InMinutes ==
  ASSUME NEW m \in Nat, 60000 <= m, NEW text \in format_duration(m)
  PROVE  Meaning(text) = 1000 * (m \div 1000)
<1> DEFINE s == m \div 1000
<1>1. text = Seconds(m \div 60000, s % 60)
  <2>1. ~(m < 1000) /\ ~(m < 60000)
    OBVIOUS
  <2> QED BY <2>1 DEF format_duration, format_minutes
<1>2. Meaning(text) = 60000 * (m \div 60000) + 1000 * (s % 60)
  BY <1>1 DEF Meaning, Seconds
<1>3. s \in Nat /\ m \div 60000 = s \div 60
  <2>1. 1000 * s <= m /\ m < 1000 * s + 1000 /\ s \in Nat
    OBVIOUS
  <2> DEFINE q == s \div 60
  <2> HIDE DEF s
  <2>2. 60 * q <= s /\ s < 60 * q + 60 /\ q \in Nat
    BY <2>1
  <2> HIDE DEF q
  <2>3. 60000 * q <= m /\ m < 60000 * q + 60000
    BY <2>1, <2>2
  <2>4. m \div 60000 = q
    BY <2>2, <2>3
  <2> QED BY <2>1, <2>4 DEF q
<1> HIDE DEF s
<1>4. s = 60 * (s \div 60) + (s % 60)
  BY <1>3
<1>5. s \div 60 \in Int /\ s % 60 \in Int
  BY <1>3
<1>6. Meaning(text) = 1000 * s
  BY <1>2, <1>3, <1>4, <1>5
<1> QED BY <1>6 DEF s

(* LongerLooksLonger, for every duration: the two durations are in one unit*)
(* or on the two sides of a change of units.                               *)
THEOREM Durations == elapsed \in Nat => LongerLooksLonger
<1> SUFFICES ASSUME elapsed \in Nat,
                    NEW shorter \in format_duration(elapsed), NEW longer \in format_duration(elapsed + 1)
             PROVE  Meaning(shorter) <= Meaning(longer)
  BY DEF LongerLooksLonger
<1>1. CASE elapsed < 1000
  <2>1. Meaning(shorter) = elapsed
    BY <1>1, InMilliseconds
  <2>2. elapsed + 1 < 1000 => Meaning(longer) = elapsed + 1
    BY InMilliseconds
  <2>3. elapsed + 1 = 1000 => \E n \in Nat : Meaning(longer) = 100 * n /\ 1000 <= 100 * n + 50
    BY InSeconds
  <2> QED BY <1>1, <2>1, <2>2, <2>3
<1>2. CASE 1000 <= elapsed /\ elapsed < 60000
  <2>1. PICK n \in Nat : Meaning(shorter) = 100 * n /\ 100 * n - 50 <= elapsed
    BY <1>2, InSeconds
  <2>2. elapsed + 1 < 60000 =>
          \E k \in Nat : Meaning(longer) = 100 * k /\ elapsed + 1 <= 100 * k + 50
    BY <1>2, InSeconds
  <2>3. elapsed + 1 = 60000 => Meaning(longer) = 60000
    <3>1. 60000 \div 1000 = 60
      OBVIOUS
    <3> QED BY <3>1, InMinutes
  <2> QED BY <1>2, <2>1, <2>2, <2>3
<1>3. CASE 60000 <= elapsed
  <2>1. /\ Meaning(shorter) = 1000 * (elapsed \div 1000)
        /\ Meaning(longer) = 1000 * ((elapsed + 1) \div 1000)
    BY <1>3, InMinutes
  <2>2. elapsed \div 1000 <= (elapsed + 1) \div 1000
        /\ elapsed \div 1000 \in Int /\ (elapsed + 1) \div 1000 \in Int
    OBVIOUS
  <2> QED BY <2>1, <2>2
<1> QED BY <1>1, <1>2, <1>3

-----------------------------------------------------------------------------
(* ShellReads, by the recursive definition of the fold: character after    *)
(* character, from the front.                                              *)
NothingRead == [mode |-> "outside", words |-> <<>>, open |-> <<>>, plain |-> TRUE]
ReaderRule(g, line, s) == IF s = {} THEN NothingRead ELSE ReadCharacter(g[s \ {Max(s)}], line[Max(s)])

Readers(line, S) == CHOOSE g : g = [s \in SUBSET S |-> ReaderRule(g, line, s)]
(* The library folds over the positions of the line, last one last.        *)
LEMMA FoldIs == ASSUME NEW line PROVE
  ShellReads(line) = Readers(line, DOMAIN line)[DOMAIN line]
BY DEF ShellReads, FoldLeft, MapThenFoldSet, ReaderRule, Readers, NothingRead

(* As with sums, the recursive definitions do define functions.            *)
LEMMA FoldExists ==
  ASSUME NEW S, IsFiniteSet(S), S \subseteq Int, NEW line
  PROVE  \E g : g = [s \in SUBSET S |-> ReaderRule(g, line, s)]
<1> DEFINE Good(g, k) == \A s \in SUBSET S : Cardinality(s) <= k => g[s] = ReaderRule(g, line, s)
           N == {k \in Nat : \E g : Good(g, k)}
<1>0. /\ Cardinality(S) \in Nat
      /\ \A s \in SUBSET S : Cardinality(s) <= Cardinality(S)
  BY FS_Subset, FS_CardinalityType
<1>1. \A s \in SUBSET S : /\ Cardinality(s) \in Nat /\ (Cardinality(s) = 0 <=> s = {})
                        /\ \A x \in s : Cardinality(s \ {x}) = Cardinality(s) - 1
  BY SizesOfSubsets
<1>m. \A s \in SUBSET S : s # {} => Max(s) \in s
  BY FS_Subset, Greatest
<1>2. 0 \in N
  <2> DEFINE g == [s \in SUBSET S |-> NothingRead]
  <2>1. ASSUME NEW s \in SUBSET S, Cardinality(s) <= 0 PROVE s = {}
    <3>1. Cardinality(s) = 0
      BY <1>1, <2>1
    <3> QED BY <1>1, <3>1
  <2>2. g[{}] = ReaderRule(g, line, {})
    BY DEF ReaderRule
  <2> HIDE DEF g
  <2>3. Good(g, 0)
    BY <2>1, <2>2
  <2> QED BY <2>3
<1>3. ASSUME NEW k \in Nat, k \in N PROVE k + 1 \in N
  <2>1. PICK g : Good(g, k)
    BY <1>3
  <2> DEFINE h == [s \in SUBSET S |-> ReaderRule(g, line, s)]
  <2>2. ASSUME NEW s \in SUBSET S, Cardinality(s) <= k + 1 PROVE h[s] = ReaderRule(h, line, s)
    <3>1. CASE s = {}
      BY <3>1 DEF ReaderRule
    <3>2. CASE s # {}
      <4> DEFINE r == s \ {Max(s)}
      <4>1. r \in SUBSET S /\ Cardinality(r) <= k
        <5>1. Max(s) \in s
          BY <1>m, <3>2
        <5>2. Cardinality(r) = Cardinality(s) - 1 /\ Cardinality(s) \in Nat
          BY <1>1, <5>1
        <5>3. r \in SUBSET S
          OBVIOUS
        <5> HIDE DEF r
        <5> QED BY <2>2, <5>2, <5>3
      <4>2. g[r] = ReaderRule(g, line, r) /\ h[r] = ReaderRule(g, line, r)
        BY <2>1, <4>1
      <4>3. /\ ReaderRule(g, line, s) = ReadCharacter(g[r], line[Max(s)])
            /\ ReaderRule(h, line, s) = ReadCharacter(h[r], line[Max(s)])
        BY <3>2 DEF ReaderRule
      <4> QED BY <4>2, <4>3
    <3> QED BY <3>1, <3>2
  <2> HIDE DEF h
  <2>3. Good(h, k + 1)
    BY <2>2
  <2> QED BY <2>3
<1>4. Cardinality(S) \in N
  <2> HIDE DEF N
  <2> QED BY <1>0, <1>2, <1>3, SetInduction
<1>5. PICK g : Good(g, Cardinality(S))
  BY <1>4
<1>6. \A s \in SUBSET S : g[s] = ReaderRule(g, line, s)
  BY <1>0, <1>5
<1> DEFINE h == [s \in SUBSET S |-> g[s]]
<1>7. ASSUME NEW s \in SUBSET S PROVE ReaderRule(h, line, s) = ReaderRule(g, line, s)
  BY DEF ReaderRule
<1>8. h = [s \in SUBSET S |-> ReaderRule(h, line, s)]
  <2>1. \A s \in SUBSET S : h[s] = ReaderRule(h, line, s)
    BY <1>6, <1>7
  <2>2. h = [s \in SUBSET S |-> h[s]]
    OBVIOUS
  <2> HIDE DEF h
  <2> QED BY <2>1, <2>2
<1> HIDE DEF h
<1> QED BY <1>8

LEMMA ReadersAre ==
  ASSUME NEW S, IsFiniteSet(S), S \subseteq Int, NEW line
  PROVE  \A s \in SUBSET S : Readers(line, S)[s] = ReaderRule(Readers(line, S), line, s)
<1>1. Readers(line, S) = [s \in SUBSET S |-> ReaderRule(Readers(line, S), line, s)]
  BY FoldExists DEF Readers
<1> QED BY <1>1

(* Reading a longer line: the old characters make what they made before.   *)
LEMMA ShellStep ==
  ASSUME NEW C, NEW line \in Seq(C), NEW c \in C
  PROVE  ShellReads(Append(line, c)) = ReadCharacter(ShellReads(line), c)
<1> DEFINE n == Len(line)
           D == DOMAIN line
           longer == Append(line, c)
           E == DOMAIN longer
           fold == Readers(line, D)
           next == Readers(longer, E)
<1>1. /\ n \in Nat /\ D = 1..n /\ E = 1..(n + 1)
      /\ \A i \in 1..n : longer[i] = line[i]
      /\ longer[n + 1] = c
  BY AppendProperties, LenProperties
<1>2. ShellReads(line) = fold[D] /\ ShellReads(longer) = next[E]
  BY FoldIs
<1> HIDE DEF n, D, E, longer
<1>3. IsFiniteSet(D) /\ D \subseteq Int /\ IsFiniteSet(E) /\ E \subseteq Int
  BY <1>1, FS_Interval
<1>4. /\ \A s \in SUBSET D : fold[s] = ReaderRule(fold, line, s)
      /\ \A s \in SUBSET E : next[s] = ReaderRule(next, longer, s)
  BY <1>3, ReadersAre
<1> HIDE DEF fold, next
<1>5. D \subseteq E /\ E \ {n + 1} = D /\ n + 1 \in E /\ \A i \in E : i <= n + 1
  BY <1>1
<1> DEFINE T == {s \in SUBSET D : next[s] = fold[s]}
<1>6. {} \in T
  BY <1>4 DEF ReaderRule
<1>7. ASSUME NEW s \in SUBSET D, s # {}, \A x \in s : s \ {x} \in T PROVE s \in T
  <2>1. Max(s) \in s
    BY <1>3, <1>7, FS_Subset, Greatest
  <2>2. s \in SUBSET E /\ longer[Max(s)] = line[Max(s)]
    BY <1>1, <1>5, <2>1
  <2>3. next[s \ {Max(s)}] = fold[s \ {Max(s)}]
    BY <1>7, <2>1
  <2> QED BY <1>4, <1>7, <2>2, <2>3 DEF ReaderRule
<1>8. SUBSET D \subseteq T
  <2> HIDE DEF T
  <2> QED BY <1>3, <1>6, <1>7, SubsetInduction
<1>9. next[D] = fold[D]
  BY <1>8
<1>10. Max(E) = n + 1
  <2>1. Max(E) \in E /\ Max(E) >= n + 1
    BY <1>3, <1>5, Greatest
  <2> QED BY <1>1, <1>5, <2>1
<1>11. next[E] = ReadCharacter(next[D], c)
  BY <1>1, <1>4, <1>5, <1>10 DEF ReaderRule
<1> QED BY <1>2, <1>9, <1>11 DEF longer

LEMMA ShellStart == ShellReads(<<>>) = NothingRead
<1>1. DOMAIN <<>> = {}
  OBVIOUS
<1>2. ShellReads(<<>>) = Readers(<<>>, {})[{}]
  BY <1>1, FoldIs
<1>3. Readers(<<>>, {})[{}] = ReaderRule(Readers(<<>>, {}), <<>>, {})
  BY FS_EmptySet, ReadersAre
<1> QED BY <1>2, <1>3 DEF ReaderRule

-----------------------------------------------------------------------------
(* format_command.  Reading is the shell where nothing was expanded so far; *)
(* WordOf is the word it goes on with.                                     *)
Reading(mode, words, open) == [mode |-> mode, words |-> words, open |-> open, plain |-> TRUE]
WordOf(open) == IF open = <<>> THEN <<>> ELSE open[1]
Texts == Seq(Character)

LEMMA Characters ==
  /\ Quote \in Character /\ Backslash \in Character /\ " " \in Character
  /\ Quote # Backslash /\ Quote \notin Blanks /\ Backslash \notin Blanks
  /\ Safe \subseteq Character
  /\ \A c \in Safe : c # Quote /\ c # Backslash /\ c \notin Blanks
  /\ " " \in Blanks /\ " " # "newline"
  BY DEF Quote, Backslash, Blanks, Safe, Character

LEMMA Joined ==
  ASSUME NEW r \in Texts, NEW s \in Texts
  PROVE  r \o s \in Texts
  BY ConcatProperties DEF Texts

LEMMA Associative ==
  ASSUME NEW r \in Texts, NEW s \in Texts, NEW t \in Texts
  PROVE  r \o (s \o t) = (r \o s) \o t
<1> DEFINE C == Character
<1> HIDE DEF C
<1>1. r \in Seq(C) /\ s \in Seq(C) /\ t \in Seq(C)
  BY DEF Texts, C
<1>2. (r \o s) \o t = r \o (s \o t)
  BY <1>1, ConcatAssociative
<1> QED BY <1>2

(* What the shell makes of one character, in the places where there is one.*)
LEMMA InQuotes ==
  ASSUME NEW w, NEW p
  PROVE  /\ ReadCharacter(Reading("quoted", w, <<p>>), Quote) = Reading("outside", w, <<p>>)
         /\ ReadCharacter(Reading("outside", w, <<p>>), Backslash) = Reading("escaped", w, <<p>>)
         /\ ReadCharacter(Reading("outside", w, <<p>>), Quote) = Reading("quoted", w, <<p>>)
<1> USE Characters DEF ReadCharacter, Reading
<1>0. <<p>> # <<>> /\ <<p>>[1] = p
  OBVIOUS
<1>2. ReadCharacter(Reading("quoted", w, <<p>>), Quote) = Reading("outside", w, <<p>>)
  BY <1>0
<1>4. ReadCharacter(Reading("outside", w, <<p>>), Backslash) = Reading("escaped", w, <<p>>)
  BY <1>0
<1>5. ReadCharacter(Reading("outside", w, <<p>>), Quote) = Reading("quoted", w, <<p>>)
  BY <1>0
<1> HIDE DEF ReadCharacter, Reading
<1> QED BY <1>2, <1>4, <1>5

(* Every character but the quote stands for itself there.                  *)
LEMMA Verbatim ==
  ASSUME NEW w, NEW p, NEW c
  PROVE  /\ c # Quote => ReadCharacter(Reading("quoted", w, <<p>>), c) = Reading("quoted", w, <<Append(p, c)>>)
         /\ ReadCharacter(Reading("escaped", w, <<p>>), c) = Reading("outside", w, <<Append(p, c)>>)
<1>1. <<p>> # <<>> /\ <<p>>[1] = p
  OBVIOUS
<1> QED BY <1>1 DEF ReadCharacter, Reading

(* Outside of quotes, between words too.                                   *)
LEMMA OutsideQuotes ==
  ASSUME NEW w, NEW open
  PROVE  /\ ReadCharacter(Reading("outside", w, open), Quote) = Reading("quoted", w, <<WordOf(open)>>)
         /\ \A c \in Safe : ReadCharacter(Reading("outside", w, open), c)
                              = Reading("outside", w, <<Append(WordOf(open), c)>>)
         /\ ReadCharacter(Reading("outside", w, open), " ") = Reading("outside", w \o open, <<>>)
<1> USE Characters DEF ReadCharacter, Reading, WordOf
<1>1. ReadCharacter(Reading("outside", w, open), Quote) = Reading("quoted", w, <<WordOf(open)>>)
  OBVIOUS
<1>2. ASSUME NEW c \in Safe
      PROVE  ReadCharacter(Reading("outside", w, open), c) = Reading("outside", w, <<Append(WordOf(open), c)>>)
  OBVIOUS
<1>3. ReadCharacter(Reading("outside", w, open), " ") = Reading("outside", w \o open, <<>>)
  OBVIOUS
<1> HIDE DEF ReadCharacter, Reading, WordOf
<1> QED BY <1>1, <1>2, <1>3

(* The line grows by one character.                                        *)
LEMMA ThenOne ==
  ASSUME NEW line \in Texts, NEW c \in Character
  PROVE  /\ Append(line, c) \in Texts /\ line \o <<c>> = Append(line, c)
         /\ ShellReads(Append(line, c)) = ReadCharacter(ShellReads(line), c)
<1>1. Append(line, c) \in Seq(Character)
  BY AppendProperties DEF Texts
<1>2. line \o <<c>> = Append(line, c)
  BY OneElement DEF Texts
<1>3. ShellReads(Append(line, c)) = ReadCharacter(ShellReads(line), c)
  BY ShellStep DEF Texts
<1> QED BY <1>1, <1>2, <1>3 DEF Texts

(* What Replaced writes for a character.                                   *)
Piece(c) == IF c = Quote THEN <<Quote, Backslash, Quote, Quote>> ELSE <<c>>

LEMMA Pieces ==
  ASSUME NEW c \in Character
  PROVE  Piece(c) \in Texts
<1>1. <<Quote, Backslash, Quote, Quote>> \in Seq(Character)
  BY Characters, FourElements
<1>2. <<c>> \in Seq(Character)
  BY OneElement
<1> QED BY <1>1, <1>2 DEF Piece, Texts

(* Replaced from the first character to the last.                          *)
LEMMA ReplacedSteps ==
  /\ Replaced(<<>>) = <<>>
  /\ \A text \in Texts : Replaced(text) \in Texts
  /\ \A text \in Texts, c \in Character : Replaced(Append(text, c)) = Replaced(text) \o Piece(c)
<1> DEFINE pieces(text) == [i \in DOMAIN text |-> Piece(text[i])]
<1>1. \A text : Replaced(text) = FlattenSeq(pieces(text))
  BY DEF Replaced, Piece
<1>2. pieces(<<>>) = <<>>
  OBVIOUS
<1>3. ASSUME NEW text \in Texts PROVE pieces(text) \in Seq(Texts) /\ Len(pieces(text)) = Len(text)
  <2>1. Len(text) \in Nat /\ DOMAIN text = 1..Len(text) /\ \A i \in 1..Len(text) : text[i] \in Character
    BY LenProperties, ElementOfSeq DEF Texts
  <2>2. \A i \in 1..Len(text) : Piece(text[i]) \in Texts
    BY <2>1, Pieces
  <2>3. pieces(text) \in [1..Len(text) -> Texts]
    BY <2>1, <2>2
  <2> QED BY <2>1, <2>3, SeqDef
<1>4. ASSUME NEW text \in Texts, NEW c \in Character
      PROVE  pieces(Append(text, c)) = Append(pieces(text), Piece(c))
  <2> DEFINE longer == Append(text, c)
  <2>1. /\ longer \in Texts /\ Len(longer) = Len(text) + 1 /\ Len(text) \in Nat
        /\ DOMAIN longer = 1..(Len(text) + 1) /\ DOMAIN text = 1..Len(text)
        /\ \A i \in 1..Len(text) : longer[i] = text[i]
        /\ longer[Len(text) + 1] = c
    BY AppendProperties, LenProperties DEF Texts
  <2>2. /\ pieces(text) \in Seq(Texts) /\ Len(pieces(text)) = Len(text)
        /\ pieces(longer) \in Seq(Texts) /\ Len(pieces(longer)) = Len(text) + 1
    BY <1>3, <2>1
  <2>3. /\ Append(pieces(text), Piece(c)) \in Seq(Texts)
        /\ Len(Append(pieces(text), Piece(c))) = Len(text) + 1
        /\ \A i \in 1..Len(text) : Append(pieces(text), Piece(c))[i] = pieces(text)[i]
        /\ Append(pieces(text), Piece(c))[Len(text) + 1] = Piece(c)
    BY <2>2, Pieces, AppendProperties
  <2>4. \A i \in 1..(Len(text) + 1) : pieces(longer)[i] = Append(pieces(text), Piece(c))[i]
    BY <2>1, <2>3
  <2> HIDE DEF longer, pieces
  <2> QED BY <2>2, <2>3, <2>4, SeqEqual DEF longer
<1> HIDE DEF pieces
<1>5. ASSUME NEW text \in Texts, NEW c \in Character
      PROVE  Replaced(Append(text, c)) = Replaced(text) \o Piece(c)
  BY <1>1, <1>3, <1>4, Pieces, FlattenStep DEF Texts
<1>6. ASSUME NEW text \in Texts PROVE Replaced(text) \in Texts
  BY <1>1, <1>3, FlattenIsTyped DEF Texts
<1> QED BY <1>1, <1>2, <1>5, <1>6, FlattenStart

(* Between quotes the shell reads back what Replaced has written.          *)
LEMMA QuotedIsRead ==
  ASSUME NEW line \in Texts, NEW w, NEW p \in Texts,
         ShellReads(line) = Reading("quoted", w, <<p>>)
  PROVE  \A text \in Texts : ShellReads(line \o Replaced(text)) = Reading("quoted", w, <<p \o text>>)
<1> DEFINE T == {text \in Texts : ShellReads(line \o Replaced(text)) = Reading("quoted", w, <<p \o text>>)}
<1>1. <<>> \in T
  <2>1. line \o <<>> = line /\ p \o <<>> = p /\ <<>> \in Texts
    BY ConcatEmptySeq, EmptySeq DEF Texts
  <2> QED BY <2>1, ReplacedSteps
<1>2. ASSUME NEW text \in Texts, NEW c \in Character, text \in T PROVE Append(text, c) \in T
  <2> DEFINE so == line \o Replaced(text)
             longer == Append(text, c)
             q == p \o text
  <2>1. /\ so \in Texts /\ q \in Texts /\ longer \in Texts
        /\ line \o Replaced(longer) = so \o Piece(c)
        /\ p \o longer = Append(q, c)
    <3>1. Replaced(text) \in Texts /\ Replaced(longer) = Replaced(text) \o Piece(c) /\ Piece(c) \in Texts
      BY ReplacedSteps, Pieces
    <3>2. so \in Texts /\ q \in Texts
      BY <3>1, Joined
    <3>3. line \o (Replaced(text) \o Piece(c)) = so \o Piece(c)
      BY <3>1, Associative
    <3>4. longer = text \o <<c>> /\ longer \in Texts /\ <<c>> \in Texts /\ q \o <<c>> = Append(q, c)
      BY <3>2, ThenOne, OneElement DEF Texts
    <3>5. p \o (text \o <<c>>) = q \o <<c>>
      BY <3>4, Associative
    <3> QED BY <3>1, <3>2, <3>3, <3>4, <3>5
  <2>2. ShellReads(so) = Reading("quoted", w, <<q>>)
    BY <1>2
  <2> HIDE DEF so, longer, q
  <2>3. ShellReads(so \o Piece(c)) = Reading("quoted", w, <<Append(q, c)>>)
    <3>1. CASE c # Quote
      <4>1. ReadCharacter(Reading("quoted", w, <<q>>), c) = Reading("quoted", w, <<Append(q, c)>>)
        BY <3>1, Verbatim
      <4>2. so \o <<c>> = Append(so, c) /\ ShellReads(Append(so, c)) = ReadCharacter(ShellReads(so), c)
        BY <2>1, ThenOne
      <4>3. Piece(c) = <<c>>
        BY <3>1 DEF Piece
      <4> QED BY <2>2, <4>1, <4>2, <4>3
    <3>2. CASE c = Quote
      <4> DEFINE l1 == Append(so, Quote)
                 l2 == Append(l1, Backslash)
                 l3 == Append(l2, Quote)
                 l4 == Append(l3, Quote)
      <4>1. so \o Piece(c) = l4
        <5>1. so \in Seq(Character) /\ Quote \in Character /\ Backslash \in Character
          BY <2>1, Characters DEF Texts
        <5>2. so \o <<Quote, Backslash, Quote, Quote>> = l4
          BY <5>1, FourElements
        <5>3. Piece(c) = <<Quote, Backslash, Quote, Quote>>
          BY <3>2 DEF Piece
        <5> QED BY <5>2, <5>3
      <4>2. l1 \in Texts /\ ShellReads(l1) = Reading("outside", w, <<q>>)
        <5>1. l1 \in Texts /\ ShellReads(l1) = ReadCharacter(ShellReads(so), Quote)
          BY <2>1, ThenOne, Characters
        <5> QED BY <2>2, <5>1, InQuotes
      <4> HIDE DEF l1
      <4>3. l2 \in Texts /\ ShellReads(l2) = Reading("escaped", w, <<q>>)
        <5>1. l2 \in Texts /\ ShellReads(l2) = ReadCharacter(ShellReads(l1), Backslash)
          BY <4>2, ThenOne, Characters
        <5> QED BY <4>2, <5>1, InQuotes
      <4> HIDE DEF l2
      <4>4. l3 \in Texts /\ ShellReads(l3) = Reading("outside", w, <<Append(q, Quote)>>)
        <5>1. l3 \in Texts /\ ShellReads(l3) = ReadCharacter(ShellReads(l2), Quote)
          BY <4>3, ThenOne, Characters
        <5>2. ReadCharacter(Reading("escaped", w, <<q>>), Quote) = Reading("outside", w, <<Append(q, Quote)>>)
          BY Verbatim
        <5> QED BY <4>3, <5>1, <5>2
      <4> HIDE DEF l3
      <4>5. ShellReads(l4) = Reading("quoted", w, <<Append(q, Quote)>>)
        <5>1. ShellReads(l4) = ReadCharacter(ShellReads(l3), Quote)
          BY <4>4, ThenOne, Characters
        <5>2. \A r : ReadCharacter(Reading("outside", w, <<r>>), Quote) = Reading("quoted", w, <<r>>)
          BY InQuotes
        <5> QED BY <4>4, <5>1, <5>2
      <4> QED BY <3>2, <4>1, <4>5
    <3> QED BY <3>1, <3>2
  <2>4. ShellReads(line \o Replaced(longer)) = Reading("quoted", w, <<p \o longer>>)
    BY <2>1, <2>3
  <2> QED BY <2>1, <2>4 DEF longer
<1>3. Texts \subseteq T
  <2> HIDE DEF T
  <2> QED BY <1>1, <1>2, SequenceInduction DEF Texts
<1> QED BY <1>3

(* The same from the quote that opens it.                                  *)
LEMMA QuoteIsRead ==
  ASSUME NEW line \in Texts, NEW w, ShellReads(line) = Reading("quoted", w, << <<>> >>)
  PROVE  \A text \in Texts : ShellReads(line \o Replaced(text)) = Reading("quoted", w, <<text>>)
<1>1. <<>> \in Texts /\ \A text \in Texts : <<>> \o text = text
  BY EmptySeq, ConcatEmptySeq DEF Texts
<1>2. ASSUME NEW p, p \in Texts, ShellReads(line) = Reading("quoted", w, <<p>>)
      PROVE  \A text \in Texts : ShellReads(line \o Replaced(text)) = Reading("quoted", w, <<p \o text>>)
  BY <1>2, QuotedIsRead
<1>3. \A text \in Texts : ShellReads(line \o Replaced(text)) = Reading("quoted", w, << <<>> \o text >>)
  BY <1>1, <1>2
<1> QED BY <1>1, <1>3

(* A safe text is read as it is, outside of quotes.                        *)
LEMMA SafeIsRead ==
  ASSUME NEW line \in Texts, NEW w,
         ShellReads(line) = Reading("outside", w, <<>>)
  PROVE  \A text \in Seq(Safe) : text # <<>> => ShellReads(line \o text) = Reading("outside", w, <<text>>)
<1> DEFINE T == {text \in Seq(Safe) : text # <<>> => ShellReads(line \o text) = Reading("outside", w, <<text>>)}
<1>1. <<>> \in T
  BY EmptySeq
<1>2. ASSUME NEW text \in Seq(Safe), NEW c \in Safe, text \in T PROVE Append(text, c) \in T
  <2> DEFINE so == line \o text
             longer == Append(text, c)
             open == IF text = <<>> THEN <<>> ELSE <<text>>
  <2>1. text \in Texts /\ c \in Character /\ <<c>> \in Texts
    <3>1. c \in Character
      BY Characters
    <3>2. text \in Texts
      BY Characters, SeqMonotonic DEF Texts
    <3> QED BY <3>1, <3>2, OneElement DEF Texts
  <2>2. so \in Texts /\ longer \in Seq(Safe) /\ line \o longer = Append(so, c)
    <3>1. so \in Texts
      BY <2>1, Joined
    <3>2. longer = text \o <<c>> /\ so \o <<c>> = Append(so, c)
      BY <2>1, <3>1, ThenOne
    <3>3. line \o (text \o <<c>>) = so \o <<c>>
      BY <2>1, Associative
    <3> QED BY <3>1, <3>2, <3>3, AppendProperties
  <2>3. ShellReads(so) = Reading("outside", w, open)
    <3>1. CASE text = <<>>
      <4>1. line \o <<>> = line
        BY ConcatEmptySeq DEF Texts
      <4> QED BY <3>1, <4>1
    <3>2. CASE text # <<>>
      BY <1>2, <3>2
    <3> QED BY <3>1, <3>2
  <2>4. WordOf(open) = text
    BY DEF WordOf
  <2> HIDE DEF open, so, longer
  <2>5. ShellReads(Append(so, c)) = Reading("outside", w, <<longer>>)
    <3>1. ShellReads(Append(so, c)) = ReadCharacter(ShellReads(so), c)
      BY <2>1, <2>2, ThenOne
    <3>2. ReadCharacter(Reading("outside", w, open), c) = Reading("outside", w, <<Append(WordOf(open), c)>>)
      BY OutsideQuotes
    <3> QED BY <2>3, <2>4, <3>1, <3>2 DEF longer
  <2>6. ShellReads(line \o longer) = Reading("outside", w, <<longer>>)
    BY <2>2, <2>5
  <2> QED BY <2>2, <2>6 DEF longer
<1>3. Seq(Safe) \subseteq T
  <2> HIDE DEF T
  <2> QED BY <1>1, <1>2, SequenceInduction
<1> QED BY <1>3

(* OneElement argument, however it is written, is read as one word.               *)
LEMMA ArgumentIsRead ==
  ASSUME NEW line \in Texts, NEW w, NEW text \in Texts,
         ShellReads(line) = Reading("outside", w, <<>>)
  PROVE  /\ format_argument(text) \in Texts
         /\ ShellReads(line \o format_argument(text)) = Reading("outside", w, <<text>>)
<1>1. CASE text # <<>> /\ Range(text) \subseteq Safe
  <2>1. text \in Seq(Safe)
    <3>1. /\ Len(text) \in Nat /\ DOMAIN text = 1..Len(text)
          /\ text \in [1..Len(text) -> Character]
      BY LenProperties DEF Texts
    <3>2. \A i \in 1..Len(text) : text[i] \in Safe
      BY <1>1, <3>1 DEF Range
    <3>3. text \in [1..Len(text) -> Safe]
      BY <3>1, <3>2
    <3> QED BY <3>1, <3>3, SeqDef
  <2> QED BY <1>1, <2>1, SafeIsRead DEF format_argument
<1>2. CASE ~(text # <<>> /\ Range(text) \subseteq Safe)
  <2> DEFINE l1 == Append(line, Quote)
             l2 == l1 \o Replaced(text)
             q == <<Quote>>
  <2>1. /\ Quote \in Character /\ q \in Texts /\ Replaced(text) \in Texts
        /\ <<>> \in Texts
    BY Characters, OneElement, ReplacedSteps, EmptySeq DEF Texts
  <2>2. l1 \in Texts /\ l1 = line \o q /\ ShellReads(l1) = Reading("quoted", w, << <<>> >>)
    <3>1. l1 \in Texts /\ l1 = line \o q /\ ShellReads(l1) = ReadCharacter(ShellReads(line), Quote)
      BY <2>1, ThenOne
    <3>2. ReadCharacter(Reading("outside", w, <<>>), Quote) = Reading("quoted", w, <<WordOf(<<>>)>>)
      BY OutsideQuotes
    <3>3. WordOf(<<>>) = <<>>
      BY DEF WordOf
    <3> QED BY <3>1, <3>2, <3>3
  <2> HIDE DEF l1
  <2>3. l2 \in Texts /\ ShellReads(l2) = Reading("quoted", w, <<text>>)
    <3>1. l2 \in Texts
      BY <2>1, <2>2, Joined
    <3>2. ShellReads(l2) = Reading("quoted", w, <<text>>)
      BY <2>2, QuoteIsRead
    <3> QED BY <3>1, <3>2
  <2> HIDE DEF l2
  <2>4. ShellReads(l2 \o q) = Reading("outside", w, <<text>>)
    <3>1. l2 \o q = Append(l2, Quote) /\ ShellReads(Append(l2, Quote)) = ReadCharacter(ShellReads(l2), Quote)
      BY <2>1, <2>3, ThenOne
    <3> QED BY <2>3, <3>1, InQuotes
  <2>5. line \o Quoted(text) = l2 \o q /\ Quoted(text) \in Texts
    <3> DEFINE r == Replaced(text)
    <3>1. r \in Texts
      BY <2>1
    <3>2. Quoted(text) = (q \o r) \o q
      BY DEF Quoted
    <3> HIDE DEF r, q
    <3>3. q \o r \in Texts /\ line \o q \in Texts
      BY <2>1, <3>1, Joined
    <3>4. (q \o r) \o q \in Texts
      BY <2>1, <3>3, Joined
    <3>5. line \o ((q \o r) \o q) = (line \o (q \o r)) \o q
      BY <2>1, <3>3, Associative
    <3>6. line \o (q \o r) = (line \o q) \o r
      BY <2>1, <3>1, Associative
    <3> QED BY <2>2, <3>2, <3>4, <3>5, <3>6 DEF l2, r
  <2>6. format_argument(text) = Quoted(text)
    BY <1>2 DEF format_argument
  <2> QED BY <2>4, <2>5, <2>6
<1> QED BY <1>1, <1>2

(* format_command writes one argument after another.                       *)
LEMMA ArgumentByArgument ==
  ASSUME NEW list \in Seq(Texts), NEW text \in Texts
  PROVE  /\ format_command(list) \in Texts
         /\ format_command(Append(list, text)) = format_command(list) \o
              (IF list = <<>> THEN format_argument(text) ELSE <<" ">> \o format_argument(text))
<1> DEFINE Written(l, i) == IF i = 1 THEN format_argument(l[i]) ELSE <<" ">> \o format_argument(l[i])
           pieces(l) == [i \in DOMAIN l |-> Written(l, i)]
           n == Len(list)
           longer == Append(list, text)
<1>1. \A l : format_command(l) = FlattenSeq(pieces(l))
  BY DEF format_command
<1>2. \A t \in Texts : format_argument(t) \in Texts /\ <<" ">> \o format_argument(t) \in Texts
  <2>1. ASSUME NEW t \in Texts PROVE format_argument(t) \in Texts
    <3>1. <<Quote>> \in Texts /\ Replaced(t) \in Texts
      BY Characters, OneElement, ReplacedSteps DEF Texts
    <3>2. Quoted(t) \in Texts
      BY <3>1, Joined DEF Quoted
    <3> QED BY <3>2 DEF format_argument
  <2>2. <<" ">> \in Texts
    BY Characters, OneElement DEF Texts
  <2> QED BY <2>1, <2>2, Joined
<1>3. ASSUME NEW l \in Seq(Texts) PROVE pieces(l) \in Seq(Texts) /\ Len(pieces(l)) = Len(l)
  <2>1. Len(l) \in Nat /\ DOMAIN l = 1..Len(l) /\ \A i \in 1..Len(l) : l[i] \in Texts
    BY LenProperties, ElementOfSeq
  <2>2. \A i \in 1..Len(l) : Written(l, i) \in Texts
    BY <1>2, <2>1
  <2> HIDE DEF Written
  <2>3. pieces(l) \in [1..Len(l) -> Texts]
    BY <2>1, <2>2
  <2> QED BY <2>1, <2>3, SeqDef
<1>4. /\ longer \in Seq(Texts) /\ Len(longer) = n + 1 /\ n \in Nat
      /\ DOMAIN longer = 1..(n + 1) /\ DOMAIN list = 1..n
      /\ \A i \in 1..n : longer[i] = list[i]
      /\ longer[n + 1] = text
  BY AppendProperties, LenProperties
<1>5. /\ Written(longer, n + 1) \in Texts
      /\ Written(longer, n + 1) = IF list = <<>> THEN format_argument(text) ELSE <<" ">> \o format_argument(text)
  <2>1. n = 0 <=> list = <<>>
    BY EmptySeq
  <2>2. n + 1 = 1 <=> list = <<>>
    BY <1>4, <2>1
  <2>3. Written(longer, n + 1) = IF n + 1 = 1 THEN format_argument(text) ELSE <<" ">> \o format_argument(text)
    BY <1>4
  <2>4. format_argument(text) \in Texts /\ <<" ">> \o format_argument(text) \in Texts
    BY <1>2
  <2> HIDE DEF Written, longer, n
  <2> QED BY <2>2, <2>3, <2>4
<1>6. pieces(longer) = Append(pieces(list), Written(longer, n + 1))
  <2> DEFINE last == Written(longer, n + 1)
  <2>1. \A i \in 1..n : Written(longer, i) = Written(list, i)
    BY <1>4
  <2> HIDE DEF Written
  <2>2. \A i \in 1..n : pieces(longer)[i] = pieces(list)[i]
    BY <1>4, <2>1
  <2>3. pieces(longer)[n + 1] = last
    BY <1>4
  <2>4. /\ pieces(list) \in Seq(Texts) /\ Len(pieces(list)) = n
        /\ pieces(longer) \in Seq(Texts) /\ Len(pieces(longer)) = n + 1
    BY <1>3, <1>4
  <2> HIDE DEF pieces, last, longer, n
  <2>5. /\ Append(pieces(list), last) \in Seq(Texts) /\ Len(Append(pieces(list), last)) = n + 1
        /\ \A i \in 1..n : Append(pieces(list), last)[i] = pieces(list)[i]
        /\ Append(pieces(list), last)[n + 1] = last
    <3> DEFINE r == pieces(list)
    <3> HIDE DEF r
    <3>1. r \in Seq(Texts) /\ Len(r) = n /\ last \in Texts
      BY <1>5, <2>4 DEF r, last
    <3>2. /\ Append(r, last) \in Seq(Texts) /\ Len(Append(r, last)) = Len(r) + 1
          /\ \A i \in 1..Len(r) : Append(r, last)[i] = r[i]
          /\ Append(r, last)[Len(r) + 1] = last
      BY <3>1, AppendProperties
    <3> QED BY <3>1, <3>2 DEF r
  <2>6. \A i \in 1..(n + 1) : pieces(longer)[i] = Append(pieces(list), last)[i]
    BY <1>4, <2>2, <2>3, <2>5
  <2>7. pieces(longer) = Append(pieces(list), last)
    BY <2>4, <2>5, <2>6, SeqEqual
  <2> QED BY <2>7 DEF last
<1> HIDE DEF Written, pieces, longer
<1>7. FlattenSeq(Append(pieces(list), Written(longer, n + 1))) = FlattenSeq(pieces(list)) \o Written(longer, n + 1)
  BY <1>3, <1>5, FlattenStep DEF Texts
<1>8. FlattenSeq(pieces(list)) \in Texts
  BY <1>3, FlattenIsTyped DEF Texts
<1> QED BY <1>1, <1>5, <1>6, <1>7, <1>8 DEF longer

(* What the shell is in the middle of after the line of `list'.            *)
ReadSoFar(list) ==
  \/ list = <<>> /\ ShellReads(format_command(list)) = Reading("outside", <<>>, <<>>)
  \/ \E before \in Seq(Texts), last \in Texts :
       /\ list = Append(before, last)
       /\ ShellReads(format_command(list)) = Reading("outside", before, <<last>>)

(* By induction on the list: a space ends the word before the next one.    *)
LEMMA CommandIsRead == \A list \in Seq(Texts) : ReadSoFar(list)
<1> DEFINE T == {list \in Seq(Texts) : ReadSoFar(list)}
<1>1. <<>> \in T
  <2>1. DOMAIN <<>> = {} /\ <<>> \in Seq(Texts)
    BY EmptySeq
  <2>2. format_command(<<>>) = <<>>
    <3>1. format_command(<<>>) = FlattenSeq(<<>>)
      BY <2>1 DEF format_command
    <3> QED BY <3>1, FlattenStart
  <2>3. ShellReads(<<>>) = Reading("outside", <<>>, <<>>)
    BY ShellStart DEF NothingRead, Reading
  <2> QED BY <2>1, <2>2, <2>3 DEF ReadSoFar
<1>2. ASSUME NEW list \in Seq(Texts), NEW text \in Texts, list \in T PROVE Append(list, text) \in T
  <2> DEFINE line == format_command(list)
             written == format_argument(text)
             longer == Append(list, text)
  <2>1. longer \in Seq(Texts) /\ line \in Texts
    BY AppendProperties, ArgumentByArgument
  <2>2. ShellReads(format_command(longer)) = Reading("outside", list, <<text>>)
    <3>1. CASE list = <<>>
      <4>1. longer # <<>> /\ ShellReads(line) = Reading("outside", list, <<>>)
        <5>1. \A before \in Seq(Texts), last \in Texts : <<>> # Append(before, last)
          BY AppendProperties, EmptySeq
        <5> QED BY <1>2, <3>1, <5>1 DEF ReadSoFar
      <4>2. format_command(longer) = line \o written
        BY <3>1, ArgumentByArgument
      <4> HIDE DEF line, written, longer
      <4>3. ShellReads(line \o written) = Reading("outside", list, <<text>>)
        BY <2>1, <4>1, ArgumentIsRead DEF written
      <4> QED BY <4>2, <4>3
    <3>2. CASE list # <<>>
      <4>1. PICK before \in Seq(Texts), last \in Texts :
              /\ list = Append(before, last)
              /\ ShellReads(line) = Reading("outside", before, <<last>>)
        BY <1>2, <3>2 DEF ReadSoFar
      <4> DEFINE space == <<" ">>
                 between == Append(line, " ")
      <4>2. /\ between \in Texts /\ between = line \o space
            /\ ShellReads(between) = ReadCharacter(ShellReads(line), " ")
        BY <2>1, Characters, ThenOne
      <4>3. ReadCharacter(Reading("outside", before, <<last>>), " ") = Reading("outside", before \o <<last>>, <<>>)
        BY OutsideQuotes
      <4>4. before \o <<last>> = list
        BY <4>1, OneElement
      <4>5. format_command(longer) = line \o (space \o written)
        BY <3>2, ArgumentByArgument
      <4>6. space \in Texts
        BY Characters, OneElement DEF Texts
      <4> HIDE DEF line, written, longer, between, space
      <4>7. ShellReads(between) = Reading("outside", list, <<>>)
        BY <4>1, <4>2, <4>3, <4>4
      <4>8. written \in Texts /\ ShellReads(between \o written) = Reading("outside", list, <<text>>)
        BY <4>2, <4>7, ArgumentIsRead DEF written
      <4>9. line \o (space \o written) = (line \o space) \o written
        BY <2>1, <4>6, <4>8, Associative
      <4> QED BY <4>2, <4>5, <4>8, <4>9
    <3> QED BY <3>1, <3>2
  <2> HIDE DEF line, written
  <2> QED BY <2>1, <2>2 DEF ReadSoFar
<1>3. Seq(Texts) \subseteq T
  <2> HIDE DEF T
  <2> QED BY <1>1, <1>2, SequenceInduction
<1> QED BY <1>3

(* CommandReadsBack, for every command line: whatever its arguments, also  *)
(* empty ones, quotes, blanks and what a shell would expand.               *)
THEOREM ReadsBack ==
  ASSUME arguments \in Seq(Seq(Character))
  PROVE  CommandReadsBack
<1> DEFINE reader == ShellReads(format_command(arguments))
<1>1. arguments \in Seq(Texts)
  BY DEF Texts
<1>2. ReadSoFar(arguments)
  BY <1>1, CommandIsRead
<1>3. /\ reader.plain /\ reader.mode = "outside" /\ reader.words \o reader.open = arguments
  <2>1. CASE arguments = <<>> /\ reader = Reading("outside", <<>>, <<>>)
    <3>1. <<>> \o <<>> = <<>>
      BY EmptySeq, ConcatEmptySeq
    <3> QED BY <2>1, <3>1 DEF Reading
  <2>2. ASSUME NEW before \in Seq(Texts), NEW last \in Texts,
               arguments = Append(before, last), reader = Reading("outside", before, <<last>>)
        PROVE  reader.plain /\ reader.mode = "outside" /\ reader.words \o reader.open = arguments
    <3>1. before \o <<last>> = arguments
      BY <2>2, OneElement
    <3> QED BY <2>2, <3>1 DEF Reading
  <2> QED BY <1>2, <2>1, <2>2 DEF ReadSoFar
<1> QED BY <1>3 DEF CommandReadsBack
=============================================================================
