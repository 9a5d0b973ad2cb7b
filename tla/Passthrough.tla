----------------------------- MODULE Passthrough -----------------------------
(***************************************************************************)
(* What RunLens promises as a wrapper (src/README.md: "The wrapped         *)
(* command's exit status is returned. A launch failure is reported         *)
(* separately"), without signals, polling or reports: the command runs at  *)
(* most once, and RunLens ends with the status that the command ended with.*)
(***************************************************************************)
CONSTANTS Statuses,          \* the ways a process can end
          NotLaunched(_),    \* how RunLens may end when there is no command
          PassedOn(_, _, _), \* may the second stand for the first, under faults?
          Faults, None       \* what may be wrong around RunLens; not ended yet

VARIABLES faults,   \* what is wrong around RunLens
          command,  \* "none", "running" or "ended"
          status,   \* how the command ended, None before
          outcome   \* how RunLens ended, None before

vars == <<faults, command, status, outcome>>

Init == faults \in SUBSET Faults /\ command = "none" /\ status = None /\ outcome = None

Launch ==
  /\ command = "none" /\ outcome = None
  /\ command' = "running"
  /\ UNCHANGED <<status, outcome>>

GiveUp ==
  /\ command = "none" /\ outcome = None
  /\ outcome' \in NotLaunched(faults)
  /\ UNCHANGED <<command, status>>

CommandEnds ==
  /\ command = "running"
  /\ command' = "ended"
  /\ status' \in Statuses
  /\ UNCHANGED outcome

PassOn ==
  /\ command = "ended" /\ outcome = None
  /\ outcome' \in {s \in Statuses : PassedOn(status, s, faults)}
  /\ UNCHANGED <<command, status>>

Next == UNCHANGED faults /\ (Launch \/ GiveUp \/ CommandEnds \/ PassOn)

Safety == Init /\ [][Next]_vars

Spec == Safety /\ WF_vars(PassOn /\ UNCHANGED faults)
=============================================================================
