---------------------------- MODULE MCSupervisor ----------------------------
(* Instances of Supervisor, and of the texts that main prints, for TLC.    *)
EXTENDS Supervisor, Formatting

ShortCommands ==
  {<<text>> : text \in SeqOf(Character, 3)}
    \cup {<<text, next>> : text, next \in SeqOf(Character, 2)}

(* Around a second, a minute, two minutes and an hour.                     *)
Boundaries == (900..1100) \cup (59900..60100) \cup (119900..120100) \cup (3599900..3600100)

(* The texts do not matter to the steps of main: each is looked at in an   *)
(* initial state, and one in all others.                                   *)
MCInit ==
  /\ Init
  /\ \/ arguments \in SomeArguments /\ elapsed = 0
     \/ arguments = <<>> /\ elapsed \in SomeDurations
MCNext == Next /\ arguments' = <<>> /\ elapsed' = 0
MCSpec == MCInit /\ [][MCNext]_<<vars, arguments, elapsed>> /\ WF_vars(Main)
=============================================================================
