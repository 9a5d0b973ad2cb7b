----------------------------- MODULE Formatting -----------------------------
(***************************************************************************)
(* The command line and the duration at the head of the report             *)
(* (src/src/formatting.rs): format_command, which quotes arguments for a   *)
(* POSIX shell, and format_duration.  A text is a sequence of characters,  *)
(* one for each kind that the code or a shell tells apart.  Arguments that *)
(* are not UTF-8 are left out: to_string_lossy changes them.               *)
(***************************************************************************)
EXTENDS Integers, SequencesExt

CONSTANTS SomeArguments,  \* lists of texts
          SomeDurations   \* numbers of milliseconds
VARIABLES arguments,      \* ExecutionReport.command and its arguments
          elapsed         \* ExecutionReport.elapsed

Safe == {"a", "."}                     \* ascii_alphanumeric and "._/:=+-"
Quote == "'"
Backslash == "\\"
Blanks == {" ", "newline"}
Character == Safe \cup Blanks \cup {Quote, Backslash, "$"}

ASSUME FormattingAssumption ==
  /\ \A list \in SomeArguments : \A text \in Range(list) : Range(text) \subseteq Character
  /\ SomeDurations \subseteq Nat

-----------------------------------------------------------------------------
(* format_command.                                                         *)

(* text.replace('\'', "'\\''")                                             *)
Replaced(text) ==
  FlattenSeq([i \in DOMAIN text |->
    IF text[i] = Quote THEN <<Quote, Backslash, Quote, Quote>> ELSE <<text[i]>>])

Quoted(text) == <<Quote>> \o Replaced(text) \o <<Quote>>

format_argument_if_safe(text) ==   \* mutant: is_empty is left out
  IF Range(text) \subseteq Safe THEN text ELSE Quoted(text)

format_argument(text) ==
  IF text # <<>> /\ Range(text) \subseteq Safe THEN text ELSE Quoted(text)

format_command(list) ==
  FlattenSeq([i \in DOMAIN list |->
    IF i = 1 THEN format_argument(list[i]) ELSE <<" ">> \o format_argument(list[i])])

(* How a POSIX shell reads a line: `open' holds the word it is in, as a    *)
(* sequence of one, and `plain' is FALSE once something would be expanded. *)
ReadCharacter(reader, c) ==
  LET word == IF reader.open = <<>> THEN <<>> ELSE reader.open[1]
      within == [reader EXCEPT !.open = <<Append(word, c)>>]
  IN CASE reader.mode = "escaped" -> [within EXCEPT !.mode = "outside"]
       [] reader.mode = "quoted" ->
            IF c = Quote THEN [reader EXCEPT !.mode = "outside"] ELSE within
       [] reader.mode = "outside" ->
            IF c = Quote THEN [reader EXCEPT !.mode = "quoted", !.open = <<word>>]
            ELSE IF c = Backslash THEN [reader EXCEPT !.mode = "escaped", !.open = <<word>>]
            ELSE IF c \in Blanks
            THEN [reader EXCEPT !.words = @ \o reader.open, !.open = <<>>,
                                !.plain = @ /\ c # "newline"]
            ELSE [within EXCEPT !.plain = @ /\ c \in Safe]

ShellReads(line) ==
  FoldLeft(ReadCharacter, [mode |-> "outside", words |-> <<>>, open |-> <<>>, plain |-> TRUE], line)

-----------------------------------------------------------------------------
(* format_duration.                                                        *)

(* "{:.1}" of a number of seconds: the tenths nearest to it.  Which of two *)
(* it takes depends on what is left of the last millisecond.               *)
Tenths(milliseconds) == {n \in {milliseconds \div 100, milliseconds \div 100 + 1} :
  100 * n - 50 <= milliseconds /\ milliseconds <= 100 * n + 50}

Seconds(minutes, seconds) == [unit |-> "min", minutes |-> minutes, seconds |-> seconds]

format_within_the_hour(milliseconds) ==   \* mutant: hours are dropped
  {Seconds((milliseconds \div 60000) % 60, (milliseconds \div 1000) % 60)}

format_minutes(milliseconds) ==
  {Seconds(milliseconds \div 60000, (milliseconds \div 1000) % 60)}

format_duration(milliseconds) ==
  IF milliseconds < 1000 THEN {[unit |-> "ms", milliseconds |-> milliseconds]}
  ELSE IF milliseconds < 60000 THEN {[unit |-> "s", tenths |-> n] : n \in Tenths(milliseconds)}
  ELSE format_minutes(milliseconds)

(* The milliseconds that such a text stands for.                           *)
Meaning(text) ==
  CASE text.unit = "ms" -> text.milliseconds
    [] text.unit = "s" -> 100 * text.tenths
    [] text.unit = "min" -> 60000 * text.minutes + 1000 * text.seconds

-----------------------------------------------------------------------------
(* Properties.                                                             *)

(* src/README.md:7: the report includes the command.  A shell that reads   *)
(* its line gets exactly the arguments that were run, none lost, split or  *)
(* expanded.                                                               *)
CommandReadsBack ==
  LET reader == ShellReads(format_command(arguments)) IN
    reader.plain /\ reader.mode = "outside" /\ reader.words \o reader.open = arguments

(* A longer command never looks shorter than another, also where the text  *)
(* changes its unit: just below a minute it is rounded to "60.0 s".        *)
LongerLooksLonger ==
  \A shorter \in format_duration(elapsed), longer \in format_duration(elapsed + 1) :
    Meaning(shorter) <= Meaning(longer)
=============================================================================
