----------------------------- MODULE StepCommand -----------------------------
(***************************************************************************)
(* A docker command with live output: runBufferedStepCmd of                *)
(* src/cli/docker_utils/docker.go and LiveStep of src/cli/logger/logger.go.*)
(*                                                                         *)
(* The command writes into a pipe of bounded size, which a line scanner    *)
(* empties; the step shows the last line under its title, replaces both by *)
(* the result, and after a failure prints the end of the log.  The scanner *)
(* gives up at a line that does not fit its buffer, and its error is       *)
(* dropped.  A byte is "c", part of a line, or "nl"; every line takes one  *)
(* row of the terminal.  The steps of a deployment follow one another      *)
(* until one fails.                                                        *)
(***************************************************************************)
EXTENDS Integers, FiniteSets, SequencesExt

CONSTANTS
  PipeSize,    \* what the pipe holds
  MaxToken,    \* bufio.MaxScanTokenSize, the scanner's buffer
  MaxLogs,     \* lines of the log that dumpLogs prints, 40
  MaxBytes,    \* bound on what a command writes
  MaxSteps     \* bound on the steps of a deployment

ASSUME StepAssumption ==
  /\ {PipeSize, MaxToken, MaxLogs, MaxSteps} \subseteq Nat \ {0}
  /\ MaxBytes \in Nat

VARIABLES
  pc,        \* where the CLI is
  step,      \* the number of the step
  out,       \* all that the command of the step writes, and of it:
  wrote,     \* how much it has written,
  read,      \* and how much the scanner has taken
  held,      \* the bytes of an unfinished line in the scanner's buffer
  child,     \* the command: running, or how it exited
  lines,     \* LiveStep.Lines, by their numbers in out
  active,    \* LiveStep.ActiveLines
  screen     \* the rows of the terminal

command == <<out, wrote, read, held, child>>
vars == <<pc, step, command, lines, active, screen>>

Row(kind, line) == [kind |-> kind, step |-> step, line |-> line]

LineOf(k) == 1 + Cardinality({j \in 1..(k - 1) : out[j] = "nl"})

Init ==
  /\ pc = "idle" /\ step = 0
  /\ out = <<>> /\ wrote = 0 /\ read = 0 /\ held = 0 /\ child = "none"
  /\ lines = <<>> /\ active = 0 /\ screen = <<>>

\* clearActiveLines, and then any n rows more.
Cleared(n) == SubSeq(screen, 1, Len(screen) - active - n)

StartStep ==
  /\ pc = "idle" /\ step < MaxSteps
  /\ step' = step + 1
  /\ screen' = Append(screen, [kind |-> "title", step |-> step', line |-> 0])
  /\ lines' = <<>> /\ active' = 0
  /\ pc' = "starting"
  /\ UNCHANGED command

\* Mutation: Wait is called at once.
StartWithoutScan ==
  /\ pc = "starting"
  /\ \E bytes \in BoundedSeq({"c", "nl"}, MaxBytes) : out' = bytes
  /\ child' = "running" /\ pc' = "waiting"
  /\ wrote' = 0 /\ read' = 0 /\ held' = 0
  /\ UNCHANGED <<step, lines, active, screen>>

\* The command starts, or cannot be started.
StartChild ==
  /\ pc = "starting"
  /\ wrote' = 0 /\ read' = 0 /\ held' = 0
  /\ \/ /\ \E bytes \in BoundedSeq({"c", "nl"}, MaxBytes) : out' = bytes
        /\ child' = "running" /\ pc' = "scanning"
     \/ out' = <<>> /\ child' = "none" /\ pc' = "failed"
  /\ UNCHANGED <<step, lines, active, screen>>

\* A write waits until there is room in the pipe.
Write ==
  /\ child = "running" /\ wrote < Len(out)
  /\ wrote - read < PipeSize
  /\ wrote' = wrote + 1
  /\ UNCHANGED <<pc, step, out, read, held, child, lines, active, screen>>

Exit ==
  /\ child = "running" /\ wrote = Len(out)
  /\ child' \in {"ok", "error"}
  /\ UNCHANGED <<pc, step, out, wrote, read, held, lines, active, screen>>

\* UpdateStream: a line that is blank is dropped.
UpdateStream(n) ==
  IF held = 0 THEN UNCHANGED <<lines, active, screen>>
  ELSE /\ lines' = Append(lines, n)
       /\ screen' = Append(Cleared(0), Row("stream", n))
       /\ active' = 1

\* One byte; a full buffer without the end of a line stops the scanner.
Scan ==
  /\ pc = "scanning" /\ read < wrote
  /\ read' = read + 1
  /\ \/ /\ out[read'] = "nl"
        /\ UpdateStream(LineOf(read'))
        /\ held' = 0 /\ UNCHANGED pc
     \/ /\ out[read'] = "c"
        /\ held' = held + 1
        /\ pc' = IF held' = MaxToken THEN "waiting" ELSE "scanning"
        /\ UNCHANGED <<lines, active, screen>>
  /\ UNCHANGED <<step, out, wrote, child>>

Drained == pc = "scanning" /\ read = wrote /\ child # "running"

\* Mutation: a last line without an end is not seen.
EofDropsRest ==
  /\ Drained
  /\ held' = 0 /\ pc' = "waiting"
  /\ UNCHANGED <<step, out, wrote, read, child, lines, active, screen>>

\* The end of the pipe ends the last line.
Eof ==
  /\ Drained
  /\ UpdateStream(LineOf(read))
  /\ held' = 0 /\ pc' = "waiting"
  /\ UNCHANGED <<step, out, wrote, read, child>>

Wait ==
  /\ pc = "waiting" /\ child # "running"
  /\ pc' = IF child = "ok" THEN "succeeded" ELSE "failed"
  /\ UNCHANGED <<step, command, lines, active, screen>>

\* Mutation: only the row above is replaced.
FinishOverStream ==
  /\ pc = "succeeded"
  /\ screen' = Append(SubSeq(screen, 1, Len(screen) - 1), Row("result", 0))
  /\ active' = 0 /\ pc' = "idle"
  /\ UNCHANGED <<step, command, lines>>

FinishSuccess ==
  /\ pc = "succeeded"
  /\ screen' = Append(Cleared(1), Row("result", 0))
  /\ active' = 0 /\ pc' = "idle"
  /\ UNCHANGED <<step, command, lines>>

\* The last lines of s, MaxLogs at most.
Latest(s) == SubSeq(s, IF Len(s) > MaxLogs THEN Len(s) - MaxLogs + 1 ELSE 1, Len(s))

dumpLogs ==
  LET shown == Latest(lines)
  IN [k \in 1..Len(shown) |-> Row("log", shown[k])]

\* An error ends the deployment.
FinishError ==
  /\ pc = "failed"
  /\ screen' = Append(Cleared(1), Row("result", 0)) \o dumpLogs
  /\ active' = 0 /\ pc' = "ended"
  /\ UNCHANGED <<step, command, lines>>

Next == \/ StartStep \/ StartChild \/ Write \/ Exit \/ Scan \/ Eof \/ Wait
        \/ FinishSuccess \/ FinishError

Spec == Init /\ [][Next]_vars

\* A command that can write or exit does so, and the CLI goes on.
FairSpec ==
  /\ Spec
  /\ WF_vars(Write \/ Exit)
  /\ WF_vars(Scan \/ Eof \/ Wait \/ FinishSuccess \/ FinishError)

(***************************************************************************)
(* Correctness.                                                            *)
(***************************************************************************)

\* The bytes of its line up to k, and where the scanner gives up.
Filled(k) == Cardinality({j \in 1..k : out[j] = "c" /\ LineOf(j) = LineOf(k)})
TooLong == {k \in 1..Len(out) : out[k] = "c" /\ Filled(k) >= MaxToken}

\* The lines that are not blank.
Said == {LineOf(k) : k \in {j \in 1..Len(out) : out[j] = "c"}}

Running == pc \notin {"idle", "ended"}

\* One row of result per finished step, and the title of the running one.
Results == [k \in 1..(IF Running THEN step - 1 ELSE step) |->
              [kind |-> "result", step |-> k, line |-> 0]]
Titled  == Results \o (IF Running THEN <<Row("title", 0)>> ELSE <<>>)

\* Whatever the commands write, the rows that are erased are the step's own:
\* every finished step is left with one row of result, and the running one has
\* its title and under it its latest line; the log of the step that failed
\* comes after them.
ScreenFaithful ==
  IF pc = "ended"
  THEN /\ IsPrefix(Results, screen)
       /\ \A k \in (Len(Results) + 1)..Len(screen) : screen[k].kind = "log"
  ELSE screen = Titled \o (IF Running /\ lines # <<>> THEN <<Row("stream", Last(lines))>>
                                                     ELSE <<>>)

\* After a failure the log on the screen is the end of what the command wrote,
\* its last line included, ended or not; unless a line was too long.  What is
\* said and not shown is older than what is shown, which is as much as fits.
FailureShowsItsEnd ==
  (pc = "ended" /\ TooLong = {}) =>
    LET log   == SubSeq(screen, step + 1, Len(screen))
        shown == {log[k].line : k \in DOMAIN log}
    IN /\ \A j, k \in DOMAIN log : j < k => log[j].line < log[k].line
       /\ shown \subseteq Said
       /\ Len(log) <= MaxLogs
       /\ \A n \in Said \ shown : Len(log) = MaxLogs /\ \A m \in shown : n < m

\* A command that was started is waited for until it has exited, and its step
\* ends; unless it has more to write than the pipe holds after the scanner has
\* given up, when both wait for ever.
CommandReturns ==
  child = "running" ~>
    \/ pc \in {"idle", "ended"}
    \/ \E k \in TooLong : Len(out) - k > PipeSize
==============================================================================
