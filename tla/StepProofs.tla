------------------------------ MODULE StepProofs ------------------------------
(***************************************************************************)
(* Proofs about StepCommand, for every size of the pipe, of the scanner's  *)
(* buffer and of the log, and for every output of every command.           *)
(***************************************************************************)
EXTENDS StepCommand, SequenceTheorems, FiniteSetTheorems, TLAPS

(***************************************************************************)
(* The screen.                                                             *)
(***************************************************************************)
RowType == [kind : {"title", "stream", "result", "log"}, step : Nat, line : Nat]

Result(k) == [kind |-> "result", step |-> k, line |-> 0]

\* The steps that are finished.
Finished == IF Running THEN step - 1 ELSE step

\* What the CLI keeps: the one row it would erase is the latest line's.
CliTypes ==
  /\ pc \in {"idle", "starting", "scanning", "waiting", "succeeded", "failed", "ended"}
  /\ step \in Nat /\ (Running => step >= 1)
  /\ read \in Nat
  /\ lines \in Seq(Nat)
  /\ pc = "starting" => lines = <<>>
  /\ active = IF Running /\ lines # <<>> THEN 1 ELSE 0

\* The screen, row by row.
ScreenRows ==
  /\ screen \in Seq(RowType)
  /\ Len(screen) >= Finished
  /\ \A k \in 1..Finished : screen[k] = Result(k)
  /\ pc # "ended" => Len(screen) = (IF Running THEN step ELSE Finished) + active
  /\ Running => screen[step] = Row("title", 0)
  /\ active = 1 => screen[step + 1] = Row("stream", Last(lines))
  /\ pc = "ended" =>
       /\ Len(screen) = step + Len(Latest(lines))
       /\ \A k \in 1..Len(Latest(lines)) :
            screen[step + k] = Row("log", Latest(lines)[k])

\* A line has a number.
LEMMA LineNumbers == ASSUME NEW k \in Nat PROVE LineOf(k) \in Nat /\ LineOf(k) >= 1
<1> DEFINE Ends == {j \in 1..(k - 1) : out[j] = "nl"}
<1>1. IsFiniteSet(1..(k - 1))
  BY FS_Interval
<1>2. IsFiniteSet(Ends)
  BY <1>1, FS_Subset
<1>3. Cardinality(Ends) \in Nat
  BY <1>2, FS_CardinalityType
<1> QED BY <1>3 DEF LineOf

\* The lines of the log are a part of those that LiveStep keeps.
LEMMA LatestLines ==
  ASSUME NEW s \in Seq(Nat), StepAssumption
  PROVE  /\ Latest(s) \in Seq(Nat)
         /\ Len(Latest(s)) = IF Len(s) > MaxLogs THEN MaxLogs ELSE Len(s)
         /\ \A k \in 1..Len(Latest(s)) :
              Latest(s)[k] = s[Len(s) - Len(Latest(s)) + k]
<1> DEFINE m == IF Len(s) > MaxLogs THEN Len(s) - MaxLogs + 1 ELSE 1
<1>0. Len(s) \in Nat /\ MaxLogs \in Nat \ {0} BY DEF StepAssumption
<1>1. m \in 1..(Len(s) + 1) BY <1>0
<1>2. Latest(s) = SubSeq(s, m, Len(s)) BY DEF Latest
<1>4. Len(s) - m + 1 = IF Len(s) > MaxLogs THEN MaxLogs ELSE Len(s) BY <1>0
<1> HIDE DEF m
<1>3. /\ SubSeq(s, m, Len(s)) \in Seq(Nat)
      /\ Len(SubSeq(s, m, Len(s))) = Len(s) - m + 1
      /\ \A k \in 1..(Len(s) - m + 1) : SubSeq(s, m, Len(s))[k] = s[m + k - 1]
  BY <1>0, <1>1, SubSeqProperties
<1>5. Len(Latest(s)) = Len(s) - m + 1 BY <1>2, <1>3
<1>6. ASSUME NEW k \in 1..Len(Latest(s))
      PROVE  Latest(s)[k] = s[Len(s) - Len(Latest(s)) + k]
  <2>1. Latest(s)[k] = s[m + k - 1] BY <1>2, <1>3, <1>5
  <2>2. m + k - 1 = Len(s) - Len(Latest(s)) + k BY <1>0, <1>1, <1>5
  <2> QED BY <2>1, <2>2
<1> QED BY <1>2, <1>3, <1>4, <1>5, <1>6

(***************************************************************************)
(* The CLI draws: one step per action.                                     *)
(***************************************************************************)

\* What has been drawn of the screen: the rows of a step in progress and no
\* others are the ones that clearActiveLines and the result replace.
Drawn == CliTypes /\ ScreenRows

\* The rows that an UpdateStream leaves, if the line is not blank.
LEMMA StreamDrawn ==
  ASSUME NEW n \in Nat, Drawn, pc = "scanning", UpdateStream(n),
         pc' \in {"scanning", "waiting"}, step' = step, read' \in Nat
  PROVE  Drawn'
<1>1. CASE held = 0
  BY <1>1 DEF Drawn, CliTypes, ScreenRows, UpdateStream, Finished, Result, Running, Row,
              Latest
<1>2. CASE held # 0
  <2> DEFINE row == Row("stream", n)
  <2>1. /\ step \in Nat /\ step >= 1 /\ Finished = step - 1 /\ Running
        /\ active \in {0, 1} /\ Len(screen) = step + active
        /\ lines' = Append(lines, n) /\ active' = 1
        /\ screen' = Append(SubSeq(screen, 1, step), row)
    <3>1. /\ step \in Nat /\ step >= 1 /\ Finished = step - 1 /\ Running
          /\ active \in {0, 1} /\ Len(screen) = step + active
      BY DEF Drawn, CliTypes, ScreenRows, Finished, Running
    <3>2. Len(screen) - active - 0 = step
      BY <3>1
    <3> QED BY <1>2, <3>1, <3>2 DEF UpdateStream, Cleared
  <2>2. row \in RowType
    BY <2>1 DEF RowType, Row
  <2>3. /\ SubSeq(screen, 1, step) \in Seq(RowType)
        /\ Len(SubSeq(screen, 1, step)) = step
        /\ \A k \in 1..step : SubSeq(screen, 1, step)[k] = screen[k]
    <3>1. \A k \in 1..step : screen[k] \in RowType
      BY <2>1 DEF Drawn, ScreenRows
    <3> QED BY <2>1, <3>1, SubSeqProperties
  <2> HIDE DEF row
  <2>4. /\ screen' \in Seq(RowType) /\ Len(screen') = step + 1
        /\ \A k \in 1..step : screen'[k] = screen[k]
        /\ screen'[step + 1] = row
    BY <2>1, <2>2, <2>3, AppendProperties
  <2>5. /\ lines' \in Seq(Nat) /\ lines' # <<>> /\ Last(lines') = n
    <3>1. lines \in Seq(Nat)
      BY DEF Drawn, CliTypes
    <3> QED BY <2>1, <3>1, AppendProperties DEF Last
  <2>6. Running' /\ Finished' = Finished
    BY <2>1 DEF Running, Finished
  <2>7. CliTypes'
    BY <2>1, <2>5, <2>6 DEF Drawn, CliTypes
  <2>8. ScreenRows'
    <3>1. row = Row("stream", Last(lines))'
      BY <2>5 DEF row, Row
    <3>2. screen'[step] = Row("title", 0)'
      BY <2>1, <2>4 DEF Drawn, ScreenRows, Row
    <3>3. \A k \in 1..(step - 1) : screen'[k] = Result(k)
      BY <2>1, <2>4 DEF Drawn, ScreenRows
    <3>4. pc' # "ended" /\ Finished' = step - 1
      BY <2>1, <2>6
    <3>5. /\ Len(screen') >= Finished'
          /\ \A k \in 1..Finished' : screen'[k] = Result(k)'
      BY <2>1, <2>4, <3>3, <3>4 DEF Result
    <3>6. Len(screen') = step' + active'
      BY <2>1, <2>4
    <3>7. step' + 1 = step + 1
      OBVIOUS
    <3> QED BY <2>4, <2>6, <3>1, <3>2, <3>4, <3>5, <3>6, <3>7 DEF ScreenRows
  <2> QED BY <2>7, <2>8 DEF Drawn
<1> QED BY <1>1, <1>2

\* The one row above, the title, is replaced by the result of the step.
LEMMA ResultDrawn ==
  ASSUME Drawn, Running
  PROVE  LET shown == Append(Cleared(1), Row("result", 0))
         IN /\ shown \in Seq(RowType) /\ Len(shown) = step
            /\ \A k \in 1..step : shown[k] = Result(k)
<1> DEFINE base == SubSeq(screen, 1, step - 1)
<1>1. /\ step \in Nat /\ step >= 1 /\ Finished = step - 1
      /\ active \in {0, 1} /\ Len(screen) = step + active
      /\ screen \in Seq(RowType)
      /\ \A k \in 1..(step - 1) : screen[k] = Result(k)
  BY DEF Drawn, CliTypes, ScreenRows, Finished, Running
<1>2. Len(screen) - active - 1 = step - 1
  BY <1>1
<1>3. Cleared(1) = base
  BY <1>2 DEF Cleared
<1>4. /\ base \in Seq(RowType) /\ Len(base) = step - 1
      /\ \A k \in 1..(step - 1) : base[k] = screen[k]
  <2>1. \A k \in 1..(step - 1) : screen[k] \in RowType
    BY <1>1
  <2> QED BY <1>1, <2>1, SubSeqProperties
<1>5. Row("result", 0) \in RowType /\ Row("result", 0) = Result(step)
  BY <1>1 DEF Row, RowType, Result
<1> HIDE DEF base
<1> DEFINE shown == Append(base, Row("result", 0))
<1>6. /\ shown \in Seq(RowType) /\ Len(shown) = step
      /\ \A k \in 1..(step - 1) : shown[k] = base[k]
      /\ shown[step] = Row("result", 0)
  BY <1>1, <1>4, <1>5, AppendProperties
<1>7. \A k \in 1..step : shown[k] = Result(k)
  BY <1>1, <1>4, <1>5, <1>6
<1> QED BY <1>3, <1>6, <1>7

\* The log under the result, when a step has failed.
LEMMA LogDrawn ==
  ASSUME Drawn, FinishError
  PROVE  Drawn'
<1> DEFINE shown == Append(Cleared(1), Row("result", 0))
           last  == Latest(lines)
<1>0. StepAssumption
  BY StepAssumption
<1>1. /\ pc = "failed" /\ pc' = "ended" /\ step' = step /\ read' = read /\ lines' = lines
      /\ active' = 0 /\ Running /\ ~Running' /\ Finished' = step
      /\ screen' = shown \o dumpLogs
  BY DEF FinishError, command, Running, Finished
<1>2. step \in Nat /\ step >= 1 /\ lines \in Seq(Nat) /\ read \in Nat
  BY <1>1 DEF Drawn, CliTypes
<1>3. /\ shown \in Seq(RowType) /\ Len(shown) = step
      /\ \A k \in 1..step : shown[k] = Result(k)
  BY <1>1, ResultDrawn
<1>4. last \in Seq(Nat) /\ Latest(lines)' = last
  BY <1>0, <1>1, <1>2, LatestLines DEF Latest
<1> HIDE DEF shown, last
<1>5. dumpLogs = [k \in 1..Len(last) |-> Row("log", last[k])]
  BY DEF dumpLogs, last
<1>6. /\ dumpLogs \in Seq(RowType) /\ Len(dumpLogs) = Len(last)
      /\ \A k \in 1..Len(last) : dumpLogs[k] = Row("log", last[k])
  <2>1. \A k \in 1..Len(last) : Row("log", last[k]) \in RowType
    BY <1>2, <1>4 DEF Row, RowType
  <2>2. Len(last) \in Nat
    BY <1>4
  <2> QED BY <1>5, <2>1, <2>2
<1>7. /\ screen' \in Seq(RowType) /\ Len(screen') = step + Len(last)
      /\ \A k \in 1..(step + Len(last)) :
           screen'[k] = IF k <= step THEN shown[k] ELSE dumpLogs[k - step]
  BY <1>1, <1>3, <1>6, ConcatProperties
<1>8. Len(last) \in Nat
  BY <1>4
<1>9. \A k \in 1..step : screen'[k] = Result(k)
  BY <1>2, <1>3, <1>7, <1>8
<1>10. ASSUME NEW k \in 1..Len(last)
       PROVE  screen'[step + k] = Row("log", last[k])
  <2> DEFINE i == step + k
  <2>1. i \in 1..(step + Len(last)) /\ ~(i <= step) /\ i - step = k
    BY <1>2, <1>8
  <2> HIDE DEF i
  <2>2. screen'[i] = dumpLogs[i - step]
    BY <1>7, <2>1
  <2>3. screen'[i] = Row("log", last[k])
    BY <1>6, <2>1, <2>2 DEF Row
  <2> QED BY <2>3 DEF i
<1>11. CliTypes'
  BY <1>1, <1>2 DEF CliTypes
<1>12. ScreenRows'
  <2>1. /\ screen' \in Seq(RowType) /\ Len(screen') >= Finished'
        /\ \A k \in 1..Finished' : screen'[k] = Result(k)'
    BY <1>1, <1>2, <1>7, <1>8, <1>9 DEF Result
  <2>2. (/\ Len(screen) = step + Len(Latest(lines))
         /\ \A k \in 1..Len(Latest(lines)) :
              screen[step + k] = Row("log", Latest(lines)[k]))'
    <3>1. Len(Latest(lines)') = Len(last) /\ step' = step
      BY <1>1, <1>4
    <3>2. ASSUME NEW k \in 1..Len(last)
          PROVE  screen'[step' + k] = Row("log", Latest(lines)[k])'
      <4>1. Latest(lines)'[k] = last[k]
        BY <1>4
      <4>2. screen'[step' + k] = Row("log", last[k])
        BY <1>10, <3>1
      <4> QED BY <3>1, <4>1, <4>2 DEF Row
    <3> QED BY <1>7, <3>1, <3>2
  <2>3. pc' = "ended" /\ ~Running' /\ active' # 1
    BY <1>1
  <2> QED BY <2>1, <2>2, <2>3 DEF ScreenRows
<1> QED BY <1>11, <1>12 DEF Drawn

\* A step draws its title under the results of those before it.
LEMMA TitleDrawn ==
  ASSUME Drawn, StartStep
  PROVE  Drawn'
<1> DEFINE row == [kind |-> "title", step |-> step + 1, line |-> 0]
<1>1. /\ pc = "idle" /\ pc' = "starting" /\ step' = step + 1 /\ lines' = <<>> /\ active' = 0
      /\ read' = read /\ screen' = Append(screen, row)
      /\ ~Running /\ Running' /\ Finished = step /\ Finished' = step' - 1
  <2>1. /\ pc = "idle" /\ pc' = "starting" /\ step' = step + 1 /\ lines' = <<>> /\ active' = 0
        /\ read' = read /\ screen' = Append(screen, row)
    BY DEF StartStep, command
  <2> HIDE DEF row
  <2>2. ~Running /\ Running'
    BY <2>1 DEF Running
  <2>3. Finished = step /\ Finished' = step' - 1
    BY <2>2 DEF Finished
  <2> QED BY <2>1, <2>2, <2>3
<1>2. /\ step \in Nat /\ read \in Nat /\ active = 0
      /\ screen \in Seq(RowType) /\ Len(screen) = step
      /\ \A k \in 1..step : screen[k] = Result(k)
  BY <1>1 DEF Drawn, CliTypes, ScreenRows
<1>3. row \in RowType
  BY <1>2 DEF RowType
<1>4. row = Row("title", 0)'
  BY <1>1 DEF Row
<1> HIDE DEF row
<1>5. /\ screen' \in Seq(RowType) /\ Len(screen') = step + 1
      /\ \A k \in 1..step : screen'[k] = screen[k]
      /\ screen'[step + 1] = row
  BY <1>1, <1>2, <1>3, AppendProperties
<1>6. CliTypes'
  BY <1>1, <1>2 DEF CliTypes
<1>7. ScreenRows'
  <2>1. /\ Len(screen') >= Finished'
        /\ \A k \in 1..Finished' : screen'[k] = Result(k)'
    <3>1. Finished' = step
      BY <1>1, <1>2
    <3> QED BY <1>2, <1>5, <3>1 DEF Result
  <2>2. Len(screen') = step' + active'
    BY <1>1, <1>2, <1>5
  <2>3. screen'[step'] = Row("title", 0)'
    BY <1>1, <1>4, <1>5
  <2>4. active' # 1 /\ pc' # "ended"
    BY <1>1
  <2> QED BY <1>1, <1>5, <2>1, <2>2, <2>3, <2>4 DEF ScreenRows
<1> QED BY <1>6, <1>7 DEF Drawn

\* A finished step leaves its result and no row of its own.
LEMMA SuccessDrawn ==
  ASSUME Drawn, FinishSuccess
  PROVE  Drawn'
<1>1. /\ pc = "succeeded" /\ pc' = "idle" /\ step' = step /\ lines' = lines /\ active' = 0
      /\ read' = read /\ screen' = Append(Cleared(1), Row("result", 0))
      /\ Running /\ ~Running' /\ Finished' = step
  BY DEF FinishSuccess, command, Running, Finished
<1>2. step \in Nat /\ read \in Nat /\ lines \in Seq(Nat)
  BY DEF Drawn, CliTypes
<1>3. /\ screen' \in Seq(RowType) /\ Len(screen') = step
      /\ \A k \in 1..step : screen'[k] = Result(k)
  BY <1>1, ResultDrawn
<1>4. CliTypes'
  BY <1>1, <1>2 DEF CliTypes
<1>5. ScreenRows'
  <2>1. /\ Len(screen') >= Finished' /\ Len(screen') = Finished' + active'
        /\ \A k \in 1..Finished' : screen'[k] = Result(k)'
    BY <1>1, <1>2, <1>3 DEF Result
  <2>2. active' # 1 /\ pc' # "ended"
    BY <1>1
  <2> QED BY <1>1, <1>3, <2>1, <2>2 DEF ScreenRows
<1> QED BY <1>4, <1>5 DEF Drawn

\* The other steps of the CLI, and those of the command, draw nothing.
LEMMA NothingDrawn ==
  ASSUME Drawn, UNCHANGED <<step, lines, active, screen>>, read' \in Nat,
         \/ pc' = pc
         \/ /\ pc \in {"starting", "scanning", "waiting"}
            /\ pc' \in {"scanning", "waiting", "succeeded", "failed"}
  PROVE  Drawn'
<1>1. /\ Running' = Running /\ Finished' = Finished /\ (pc' = "ended" <=> pc = "ended")
      /\ pc' = "starting" => pc = "starting"
  BY DEF Running, Finished, Drawn, CliTypes
<1>2. CliTypes'
  BY <1>1 DEF Drawn, CliTypes
<1>3. ScreenRows'
  BY <1>1 DEF Drawn, ScreenRows, Result, Row, Latest
<1> QED BY <1>2, <1>3 DEF Drawn

\* Every step draws what it should.
LEMMA NextDrawn ==
  ASSUME Drawn, [Next]_vars
  PROVE  Drawn'
<1>1. read \in Nat
  BY DEF Drawn, CliTypes
<1>2. CASE StartStep
  BY <1>2, TitleDrawn
<1>3. CASE StartChild
  <2>1. read' \in Nat
    BY <1>3 DEF StartChild
  <2>2. pc = "starting" /\ pc' \in {"scanning", "failed"}
    BY <1>3 DEF StartChild
  <2> QED BY <1>3, <2>1, <2>2, NothingDrawn DEF StartChild
<1>4. CASE Write \/ Exit
  BY <1>1, <1>4, NothingDrawn DEF Write, Exit
<1>5. CASE Scan
  <2>1. read' \in Nat /\ LineOf(read') \in Nat
    <3>1. read' \in Nat
      BY <1>1, <1>5 DEF Scan
    <3>2. LineOf(read + 1) \in Nat
      BY <1>1, LineNumbers
    <3> QED BY <1>5, <3>1, <3>2 DEF Scan
  <2>2. CASE out[read'] = "nl" /\ UpdateStream(LineOf(read')) /\ UNCHANGED pc
    BY <1>5, <2>1, <2>2, StreamDrawn DEF Scan
  <2>3. CASE pc' \in {"waiting", "scanning"} /\ UNCHANGED <<lines, active, screen>>
    BY <1>5, <2>1, <2>3, NothingDrawn DEF Scan
  <2> QED BY <1>5, <2>2, <2>3 DEF Scan
<1>6. CASE Eof
  <2>1. LineOf(read) \in Nat
    BY <1>1, LineNumbers
  <2> QED BY <1>1, <1>6, <2>1, StreamDrawn DEF Eof, Drained
<1>7. CASE Wait
  BY <1>1, <1>7, NothingDrawn DEF Wait, command
<1>8. CASE FinishSuccess
  BY <1>8, SuccessDrawn
<1>9. CASE FinishError
  BY <1>9, LogDrawn
<1>10. CASE UNCHANGED vars
  BY <1>1, <1>10, NothingDrawn DEF vars, command
<1> QED BY <1>2, <1>3, <1>4, <1>5, <1>6, <1>7, <1>8, <1>9, <1>10 DEF Next

\* The screen is as it should be in every reachable state.
LEMMA DrawnCorrect == Spec => []Drawn
<1>1. Init => Drawn
  <2> SUFFICES ASSUME Init PROVE Drawn
    OBVIOUS
  <2>1. /\ pc = "idle" /\ step = 0 /\ read = 0 /\ lines = <<>> /\ active = 0 /\ screen = <<>>
        /\ ~Running /\ Finished = 0
    BY DEF Init, Running, Finished
  <2>2. CliTypes
    BY <2>1 DEF CliTypes
  <2>3. ScreenRows
    BY <2>1 DEF ScreenRows
  <2> QED BY <2>2, <2>3 DEF Drawn
<1>2. Drawn /\ [Next]_vars => Drawn'
  BY NextDrawn
<1> QED BY <1>1, <1>2, PTL DEF Spec

\* The results of the finished steps, as rows.
LEMMA ResultRows ==
  ASSUME CliTypes
  PROVE  /\ Results \in Seq(RowType) /\ Len(Results) = Finished /\ Finished \in Nat
         /\ \A k \in 1..Finished : Results[k] = Result(k)
<1>1. Finished \in Nat
  BY DEF CliTypes, Finished
<1>2. Results = [k \in 1..Finished |-> Result(k)]
  BY DEF Results, Finished, Result
<1>3. \A k \in 1..Finished : Result(k) \in RowType
  BY <1>1 DEF Result, RowType
<1> HIDE DEF Results, Finished
<1> QED BY <1>1, <1>2, <1>3

\* The rows are those that ScreenFaithful names.
LEMMA RowsFaithful ==
  ASSUME Drawn
  PROVE  ScreenFaithful
<1>1. /\ Results \in Seq(RowType) /\ Len(Results) = Finished /\ Finished \in Nat
      /\ \A k \in 1..Finished : Results[k] = Result(k)
  BY ResultRows DEF Drawn
<1>2. screen \in Seq(RowType) /\ \A k \in 1..Finished : screen[k] = Results[k]
  BY <1>1 DEF Drawn, ScreenRows
<1>3. CASE pc = "ended"
  <2>1. /\ Len(screen) = Finished + Len(Latest(lines))
        /\ \A k \in 1..Len(Latest(lines)) : screen[Finished + k].kind = "log"
    <3>1. Finished = step
      BY <1>3 DEF Running, Finished
    <3>2. /\ Len(screen) = step + Len(Latest(lines))
          /\ \A k \in 1..Len(Latest(lines)) :
               screen[step + k] = Row("log", Latest(lines)[k])
      BY <1>3 DEF Drawn, ScreenRows
    <3>3. ASSUME NEW k \in 1..Len(Latest(lines))
          PROVE  screen[step + k].kind = "log"
      <4> DEFINE i == step + k
      <4>1. screen[i] = Row("log", Latest(lines)[k])
        BY <3>2, Zenon
      <4> HIDE DEF i
      <4>2. screen[i].kind = "log"
        BY <4>1 DEF Row
      <4> QED BY <4>2 DEF i
    <3> QED BY <3>1, <3>2, <3>3
  <2>2. Len(Latest(lines)) \in Nat
    BY LatestLines, StepAssumption DEF Drawn, CliTypes
  <2>3. IsPrefix(Results, screen)
    BY <1>1, <1>2, <2>1, <2>2 DEF IsPrefix
  <2>4. ASSUME NEW k \in (Len(Results) + 1)..Len(screen)
        PROVE  screen[k].kind = "log"
    <3>1. k - Finished \in 1..Len(Latest(lines)) /\ Finished + (k - Finished) = k
      BY <1>1, <2>1, <2>2
    <3> DEFINE j == k - Finished
    <3>2. screen[Finished + j].kind = "log"
      BY <2>1, <3>1
    <3> QED BY <3>1, <3>2
  <2> QED BY <1>3, <2>3, <2>4 DEF ScreenFaithful
<1>4. CASE pc \in {"idle"}
  <2>1. screen = Results
    <3>1. Len(screen) = Len(Results)
      BY <1>1, <1>4 DEF Drawn, CliTypes, ScreenRows, Running, Finished
    <3> QED BY <1>1, <1>2, <3>1, SeqEqual
  <2>2. Titled = Results /\ ~Running
    BY <1>1, <1>4 DEF Titled, Running
  <2> QED BY <1>1, <1>4, <2>1, <2>2 DEF ScreenFaithful
<1>5. CASE Running
  <2> DEFINE title == Row("title", 0)
             live  == Row("stream", Last(lines))
  <2>1. /\ pc # "ended" /\ Finished = step - 1 /\ Len(screen) = Finished + 1 + active
        /\ step \in Nat /\ active \in {0, 1} /\ active = (IF lines # <<>> THEN 1 ELSE 0)
        /\ screen[Finished + 1] = title
        /\ active = 1 => screen[Finished + 2] = live
    BY <1>5 DEF Drawn, CliTypes, ScreenRows, Running, Finished
  <2>2. title \in RowType /\ (active = 1 => live \in RowType)
    BY <1>1, <1>2, <2>1
  <2> HIDE DEF title, live
  <2>3. /\ <<title>> \in Seq(RowType) /\ Len(<<title>>) = 1 /\ <<title>>[1] = title
    BY <2>2
  <2> DEFINE titled == Results \o <<title>>
  <2>4. /\ titled \in Seq(RowType) /\ Len(titled) = Finished + 1
        /\ \A k \in 1..Finished : titled[k] = Results[k]
        /\ titled[Finished + 1] = title
    <3>1. \A k \in 1..(Finished + 1) :
            titled[k] = IF k <= Finished THEN Results[k] ELSE <<title>>[k - Finished]
      BY <1>1, <2>3, ConcatProperties
    <3>2. Finished + 1 - Finished = 1
      BY <1>1
    <3> QED BY <1>1, <2>3, <3>1, <3>2, ConcatProperties
  <2>5. Titled = titled
    BY <1>5 DEF Titled, title
  <2> HIDE DEF titled
  <2>6. CASE lines = <<>>
    <3>1. screen = titled
      <4>1. Len(screen) = Len(titled) /\ \A k \in 1..Len(screen) : screen[k] = titled[k]
        BY <1>1, <1>2, <2>1, <2>4, <2>6
      <4> QED BY <1>2, <2>4, <4>1, SeqEqual
    <3> QED BY <1>5, <2>1, <2>4, <2>5, <2>6, <3>1 DEF ScreenFaithful
  <2>7. CASE lines # <<>>
    <3> DEFINE all == titled \o <<live>>
    <3>1. live \in RowType /\ Len(screen) = Finished + 2 /\ screen[Finished + 2] = live
      BY <1>1, <2>1, <2>2, <2>7
    <3>2. /\ <<live>> \in Seq(RowType) /\ Len(<<live>>) = 1 /\ <<live>>[1] = live
      BY <3>1
    <3>3. /\ all \in Seq(RowType) /\ Len(all) = Finished + 2
          /\ \A k \in 1..(Finished + 1) : all[k] = titled[k]
          /\ all[Finished + 2] = live
      <4>1. /\ all \in Seq(RowType) /\ Len(all) = Finished + 1 + 1
            /\ \A k \in 1..(Finished + 1 + 1) :
                all[k] = IF k <= Finished + 1 THEN titled[k] ELSE <<live>>[k - (Finished + 1)]
        BY <2>4, <3>2, ConcatProperties
      <4>2. Finished + 2 - (Finished + 1) = 1 /\ Finished + 1 + 1 = Finished + 2
        BY <1>1
      <4> QED BY <1>1, <3>2, <4>1, <4>2
    <3> HIDE DEF all
    <3>4. \A k \in 1..Len(screen) : screen[k] = all[k]
      BY <1>1, <1>2, <2>1, <2>4, <3>1, <3>3
    <3>5. screen = all
      BY <1>2, <3>1, <3>3, <3>4, SeqEqual
    <3> QED BY <1>5, <2>1, <2>5, <2>7, <3>5 DEF ScreenFaithful, all, live
  <2> QED BY <2>6, <2>7
<1> QED BY <1>3, <1>4, <1>5 DEF Running

\* For every output of every command, every step is left with one row, its
\* result, and the one in progress with its title and its latest line: what
\* clearActiveLines erases is never another step's (logger.go).
THEOREM ScreenFaithfulCorrect == Spec => []ScreenFaithful
<1>1. Drawn => ScreenFaithful
  BY RowsFaithful
<1> QED BY <1>1, DrawnCorrect, PTL

(***************************************************************************)
(* The log: what the scanner takes from the command.                       *)
(***************************************************************************)
Bytes == {"c", "nl"}

\* The bytes of line n among the first k.
InLine(k, n) == {j \in 1..k : out[j] = "c" /\ LineOf(j) = n}

PipeInv ==
  /\ out \in Seq(Bytes)
  /\ wrote \in Nat /\ read \in Nat /\ lines \in Seq(Nat)
  /\ wrote <= Len(out) /\ read <= wrote
  /\ child # "running" => wrote = Len(out)

Increasing == \A j, k \in 1..Len(lines) : j < k => lines[j] < lines[k]

\* Nothing but what was said in the first k bytes is kept, and all of it,
\* but for the line n.
Kept(k, n) ==
  /\ \A i \in 1..Len(lines) : \E j \in 1..k : out[j] = "c" /\ LineOf(j) = lines[i]
  /\ \A j \in 1..k : (out[j] = "c" /\ LineOf(j) # n) =>
                       \E i \in 1..Len(lines) : lines[i] = LineOf(j)

\* The scanner has passed on every line but the one it is at, of which it
\* holds the bytes; and when it has ended, every line, or one was too long.
LogInv ==
  /\ PipeInv /\ Increasing
  /\ pc = "starting" => lines = <<>>
  /\ pc = "scanning" =>
       LET this == LineOf(read + 1)
       IN /\ held = Cardinality(InLine(read, this))
          /\ \A i \in 1..Len(lines) : lines[i] < this
          /\ Kept(read, this)
  /\ (pc \in {"waiting", "succeeded", "failed", "ended"} /\ TooLong = {}) =>
       Kept(Len(out), 0)

\* The end of a line is what begins the next one.
LEMMA NextLine ==
  ASSUME NEW k \in Nat, k >= 1
  PROVE  LineOf(k + 1) = IF out[k] = "nl" THEN LineOf(k) + 1 ELSE LineOf(k)
<1> DEFINE Ends(n) == {j \in 1..(n - 1) : out[j] = "nl"}
<1>1. IsFiniteSet(Ends(k)) /\ Cardinality(Ends(k)) \in Nat
  <2>1. IsFiniteSet(1..(k - 1))
    BY FS_Interval
  <2>2. IsFiniteSet(Ends(k))
    BY <2>1, FS_Subset
  <2> QED BY <2>2, FS_CardinalityType
<1>2. LineOf(k) = 1 + Cardinality(Ends(k)) /\ LineOf(k + 1) = 1 + Cardinality(Ends(k + 1))
  BY DEF LineOf
<1>3. CASE out[k] = "nl"
  <2>1. Ends(k + 1) = Ends(k) \cup {k} /\ k \notin Ends(k)
    BY <1>3
  <2>2. Cardinality(Ends(k) \cup {k}) = Cardinality(Ends(k)) + 1
    BY <1>1, <2>1, FS_AddElement
  <2> QED BY <1>1, <1>2, <1>3, <2>1, <2>2
<1>4. CASE out[k] # "nl"
  <2>1. Ends(k + 1) = Ends(k)
    BY <1>4
  <2> QED BY <1>2, <1>4, <2>1
<1> QED BY <1>3, <1>4

\* The number of the line never goes back.
LEMMA LinesGrow ==
  ASSUME NEW k \in Nat, NEW n \in Nat, k <= n
  PROVE  LineOf(k) <= LineOf(n)
<1> DEFINE Ends(m) == {j \in 1..(m - 1) : out[j] = "nl"}
<1>1. IsFiniteSet(Ends(n))
  <2>1. IsFiniteSet(1..(n - 1))
    BY FS_Interval
  <2> QED BY <2>1, FS_Subset
<1>2. Ends(k) \subseteq Ends(n)
  OBVIOUS
<1>3. Cardinality(Ends(k)) <= Cardinality(Ends(n))
  BY <1>1, <1>2, FS_Subset
<1>4. Cardinality(Ends(k)) \in Nat /\ Cardinality(Ends(n)) \in Nat
  BY <1>1, <1>2, FS_Subset, FS_CardinalityType
<1> QED BY <1>3, <1>4 DEF LineOf

\* The bytes of a line are counted one by one.
LEMMA LineBytes ==
  ASSUME NEW k \in Nat, NEW n
  PROVE  /\ IsFiniteSet(InLine(k, n)) /\ Cardinality(InLine(k, n)) \in Nat
         /\ Cardinality(InLine(k, n)) = 0 <=> InLine(k, n) = {}
         /\ (out[k + 1] = "c" /\ LineOf(k + 1) = n) =>
              Cardinality(InLine(k + 1, n)) = Cardinality(InLine(k, n)) + 1
<1>1. IsFiniteSet(InLine(k, n))
  <2>1. IsFiniteSet(1..k)
    BY FS_Interval
  <2>2. InLine(k, n) \subseteq 1..k
    BY DEF InLine
  <2> QED BY <2>1, <2>2, FS_Subset
<1>2. Cardinality(InLine(k, n)) \in Nat
  BY <1>1, FS_CardinalityType
<1>3. Cardinality(InLine(k, n)) = 0 <=> InLine(k, n) = {}
  BY <1>1, FS_EmptySet
<1>4. ASSUME out[k + 1] = "c", LineOf(k + 1) = n
      PROVE  Cardinality(InLine(k + 1, n)) = Cardinality(InLine(k, n)) + 1
  <2>1. InLine(k + 1, n) = InLine(k, n) \cup {k + 1} /\ (k + 1) \notin InLine(k, n)
    BY <1>4 DEF InLine
  <2> QED BY <1>1, <2>1, FS_AddElement
<1> QED BY <1>1, <1>2, <1>3, <1>4

\* The line at hand is passed on, if it is not blank: now all is kept.
LEMMA StreamKept ==
  ASSUME LogInv, pc = "scanning",
         held = 0 => lines' = lines,
         held # 0 => lines' = Append(lines, LineOf(read + 1))
  PROVE  /\ lines' \in Seq(Nat) /\ Increasing'
         /\ \A i \in 1..Len(lines') : lines'[i] <= LineOf(read + 1)
         /\ \A i \in 1..Len(lines') :
              \E j \in 1..read : out[j] = "c" /\ LineOf(j) = lines'[i]
         /\ \A j \in 1..read : out[j] = "c" =>
              \E i \in 1..Len(lines') : lines'[i] = LineOf(j)
<1> DEFINE this == LineOf(read + 1)
<1>1. /\ read \in Nat /\ lines \in Seq(Nat) /\ Len(lines) \in Nat /\ Increasing
      /\ held = Cardinality(InLine(read, this))
      /\ \A i \in 1..Len(lines) : lines[i] < this
      /\ Kept(read, this)
  BY DEF LogInv, PipeInv
<1>2. this \in Nat
  BY <1>1, LineNumbers
<1>3. held = 0 <=> InLine(read, this) = {}
  BY <1>1, LineBytes
<1> HIDE DEF this
<1>4. CASE held = 0
  <2>1. lines' = lines
    BY <1>4
  <2>2. \A j \in 1..read : out[j] = "c" => LineOf(j) # this
    BY <1>3, <1>4 DEF InLine
  <2>3. \A i \in 1..Len(lines) : lines[i] \in Nat
    BY <1>1
  <2>4. lines' \in Seq(Nat) /\ Increasing'
    BY <1>1, <2>1 DEF Increasing
  <2>5. \A i \in 1..Len(lines') : lines'[i] <= this
    BY <1>1, <1>2, <2>1, <2>3
  <2>6. /\ \A i \in 1..Len(lines') :
             \E j \in 1..read : out[j] = "c" /\ LineOf(j) = lines'[i]
        /\ \A j \in 1..read : out[j] = "c" =>
             \E i \in 1..Len(lines') : lines'[i] = LineOf(j)
    BY <1>1, <2>1, <2>2 DEF Kept
  <2> QED BY <2>4, <2>5, <2>6 DEF this
<1>5. CASE held # 0
  <2>1. /\ lines' = Append(lines, this) /\ lines' \in Seq(Nat) /\ Len(lines') = Len(lines) + 1
        /\ \A i \in 1..Len(lines) : lines'[i] = lines[i]
        /\ lines'[Len(lines) + 1] = this
    <3>1. lines' = Append(lines, this)
      BY <1>5 DEF this
    <3> QED BY <1>1, <1>2, <3>1, AppendProperties
  <2>2. PICK b \in 1..read : out[b] = "c" /\ LineOf(b) = this
    BY <1>3, <1>5 DEF InLine
  <2>3. \A i \in 1..Len(lines') : i = Len(lines) + 1 \/ i \in 1..Len(lines)
    BY <1>1, <2>1
  <2>4. \A i \in 1..Len(lines') : lines'[i] <= this
    BY <1>1, <1>2, <2>1, <2>3
  <2>5. Increasing'
    BY <1>1, <1>2, <2>1, <2>3 DEF Increasing
  <2>6. ASSUME NEW i \in 1..Len(lines')
        PROVE  \E j \in 1..read : out[j] = "c" /\ LineOf(j) = lines'[i]
    BY <1>1, <2>1, <2>2, <2>3 DEF Kept
  <2>7. ASSUME NEW j \in 1..read, out[j] = "c"
        PROVE  \E i \in 1..Len(lines') : lines'[i] = LineOf(j)
    <3>1. CASE LineOf(j) = this
      BY <1>1, <2>1, <3>1
    <3>2. CASE LineOf(j) # this
      <4>1. PICK i \in 1..Len(lines) : lines[i] = LineOf(j)
        BY <1>1, <2>7, <3>2 DEF Kept
      <4> QED BY <1>1, <2>1, <4>1
    <3> QED BY <3>1, <3>2
  <2> QED BY <2>1, <2>4, <2>5, <2>6, <2>7 DEF this
<1> QED BY <1>4, <1>5

\* One byte of the command's output is taken.
LEMMA ScanKept ==
  ASSUME LogInv, Scan
  PROVE  LogInv'
<1> DEFINE r == read + 1
           this == LineOf(r)
<1>1. /\ pc = "scanning" /\ read < wrote /\ read' = r /\ out' = out
      /\ wrote' = wrote /\ child' = child
  BY DEF Scan
<1>2. /\ PipeInv /\ Increasing /\ read \in Nat /\ wrote \in Nat /\ lines \in Seq(Nat)
      /\ held = Cardinality(InLine(read, this))
      /\ \A i \in 1..Len(lines) : lines[i] < this
      /\ Kept(read, this)
  BY <1>1 DEF LogInv, PipeInv
<1>3. r \in Nat /\ r >= 1 /\ r \in 1..Len(out) /\ this \in Nat
  BY <1>1, <1>2, LineNumbers DEF PipeInv
<1>4. \A k \in 1..r : k \in 1..read \/ k = r
  BY <1>2
<1>5. \A k : LineOf(k)' = LineOf(k)
  BY <1>1 DEF LineOf
<1>6. \A k, n : InLine(k, n)' = InLine(k, n)
  BY <1>1, <1>5 DEF InLine
<1>7. LineOf(r + 1) = IF out[r] = "nl" THEN this + 1 ELSE this
  BY <1>3, NextLine
<1> HIDE DEF r, this
<1>8. CASE out[r] = "nl" /\ UpdateStream(this) /\ held' = 0 /\ pc' = pc
  <2>1. /\ lines' \in Seq(Nat) /\ Increasing'
        /\ \A i \in 1..Len(lines') : lines'[i] <= this
        /\ \A i \in 1..Len(lines') :
             \E j \in 1..read : out[j] = "c" /\ LineOf(j) = lines'[i]
        /\ \A j \in 1..read : out[j] = "c" =>
             \E i \in 1..Len(lines') : lines'[i] = LineOf(j)
    <3>1. (held = 0 => lines' = lines) /\ (held # 0 => lines' = Append(lines, LineOf(read + 1)))
      BY <1>8 DEF UpdateStream, this, r
    <3> QED BY <1>1, <3>1, StreamKept DEF this, r
  <2>2. LineOf(r + 1) = this + 1
    BY <1>7, <1>8
  <2>3. InLine(r, this + 1) = {}
    <3>1. ASSUME NEW j \in 1..r PROVE LineOf(j) # this + 1
      <4>1. j \in Nat /\ j <= r
        BY <1>3
      <4>2. LineOf(j) <= this /\ LineOf(j) \in Nat
        BY <1>3, <4>1, LinesGrow, LineNumbers DEF this
      <4> QED BY <1>3, <4>2
    <3> QED BY <3>1 DEF InLine
  <2>4. held' = Cardinality(InLine(r, this + 1))
    BY <1>8, <2>3, FS_EmptySet
  <2>5. PipeInv'
    BY <1>1, <1>2, <2>1, <1>3 DEF PipeInv, r
  <2>6. ASSUME NEW i \in 1..Len(lines') PROVE lines'[i] < this + 1
    <3>1. lines' \in Seq(Nat) /\ lines'[i] <= this
      BY <2>1
    <3>2. lines'[i] \in Nat
      BY <3>1
    <3> QED BY <1>3, <3>1, <3>2
  <2>7. /\ \A i \in 1..Len(lines') : \E j \in 1..r : out[j] = "c" /\ LineOf(j) = lines'[i]
        /\ \A j \in 1..r : out[j] = "c" => \E i \in 1..Len(lines') : lines'[i] = LineOf(j)
    <3>1. \A j \in 1..read : j \in 1..r
      BY <1>2 DEF r
    <3> QED BY <1>4, <1>8, <2>1, <3>1
  <2>8. LineOf(read + 1)' = this + 1
    BY <1>1, <2>2 DEF LineOf
  <2>9. Kept(read, LineOf(read + 1))'
    BY <1>1, <1>5, <2>7 DEF Kept
  <2>10. (held = Cardinality(InLine(read, LineOf(read + 1))))'
    <3>1. InLine(read, LineOf(read + 1))' = InLine(r, this + 1)
      BY <1>1, <1>5, <2>8 DEF InLine
    <3> QED BY <2>4, <3>1
  <2>11. (\A i \in 1..Len(lines) : lines[i] < LineOf(read + 1))'
    BY <2>6, <2>8
  <2>12. pc' = "scanning"
    BY <1>1, <1>8
  <2> QED BY <2>1, <2>5, <2>9, <2>10, <2>11, <2>12 DEF LogInv
<1>9. CASE /\ out[r] = "c" /\ held' = held + 1 /\ lines' = lines
           /\ pc' = IF held' = MaxToken THEN "waiting" ELSE "scanning"
  <2>1. LineOf(r + 1) = this /\ LineOf(read + 1) = this /\ LineOf(r) = this
    BY <1>7, <1>9 DEF this, r
  <2>2. Cardinality(InLine(r, this)) = held + 1
    <3>1. out[read + 1] = "c"
      BY <1>9 DEF r
    <3> QED BY <1>2, <2>1, <3>1, LineBytes DEF r
  <2>3. PipeInv' /\ Increasing'
    BY <1>1, <1>2, <1>3, <1>9 DEF PipeInv, Increasing, r
  <2>4. CASE pc' = "scanning"
    <3>1. LineOf(read + 1)' = this
      BY <1>1, <2>1 DEF LineOf
    <3>2. (held = Cardinality(InLine(read, LineOf(read + 1))))'
      <4>1. InLine(read, LineOf(read + 1))' = InLine(r, this)
        BY <1>1, <1>5, <3>1 DEF InLine
      <4> QED BY <1>9, <2>2, <4>1
    <3>3. (\A i \in 1..Len(lines) : lines[i] < LineOf(read + 1))'
      BY <1>2, <1>9, <3>1
    <3>4. /\ \A i \in 1..Len(lines) : \E j \in 1..r : out[j] = "c" /\ LineOf(j) = lines[i]
          /\ \A j \in 1..r : (out[j] = "c" /\ LineOf(j) # this) =>
                               \E i \in 1..Len(lines) : lines[i] = LineOf(j)
      <4>1. \A j \in 1..read : j \in 1..r
        BY <1>2 DEF r
      <4> QED BY <1>2, <1>4, <2>1, <4>1 DEF Kept
    <3>5. Kept(read, LineOf(read + 1))'
      BY <1>1, <1>5, <1>9, <3>1, <3>4 DEF Kept
    <3> QED BY <2>3, <2>4, <3>2, <3>3, <3>5 DEF LogInv
  <2>5. CASE pc' = "waiting"
    <3>1. held + 1 = MaxToken
      BY <1>9, <2>5
    <3>2. Filled(r) = held + 1
      BY <2>1, <2>2 DEF Filled, InLine
    <3>3. r \in TooLong
      <4>1. MaxToken \in Nat
        BY StepAssumption DEF StepAssumption
      <4> QED BY <1>3, <1>9, <3>1, <3>2, <4>1 DEF TooLong
    <3>4. TooLong' = TooLong
      BY <1>1 DEF TooLong, Filled, LineOf
    <3> QED BY <2>3, <2>5, <3>3, <3>4 DEF LogInv
  <2> QED BY <1>9, <2>4, <2>5
<1> QED
  <2>1. (out[r] = "nl" /\ UpdateStream(this) /\ held' = 0 /\ pc' = pc) \/
        (/\ out[r] = "c" /\ held' = held + 1 /\ lines' = lines
         /\ pc' = IF held' = MaxToken THEN "waiting" ELSE "scanning")
    <3>1. out[read + 1] = out'[read'] /\ LineOf(read') = LineOf(read + 1)
      BY <1>1 DEF LineOf, r
    <3> QED BY <1>1, <3>1 DEF Scan, r, this
  <2> QED BY <1>8, <1>9, <2>1

\* The end of the pipe: the rest is a line, and all that was said is kept.
LEMMA EofKept ==
  ASSUME LogInv, Eof
  PROVE  LogInv'
<1>1. /\ pc = "scanning" /\ pc' = "waiting" /\ read = wrote /\ child # "running"
      /\ UNCHANGED <<out, wrote, read, child>> /\ UpdateStream(LineOf(read))
  BY DEF Eof, Drained
<1>2. /\ PipeInv /\ read \in Nat /\ read = Len(out)
      /\ held = Cardinality(InLine(read, LineOf(read + 1)))
  BY <1>1 DEF LogInv, PipeInv
<1>3. held # 0 => LineOf(read) = LineOf(read + 1)
  <2> SUFFICES ASSUME held # 0 PROVE LineOf(read) = LineOf(read + 1)
    OBVIOUS
  <2>1. InLine(read, LineOf(read + 1)) # {}
    BY <1>2, LineBytes
  <2>2. PICK j \in 1..read : LineOf(j) = LineOf(read + 1)
    BY <2>1 DEF InLine
  <2>3. LineOf(j) <= LineOf(read) /\ LineOf(read) <= LineOf(read + 1)
    BY <1>2, LinesGrow
  <2>4. LineOf(read) \in Nat /\ LineOf(read + 1) \in Nat
    BY <1>2, LineNumbers
  <2> QED BY <2>2, <2>3, <2>4
<1>4. /\ lines' \in Seq(Nat) /\ Increasing'
      /\ \A i \in 1..Len(lines') :
           \E j \in 1..read : out[j] = "c" /\ LineOf(j) = lines'[i]
      /\ \A j \in 1..read : out[j] = "c" =>
           \E i \in 1..Len(lines') : lines'[i] = LineOf(j)
  <2>1. (held = 0 => lines' = lines) /\ (held # 0 => lines' = Append(lines, LineOf(read + 1)))
    BY <1>1, <1>3 DEF UpdateStream
  <2> QED BY <1>1, <2>1, StreamKept
<1>5. PipeInv'
  BY <1>1, <1>2, <1>4 DEF PipeInv
<1>6. Kept(Len(out), 0)'
  <2>1. \A k : LineOf(k)' = LineOf(k)
    BY <1>1 DEF LineOf
  <2> QED BY <1>1, <1>2, <1>4, <2>1 DEF Kept
<1> QED BY <1>1, <1>4, <1>5, <1>6 DEF LogInv

\* Every step keeps what the command has said.
LEMMA NextKept ==
  ASSUME LogInv, [Next]_vars
  PROVE  LogInv'
<1>1. CASE StartStep
  <2>1. lines' = <<>> /\ pc' = "starting" /\ UNCHANGED command
    BY <1>1 DEF StartStep
  <2> QED BY <2>1 DEF LogInv, PipeInv, Increasing, command
<1>2. CASE StartChild
  <2>1. pc = "starting" /\ lines = <<>> /\ lines' = <<>> /\ wrote' = 0 /\ read' = 0 /\ held' = 0
    BY <1>2 DEF StartChild, LogInv
  <2>2. CASE out' \in BoundedSeq(Bytes, MaxBytes) /\ child' = "running" /\ pc' = "scanning"
    <3>1. out' \in Seq(Bytes)
      <4>1. PICK n \in Nat : out' \in [1..n -> Bytes]
        BY <2>2, StepAssumption DEF BoundedSeq, SeqOf, StepAssumption
      <4> QED BY <4>1
    <3>2. PipeInv' /\ Increasing'
      BY <2>1, <2>2, <3>1 DEF PipeInv, Increasing
    <3>3. (held = Cardinality(InLine(read, LineOf(read + 1))))'
      <4>1. InLine(read, LineOf(read + 1))' = {}
        BY <2>1 DEF InLine
      <4> QED BY <2>1, <4>1, FS_EmptySet
    <3>4. (\A i \in 1..Len(lines) : lines[i] < LineOf(read + 1))'
      BY <2>1
    <3>5. Kept(read, LineOf(read + 1))'
      BY <2>1 DEF Kept
    <3> QED BY <2>2, <3>2, <3>3, <3>4, <3>5 DEF LogInv
  <2>3. CASE out' = <<>> /\ child' = "none" /\ pc' = "failed"
    <3>1. PipeInv' /\ Increasing'
      BY <2>1, <2>3 DEF PipeInv, Increasing
    <3>2. Kept(Len(out), 0)'
      BY <2>1, <2>3 DEF Kept
    <3> QED BY <2>3, <3>1, <3>2 DEF LogInv
  <2> QED BY <1>2, <2>2, <2>3 DEF StartChild, Bytes
<1>3. CASE Scan
  BY <1>3, ScanKept
<1>4. CASE Eof
  BY <1>4, EofKept
<1>5. ASSUME UNCHANGED <<out, read, held, lines>>, PipeInv',
             \/ pc' = pc
             \/ pc = "waiting" /\ pc' \in {"succeeded", "failed"}
             \/ pc = "succeeded" /\ pc' = "idle"
             \/ pc = "failed" /\ pc' = "ended"
      PROVE  LogInv'
  <2>1. \A k : LineOf(k)' = LineOf(k)
    BY <1>5 DEF LineOf
  <2>2. /\ InLine(read, LineOf(read + 1))' = InLine(read, LineOf(read + 1))
        /\ Kept(read, LineOf(read + 1))' <=> Kept(read, LineOf(read + 1))
        /\ Kept(Len(out), 0)' <=> Kept(Len(out), 0)
        /\ LineOf(read + 1)' = LineOf(read + 1)
        /\ TooLong' = TooLong
    BY <1>5 DEF InLine, Kept, TooLong, Filled, LineOf
  <2>3. Increasing'
    BY <1>5 DEF LogInv, Increasing
  <2> QED BY <1>5, <2>2, <2>3 DEF LogInv
<1>6. CASE Write
  <2>1. PipeInv'
    BY <1>6 DEF Write, LogInv, PipeInv
  <2> QED BY <1>5, <1>6, <2>1 DEF Write
<1>7. CASE Exit
  <2>1. PipeInv'
    BY <1>7 DEF Exit, LogInv, PipeInv
  <2> QED BY <1>5, <1>7, <2>1 DEF Exit
<1>8. CASE Wait \/ FinishSuccess \/ FinishError
  <2>1. /\ UNCHANGED <<out, wrote, read, held, child, lines>>
        /\ \/ pc = "waiting" /\ pc' \in {"succeeded", "failed"}
           \/ pc = "succeeded" /\ pc' = "idle"
           \/ pc = "failed" /\ pc' = "ended"
    BY <1>8 DEF Wait, FinishSuccess, FinishError, command
  <2>2. PipeInv'
    BY <2>1 DEF LogInv, PipeInv
  <2> QED BY <1>5, <2>1, <2>2
<1>9. CASE UNCHANGED vars
  <2>1. PipeInv'
    BY <1>9 DEF vars, command, LogInv, PipeInv
  <2> QED BY <1>5, <1>9, <2>1 DEF vars, command
<1> QED BY <1>1, <1>2, <1>3, <1>4, <1>6, <1>7, <1>8, <1>9 DEF Next

\* What is kept of the log, in every reachable state.
LEMMA LogInvCorrect == Spec => []LogInv
<1>1. Init => LogInv
  BY DEF Init, LogInv, PipeInv, Increasing
<1>2. LogInv /\ [Next]_vars => LogInv'
  BY NextKept
<1> QED BY <1>1, <1>2, PTL DEF Spec

\* What is kept and what is drawn make the end of the log.
LEMMA ShownIsTheEnd ==
  ASSUME Drawn, LogInv, pc = "ended", TooLong = {}
  PROVE  FailureShowsItsEnd
<1> DEFINE m == Len(Latest(lines))
           log == SubSeq(screen, step + 1, Len(screen))
           shown == {log[k].line : k \in DOMAIN log}
<1>1. /\ step \in Nat /\ lines \in Seq(Nat) /\ Len(lines) \in Nat /\ Increasing
      /\ screen \in Seq(RowType) /\ Len(screen) = step + m
      /\ Kept(Len(out), 0)
  BY DEF Drawn, CliTypes, ScreenRows, LogInv
<1>2. /\ m \in Nat /\ MaxLogs \in Nat /\ MaxLogs >= 1
      /\ m = IF Len(lines) > MaxLogs THEN MaxLogs ELSE Len(lines)
      /\ \A k \in 1..m : Latest(lines)[k] = lines[Len(lines) - m + k]
  <2>1. MaxLogs \in Nat /\ MaxLogs >= 1
    BY StepAssumption DEF StepAssumption
  <2>2. /\ m = IF Len(lines) > MaxLogs THEN MaxLogs ELSE Len(lines)
        /\ \A k \in 1..m : Latest(lines)[k] = lines[Len(lines) - m + k]
    BY <1>1, LatestLines, StepAssumption
  <2> QED BY <1>1, <2>1, <2>2
<1>3. ASSUME NEW k \in 1..m
      PROVE  screen[step + k].line = Latest(lines)[k]
  <2>1. screen[step + k] = Row("log", Latest(lines)[k])
    BY Zenon DEF Drawn, ScreenRows
  <2> DEFINE i == step + k
  <2>2. screen[i] = Row("log", Latest(lines)[k])
    BY <2>1
  <2> HIDE DEF i
  <2>3. screen[i].line = Latest(lines)[k]
    BY <2>2 DEF Row
  <2> QED BY <2>3 DEF i
<1> HIDE DEF m
<1> DEFINE n0 == Len(lines) - m
<1>11. /\ n0 \in Nat /\ Len(lines) = n0 + m
       /\ m <= MaxLogs /\ (n0 > 0 => m = MaxLogs)
  BY <1>1, <1>2
<1>12. \A k \in 1..m : Latest(lines)[k] = lines[n0 + k]
  BY <1>2
<1> HIDE DEF n0
<1>4. /\ Len(log) = m /\ DOMAIN log = 1..m
      /\ \A k \in 1..m : log[k] = screen[step + 1 + k - 1]
  <2> DEFINE first == step + 1
             last  == Len(screen)
  <2>1. first \in Int /\ last \in Int /\ \A k \in first..last : screen[k] \in RowType
    BY <1>1, <1>2
  <2>2. last - first + 1 = m /\ (first <= last <=> m >= 1)
    BY <1>1, <1>2
  <2> HIDE DEF first, last
  <2>3. /\ SubSeq(screen, first, last) \in Seq(RowType)
        /\ Len(SubSeq(screen, first, last)) = IF first <= last THEN last - first + 1 ELSE 0
        /\ \A k \in 1..(last - first + 1) :
             SubSeq(screen, first, last)[k] = screen[first + k - 1]
    BY <2>1, SubSeqProperties
  <2>4. log = SubSeq(screen, first, last)
    BY DEF first, last
  <2> HIDE DEF log
  <2>5. Len(log) = m
    BY <1>2, <2>2, <2>3, <2>4
  <2>6. \A k \in 1..m : log[k] = screen[first + k - 1]
    BY <2>2, <2>3, <2>4
  <2> QED BY <2>3, <2>4, <2>5, <2>6 DEF first
<1> HIDE DEF log
<1>5. ASSUME NEW k \in 1..m
      PROVE  n0 + k \in 1..Len(lines) /\ log[k].line = lines[n0 + k]
  <2>1. step + 1 + k - 1 = step + k
    BY <1>1, <1>2
  <2>2. log[k] = screen[step + k]
    BY <1>4, <2>1
  <2>3. n0 + k \in 1..Len(lines)
    BY <1>2, <1>11
  <2>4. screen[step + k].line = lines[n0 + k]
    BY <1>3, <1>12
  <2> QED BY <2>2, <2>3, <2>4
<1>6. \A j, k \in DOMAIN log : j < k => log[j].line < log[k].line
  <2> SUFFICES ASSUME NEW j \in 1..m, NEW k \in 1..m, j < k
               PROVE  log[j].line < log[k].line
    BY <1>4
  <2>1. n0 + j < n0 + k
    BY <1>2, <1>11
  <2>2. lines[n0 + j] < lines[n0 + k]
    BY <1>1, <1>5, <2>1 DEF Increasing
  <2> QED BY <1>5, <2>2
<1>7. \A n : n \in Said <=> \E i \in 1..Len(lines) : lines[i] = n
  <2>1. \A k \in 1..Len(out) : LineOf(k) # 0
    BY LineNumbers DEF LogInv, PipeInv
  <2>2. ASSUME NEW n \in Said PROVE \E i \in 1..Len(lines) : lines[i] = n
    <3>1. PICK k \in 1..Len(out) : out[k] = "c" /\ LineOf(k) = n
      BY DEF Said
    <3> QED BY <1>1, <2>1, <3>1 DEF Kept
  <2>3. ASSUME NEW i \in 1..Len(lines) PROVE lines[i] \in Said
    <3>1. PICK k \in 1..Len(out) : out[k] = "c" /\ LineOf(k) = lines[i]
      BY <1>1 DEF Kept
    <3> QED BY <3>1 DEF Said
  <2> QED BY <2>2, <2>3
<1>8. shown \subseteq Said
  BY <1>4, <1>5, <1>7
<1>9. ASSUME NEW n \in Said \ shown
      PROVE  Len(log) = MaxLogs /\ \A l \in shown : n < l
  <2>1. PICK i \in 1..Len(lines) : lines[i] = n
    BY <1>7
  <2>2. i <= n0
    <3> SUFFICES ASSUME ~(i <= n0) PROVE FALSE
      OBVIOUS
    <3> DEFINE k == i - n0
    <3>1. k \in 1..m /\ n0 + k = i
      BY <1>2, <1>11
    <3> HIDE DEF k
    <3>2. log[k].line = n
      BY <1>5, <2>1, <3>1
    <3> QED BY <1>4, <3>1, <3>2
  <2>3. Len(log) = MaxLogs
    BY <1>4, <1>11, <2>2
  <2>4. ASSUME NEW k \in 1..m
        PROVE  n < log[k].line
    <3>1. i < n0 + k
      BY <1>2, <1>11, <2>2
    <3>2. lines[i] < lines[n0 + k]
      BY <1>1, <1>5, <3>1 DEF Increasing
    <3> QED BY <1>5, <2>1, <3>2
  <2> QED BY <1>4, <2>3, <2>4
<1>10. Len(log) <= MaxLogs
  BY <1>4, <1>11
<1> QED BY <1>6, <1>8, <1>9, <1>10 DEF FailureShowsItsEnd, log

\* For every command, every interleaving of its writes with the scanner, and
\* every size of the buffers: after a failure the log on the screen is the end
\* of all that the command said, unless a line did not fit the scanner.
THEOREM FailureShowsItsEndCorrect == Spec => []FailureShowsItsEnd
<1>1. Drawn /\ LogInv => FailureShowsItsEnd
  BY ShownIsTheEnd DEF FailureShowsItsEnd
<1> QED BY <1>1, DrawnCorrect, LogInvCorrect, PTL
==============================================================================
