------------------------------ MODULE ToolProofs ------------------------------
(***************************************************************************)
(* Theorems about what waits for others: the ralph loop, for every         *)
(* ceiling, request and set of reports; the question whether a bash call   *)
(* may run wider, for every set of calls, any finite set of browsers and   *)
(* any number of answers and connections; and the activation of services,  *)
(* for every registry and list of entries.                                 *)
(***************************************************************************)
EXTENDS Ralph, Approvals, Activation, FiniteSetTheorems, SequenceTheorems, TLAPS

-----------------------------------------------------------------------------
(* The ralph loop.                                                         *)

AllReports == Reports \cup {NoReport}
Prompts == [round : Nat, of : Nat, prior : AllReports]
Children == [pc : {"off", "ask", "tools"}, structured : AllReports, concluded : BOOLEAN]

LoopTyped ==
  /\ loop \in {"idle", "check", "spawn", "child", "report", "done", "down"}
  /\ maxRounds \in Nat /\ round \in Nat /\ late \in Nat
  /\ cancelled \in BOOLEAN
  /\ previous \in AllReports /\ child \in Children
  /\ said \in Seq(AllReports) /\ told \in Seq(Prompts)

\* What the child of round n is to be told.
Prior(n) == IF n = 1 THEN NoReport ELSE said[n - 1]

\* The child of this round has handed in nothing, or what is recorded of it.
HandedIn ==
  \/ Len(said) = round - 1 /\ child.structured = NoReport
  \/ Len(said) = round /\ child.structured # NoReport /\ said[round] = child.structured

\* Where the loop is, its round is among those it may do, and the histories
\* have come as far.
InRound ==
  /\ loop = "idle" => round = 0 /\ said = <<>> /\ told = <<>> /\ previous = NoReport
  /\ loop \in {"check", "spawn", "child", "report"} =>
       /\ maxRounds >= 1 /\ round >= 1 /\ round <= maxRounds + 1
       /\ previous = Prior(round)
  /\ loop \in {"spawn", "child", "report"} => round <= maxRounds
  /\ loop \in {"check", "spawn"} => Len(said) = round - 1 /\ Len(told) = round - 1
  /\ loop = "child" => Len(told) = round /\ HandedIn
  /\ loop = "report" => /\ Len(told) \in {round - 1, round} /\ HandedIn
                        /\ Len(said) = round => Len(told) = round
  /\ child.pc # "off" => loop = "child"

\* Every round before this one asked to go on, and every prompt is as it should be.
Histories ==
  /\ \A k \in DOMAIN said : k < round => Continuing(said[k])
  /\ \A n \in DOMAIN told :
       /\ told[n] = [round |-> n, of |-> maxRounds, prior |-> Prior(n)]
       /\ n <= maxRounds /\ n <= round
       /\ n > 1 => n - 1 \in DOMAIN said

\* Only the child that was about to start starts after a cancel.
Cancels == late <= 1 /\ (~cancelled => late = 0) /\ (loop = "spawn" => late = 0)

Results == (loop # "done" => result = NoResult) /\ ResultIsWhatWasSaid

\* The inductive invariant.
LoopInv == LoopTyped /\ InRound /\ Histories /\ Cancels /\ Results

-----------------------------------------------------------------------------
\* A report that counts has one of three verdicts.
LEMMA Verdicts ==
  ASSUME NEW r, IsReport(r)
  PROVE  r.status \in {"continue", "complete", "blocked"}
BY DEF IsReport

\* What a history keeps when it grows.
LEMMA Grows ==
  ASSUME NEW S, NEW s \in Seq(S), NEW e \in S
  PROVE  /\ Append(s, e) \in Seq(S) /\ Len(Append(s, e)) = Len(s) + 1
         /\ DOMAIN Append(s, e) = 1..(Len(s) + 1) /\ DOMAIN s = 1..Len(s)
         /\ \A k \in DOMAIN s : Append(s, e)[k] = s[k]
         /\ Append(s, e)[Len(s) + 1] = e
BY AppendProperties

\* Steps that leave the histories and the round alone.
LEMMA SameHistories ==
  ASSUME Histories, UNCHANGED <<maxRounds, round, told, said>>
  PROVE  Histories'
BY DEF Histories, Prior

\* Steps that do not return, and returns that give no verdict.
LEMMA NotYet ==
  ASSUME Results, loop # "done", loop' # "done", result' = result
  PROVE  Results'
BY DEF Results, ResultIsWhatWasSaid, NoResult

LEMMA NoVerdict ==
  ASSUME NEW why, Return(Failed(why)),
         why \notin {"complete", "blocked", "budget-limited", "round-failed"}
  PROVE  Results'
BY DEF Return, Failed, Results, ResultIsWhatWasSaid

LEMMA InitStep == RalphInit => LoopInv
<1> SUFFICES ASSUME RalphInit PROVE LoopInv
  OBVIOUS
<1>0. NoChild \in Children /\ NoReport \in AllReports
  BY DEF NoChild, Children, AllReports
<1>1. LoopTyped
  <2>1. /\ loop \in {"idle", "check", "spawn", "child", "report", "done", "down"}
        /\ maxRounds \in Nat /\ round \in Nat /\ late \in Nat /\ cancelled \in BOOLEAN
    BY DEF RalphInit
  <2>2. previous \in AllReports /\ child \in Children
    BY <1>0 DEF RalphInit
  <2>3. said \in Seq(AllReports) /\ told \in Seq(Prompts)
    BY DEF RalphInit
  <2> QED BY <2>1, <2>2, <2>3 DEF LoopTyped
<1>3. InRound /\ Histories /\ Cancels
  BY DEF RalphInit, InRound, Histories, Cancels, NoChild
<1>2. Results
  BY DEF RalphInit, Results, ResultIsWhatWasSaid, NoResult
<1> QED BY <1>1, <1>2, <1>3 DEF LoopInv

-----------------------------------------------------------------------------
(* One lemma per action.                                                   *)

LEMMA ExecuteStep == LoopInv /\ Execute => LoopInv'
<1> SUFFICES ASSUME LoopInv, Execute PROVE LoopInv'
  OBVIOUS
<1>0. loop = "idle" /\ round = 0 /\ said = <<>> /\ told = <<>> /\ result = NoResult
  BY DEF LoopInv, Execute, InRound, Results
<1>1. CASE Return(Failed("refused")) /\ UNCHANGED <<maxRounds, round>>
  <2>1. LoopTyped' /\ InRound' /\ Histories' /\ Cancels'
    BY <1>0, <1>1 DEF LoopInv, Execute, Return, LoopTyped, InRound, Histories, Cancels, HandedIn, Prior
  <2>2. Results'
    BY <1>1, NoVerdict
  <2> QED BY <2>1, <2>2 DEF LoopInv
<1>2. ASSUME NEW requested \in Requests, requested <= Ceiling,
             maxRounds' = resolveMaxRounds(requested), round' = 1, loop' = "check",
             UNCHANGED <<previous, child, cancelled, told, said, late, result>>
      PROVE  LoopInv'
  <2>1. maxRounds' \in Nat /\ maxRounds' >= 1
    BY <1>2, RalphAssumption DEF resolveMaxRounds
  <2>2. LoopTyped' /\ Cancels'
    BY <1>0, <1>2, <2>1 DEF LoopInv, LoopTyped, Cancels
  <2>3. InRound'
    BY <1>0, <1>2, <2>1 DEF LoopInv, LoopTyped, InRound, Prior, HandedIn
  <2>4. Histories'
    BY <1>0, <1>2 DEF Histories
  <2>5. Results'
    BY <1>0, <1>2 DEF LoopInv, Results, ResultIsWhatWasSaid, NoResult
  <2> QED BY <2>2, <2>3, <2>4, <2>5 DEF LoopInv
<1> QED BY <1>1, <1>2, RalphAssumption DEF Execute

LEMMA CheckStep == LoopInv /\ Check => LoopInv'
<1> SUFFICES ASSUME LoopInv, Check PROVE LoopInv'
  OBVIOUS
<1>0. /\ loop = "check" /\ loop' \in {"done", "spawn"}
      /\ UNCHANGED <<maxRounds, round, previous, child, cancelled, told, said, late>>
  BY DEF Check, Return
<1>1. LoopTyped'
  BY <1>0 DEF LoopInv, LoopTyped
<1>2. loop' = "spawn" => round <= maxRounds /\ ~cancelled
  BY DEF Check, Return, LoopInv, LoopTyped
<1>3. InRound'
  BY <1>0, <1>2 DEF LoopInv, InRound, HandedIn, Prior
<1>4. Histories'
  BY <1>0, SameHistories DEF LoopInv
<1>5. Cancels'
  BY <1>0, <1>2 DEF LoopInv, Cancels
<1>6. Results'
  <2>1. CASE round > maxRounds
    <3>1. /\ loop' = "done" /\ result' = Outcome("budget-limited", maxRounds, previous)
      BY <1>0, <2>1 DEF Check, Return
    <3>2. /\ Len(said) = maxRounds /\ maxRounds >= 1 /\ round = maxRounds + 1
          /\ previous = said[maxRounds]
      BY <1>0, <2>1 DEF LoopInv, LoopTyped, InRound, Prior
    <3>3. \A k \in 1..Len(said) : Continuing(said[k])
      BY <3>2 DEF LoopInv, Histories, LoopTyped
    <3> QED BY <1>0, <3>1, <3>2, <3>3 DEF Results, ResultIsWhatWasSaid, Outcome, LoopInv, LoopTyped
  <2>2. CASE round <= maxRounds /\ cancelled
    BY <1>0, <2>2, NoVerdict DEF Check, LoopInv, LoopTyped
  <2>3. CASE round <= maxRounds /\ ~cancelled
    BY <1>0, <2>3, NotYet DEF Check, LoopInv, LoopTyped
  <2> QED BY <2>1, <2>2, <2>3 DEF LoopInv, LoopTyped
<1> QED BY <1>1, <1>3, <1>4, <1>5, <1>6 DEF LoopInv

LEMMA SpawnStep == LoopInv /\ Spawn => LoopInv'
<1> SUFFICES ASSUME LoopInv, Spawn PROVE LoopInv'
  OBVIOUS
<1>0. /\ loop = "spawn" /\ loop' \in {"child", "report"}
      /\ UNCHANGED <<maxRounds, round, previous, cancelled, result, said>>
      /\ child'.structured = NoReport
  BY DEF Spawn, NoChild
<1>1. Results'
  BY <1>0, NotYet DEF LoopInv
<1>2. /\ round \in 1..maxRounds /\ Len(said) = round - 1 /\ Len(told) = round - 1
      /\ previous = Prior(round) /\ late = 0
  BY <1>0 DEF LoopInv, LoopTyped, InRound, Cancels
<1>3. HandedIn'
  BY <1>0, <1>2 DEF HandedIn
<1>4. CASE loop' = "report" /\ child' = NoChild /\ UNCHANGED <<told, late>>
  <2>1. LoopTyped' /\ Cancels'
    BY <1>0, <1>4 DEF LoopInv, LoopTyped, Cancels, Children, NoChild, AllReports
  <2>2. InRound'
    BY <1>0, <1>2, <1>3, <1>4 DEF InRound, Prior, NoChild, LoopTyped, LoopInv
  <2>3. Histories'
    BY <1>0, <1>4, SameHistories DEF LoopInv
  <2> QED BY <1>1, <2>1, <2>2, <2>3 DEF LoopInv
<1>5. ASSUME loop' = "child", child' = [NoChild EXCEPT !.pc = "ask"],
             told' = Append(told, [round |-> round, of |-> maxRounds, prior |-> previous]),
             late' = IF cancelled THEN late + 1 ELSE late
      PROVE  LoopInv'
  <2> DEFINE prompt == [round |-> round, of |-> maxRounds, prior |-> previous]
  <2>1. prompt \in Prompts /\ told \in Seq(Prompts)
    BY DEF Prompts, LoopInv, LoopTyped
  <2>2. /\ told' \in Seq(Prompts) /\ Len(told') = round
        /\ DOMAIN told' = 1..round /\ DOMAIN told = 1..(round - 1)
        /\ \A n \in DOMAIN told : told'[n] = told[n]
        /\ told'[round] = prompt
    BY <1>2, <1>5, <2>1, Grows DEF LoopInv, LoopTyped
  <2> HIDE DEF prompt
  <2>3. child' \in Children /\ child'.pc = "ask"
    BY <1>5 DEF NoChild, Children, AllReports
  <2>4. LoopTyped' /\ Cancels'
    BY <1>0, <1>2, <1>5, <2>2, <2>3 DEF LoopInv, LoopTyped, Cancels
  <2>5. InRound'
    BY <1>0, <1>2, <1>3, <1>5, <2>2, <2>3 DEF InRound, Prior, LoopTyped, LoopInv
  <2>6. Histories'
    <3>1. \A k \in DOMAIN said' : k < round' => Continuing(said'[k])
      BY <1>0 DEF LoopInv, Histories
    <3>2. ASSUME NEW n \in DOMAIN told'
          PROVE  /\ told'[n] = [round |-> n, of |-> maxRounds', prior |-> Prior(n)']
                 /\ n <= maxRounds' /\ n <= round'
                 /\ n > 1 => n - 1 \in DOMAIN said'
      <4>1. CASE n = round
        BY <1>0, <1>2, <2>2, <4>1 DEF Prior, prompt, LoopInv, LoopTyped
      <4>2. CASE n \in DOMAIN told
        BY <1>0, <2>2, <4>2 DEF Prior, LoopInv, Histories
      <4> QED BY <2>2, <4>1, <4>2 DEF LoopInv, LoopTyped
    <3> QED BY <3>1, <3>2 DEF Histories
  <2> QED BY <1>1, <2>4, <2>5, <2>6 DEF LoopInv
<1> QED BY <1>4, <1>5 DEF Spawn

LEMMA ChildStepKeeps == LoopInv /\ ChildStep => LoopInv'
<1> SUFFICES ASSUME LoopInv, ChildStep PROVE LoopInv'
  OBVIOUS
<1>0. /\ loop = "child" /\ loop' \in {"child", "report", "down"}
      /\ UNCHANGED <<maxRounds, round, previous, cancelled, result, told, late>>
  BY DEF ChildStep, ChildAsks, ChildEnds, StructuredOutput, ChildToolErrs, ChildToolsDone, LoopInv, InRound
<1>1. Results' /\ Cancels'
  BY <1>0, NotYet DEF LoopInv, Cancels
<1>2. /\ round \in 1..maxRounds /\ Len(told) = round /\ previous = Prior(round) /\ HandedIn
  BY <1>0 DEF LoopInv, LoopTyped, InRound
<1>3. CASE StructuredOutput
  <2> PICK r \in Reports :
        /\ child' = [child EXCEPT !.structured = IF @ = NoReport THEN r ELSE @,
                                  !.concluded = TRUE]
        /\ said' = IF Len(said) = round THEN said ELSE Append(said, r)
    BY <1>3 DEF StructuredOutput
  <2>0. r \in AllReports /\ r # NoReport /\ said \in Seq(AllReports) /\ loop' = "child"
    BY <1>0, <1>3, RalphAssumption DEF AllReports, LoopInv, LoopTyped, StructuredOutput
  <2>1. /\ child' \in Children /\ child'.structured # NoReport
        /\ child'.structured = IF child.structured = NoReport THEN r ELSE child.structured
    BY <2>0 DEF LoopInv, LoopTyped, Children
  <2>2. /\ said' \in Seq(AllReports) /\ Len(said') = round /\ said'[round] = child'.structured
        /\ \A k \in 1..(round - 1) : said'[k] = said[k]
        /\ DOMAIN said' = 1..round
    <3>1. CASE Len(said) = round
      BY <1>2, <2>0, <2>1, <3>1 DEF HandedIn, LoopInv, LoopTyped
    <3>2. CASE Len(said) = round - 1 /\ child.structured = NoReport
      <4>1. said' = Append(said, r) /\ child'.structured = r /\ DOMAIN said = 1..(round - 1)
        BY <2>0, <2>1, <3>2 DEF LoopInv, LoopTyped
      <4> QED BY <1>2, <2>0, <3>2, <4>1, Grows DEF LoopInv, LoopTyped
    <3> QED BY <1>2, <3>1, <3>2 DEF HandedIn
  <2>3. LoopTyped'
    BY <1>0, <2>1, <2>2 DEF LoopInv, LoopTyped
  <2>4. InRound'
    BY <1>0, <1>2, <2>0, <2>1, <2>2 DEF InRound, HandedIn, Prior, LoopInv, LoopTyped
  <2>5. Histories'
    <3>1. \A k \in DOMAIN said' : k < round => k \in DOMAIN said
      BY <1>2, <2>0, <2>2 DEF HandedIn, LoopInv, LoopTyped
    <3>2. \A k \in DOMAIN said' : k < round' => Continuing(said'[k])
      BY <1>0, <2>2, <3>1 DEF LoopInv, Histories, LoopTyped
    <3>3. \A n \in DOMAIN told : n \in 1..round /\ Prior(n)' = Prior(n) /\ (n > 1 => n - 1 \in DOMAIN said')
      BY <1>0, <1>2, <2>2 DEF Prior, LoopInv, LoopTyped
    <3> QED BY <1>0, <3>2, <3>3 DEF LoopInv, Histories
  <2> QED BY <1>1, <2>3, <2>4, <2>5 DEF LoopInv
<1>4. CASE ChildAsks \/ ChildEnds \/ ChildToolErrs \/ ChildToolsDone
  <2>1. /\ UNCHANGED said /\ child' \in Children /\ child'.structured = child.structured
        /\ child'.pc # "off" => loop' = "child"
    BY <1>0, <1>4 DEF ChildAsks, ChildEnds, ChildToolErrs, ChildToolsDone, LoopInv, LoopTyped, Children, InRound
  <2>2. LoopTyped' /\ Histories'
    BY <1>0, <2>1, SameHistories DEF LoopInv, LoopTyped
  <2>3. InRound'
    BY <1>0, <1>2, <2>1 DEF InRound, HandedIn, Prior, LoopInv, LoopTyped
  <2> QED BY <1>1, <2>2, <2>3 DEF LoopInv
<1> QED BY <1>3, <1>4 DEF ChildStep

LEMMA TakeReportStep == LoopInv /\ TakeReport => LoopInv'
<1> SUFFICES ASSUME LoopInv, TakeReport PROVE LoopInv'
  OBVIOUS
<1> DEFINE r == child.structured
<1>0. /\ loop = "report" /\ loop' \in {"check", "done"}
      /\ UNCHANGED <<maxRounds, child, cancelled, told, late>>
      /\ said' = IF Len(said) = round THEN said ELSE Append(said, NoReport)
  BY DEF TakeReport, Return
<1>1. /\ round \in 1..maxRounds /\ Len(told) \in {round - 1, round}
      /\ previous = Prior(round) /\ HandedIn /\ child.pc = "off"
      /\ r \in AllReports /\ said \in Seq(AllReports) /\ NoReport \in AllReports
  BY <1>0 DEF LoopInv, LoopTyped, InRound, Children, AllReports
<1>2. /\ said' \in Seq(AllReports) /\ Len(said') = round /\ said'[round] = r
      /\ DOMAIN said' = 1..round
      /\ \A k \in 1..(round - 1) : k \in DOMAIN said /\ said'[k] = said[k]
  <2>1. CASE Len(said) = round /\ r # NoReport /\ said[round] = r
    BY <1>0, <1>1, <2>1
  <2>2. CASE Len(said) = round - 1 /\ r = NoReport
    <3>1. said' = Append(said, NoReport) /\ DOMAIN said = 1..(round - 1)
      BY <1>0, <1>1, <2>2
    <3> QED BY <1>1, <2>2, <3>1, Grows
  <2> QED BY <1>1, <2>1, <2>2 DEF HandedIn
<1>3. \A k \in 1..(round - 1) : Continuing(said'[k])
  BY <1>1, <1>2 DEF LoopInv, Histories, LoopTyped
<1>4. Cancels'
  BY <1>0 DEF LoopInv, Cancels
<1>5. \A n \in 1..round : Prior(n)' = Prior(n)
  BY <1>1, <1>2 DEF Prior
<1>6. \A n \in DOMAIN told : n \in 1..round
  BY <1>1 DEF LoopInv, LoopTyped
<1> HIDE DEF r
<1>7. CASE loop' = "done" /\ UNCHANGED <<round, previous>>
  <2>1. LoopTyped'
    BY <1>0, <1>2, <1>7 DEF LoopInv, LoopTyped
  <2>2. InRound'
    BY <1>0, <1>1, <1>7 DEF InRound
  <2>3. Histories'
    BY <1>0, <1>1, <1>2, <1>3, <1>5, <1>6, <1>7 DEF LoopInv, Histories
  <2>4. Results'
    <3>1. CASE r = NoReport
      <4>1. result' = Outcome("round-failed", round, previous)
        BY <3>1 DEF TakeReport, Return, r
      <4>2. previous = IF round = 1 THEN NoReport ELSE said'[round - 1]
        BY <1>1, <1>2 DEF Prior
      <4> QED BY <1>1, <1>2, <1>3, <1>0, <1>7, <3>1, <4>1, <4>2
                DEF Results, ResultIsWhatWasSaid, Outcome, LoopInv, LoopTyped
    <3>2. CASE r # NoReport /\ ~IsReport(r)
      BY <3>2, NoVerdict DEF TakeReport, r
    <3>3. CASE r # NoReport /\ IsReport(r)
      <4>1. r.status # "continue" /\ result' = Outcome(r.status, round, r)
        BY <1>7, <3>3 DEF TakeReport, Return, r
      <4>2. r.status \in {"complete", "blocked"}
        BY <3>3, <4>1, Verdicts
      <4>3. result'.status = r.status /\ result'.rounds = round /\ result'.report = r
        BY <4>1 DEF Outcome
      <4> QED BY <1>0, <1>1, <1>2, <1>3, <1>7, <3>3, <4>2, <4>3
                DEF Results, ResultIsWhatWasSaid, LoopInv, LoopTyped
    <3> QED BY <3>1, <3>2, <3>3
  <2> QED BY <1>4, <2>1, <2>2, <2>3, <2>4 DEF LoopInv
<1>8. CASE loop' = "check"
  <2>1. /\ r # NoReport /\ IsReport(r) /\ r.status = "continue"
        /\ round' = round + 1 /\ previous' = r /\ UNCHANGED result
    BY <1>8 DEF TakeReport, Return, r
  <2>2. Continuing(said'[round]) /\ Len(told) = round
    <3>1. Len(said) = round
      BY <1>1, <2>1 DEF HandedIn, r
    <3>2. Len(told) = round
      BY <1>0, <1>1, <2>1, <3>1 DEF LoopInv, InRound
    <3> QED BY <1>2, <2>1, <3>2 DEF Continuing
  <2>3. LoopTyped'
    BY <1>0, <1>1, <1>2, <2>1 DEF LoopInv, LoopTyped
  <2>4. InRound'
    <3>1. Prior(round)' = r /\ maxRounds \in Nat
      BY <1>1, <1>2, <2>1 DEF Prior, LoopInv, LoopTyped
    <3> QED BY <1>0, <1>1, <1>2, <1>8, <2>1, <2>2, <3>1 DEF InRound
  <2>5. Histories'
    <3>1. \A k \in DOMAIN said' : k < round' => Continuing(said'[k])
      BY <1>1, <1>2, <1>3, <2>1, <2>2
    <3>2. ASSUME NEW n \in DOMAIN told'
          PROVE  /\ told'[n] = [round |-> n, of |-> maxRounds', prior |-> Prior(n)']
                 /\ n <= maxRounds' /\ n <= round'
                 /\ n > 1 => n - 1 \in DOMAIN said'
      BY <1>0, <1>1, <1>2, <1>5, <1>6, <2>1 DEF LoopInv, Histories
    <3> QED BY <3>1, <3>2 DEF Histories
  <2>6. Results'
    BY <1>0, <1>8, <2>1, NotYet DEF LoopInv
  <2> QED BY <1>4, <2>3, <2>4, <2>5, <2>6 DEF LoopInv
<1> QED BY <1>0, <1>7, <1>8 DEF TakeReport, Return

LEMMA CancelStep == LoopInv /\ CancelCall => LoopInv'
<1> SUFFICES ASSUME LoopInv, CancelCall PROVE LoopInv'
  OBVIOUS
<1>0. /\ loop \notin {"idle", "done", "down"} /\ cancelled' = TRUE
      /\ UNCHANGED <<loop, maxRounds, round, previous, child, result, told, said, late>>
  BY DEF CancelCall
<1>1. LoopTyped' /\ InRound' /\ Cancels'
  BY <1>0 DEF LoopInv, LoopTyped, InRound, HandedIn, Prior, Cancels
<1>2. Histories' /\ Results'
  BY <1>0, SameHistories, NotYet DEF LoopInv
<1> QED BY <1>1, <1>2 DEF LoopInv

LEMMA LoopInvariance == RalphSpec => []LoopInv
<1>1. LoopInv /\ [RalphNext]_ralphVars => LoopInv'
  <2> SUFFICES ASSUME LoopInv, [RalphNext]_ralphVars PROVE LoopInv'
    OBVIOUS
  <2>1. CASE RalphNext
    BY <2>1, ExecuteStep, CheckStep, SpawnStep, ChildStepKeeps, TakeReportStep, CancelStep
       DEF RalphNext, LoopStep
  <2>2. CASE UNCHANGED ralphVars
    BY <2>2 DEF ralphVars, LoopInv, LoopTyped, InRound, HandedIn, Prior, Histories, Cancels, Results,
                ResultIsWhatWasSaid
  <2> QED BY <2>1, <2>2
<1> QED BY <1>1, InitStep, PTL DEF RalphSpec

-----------------------------------------------------------------------------
\* Every variable of a ralph call keeps its type.
THEOREM LoopTypeCorrect == RalphSpec => []LoopTyped
<1>1. LoopInv => LoopTyped
  BY DEF LoopInv
<1> QED BY <1>1, LoopInvariance, PTL

\* Each child is told what the one before it reported, and every child before
\* the last asked to go on, for every ceiling (ralph.go:171-208).
THEOREM HandoffsFresh == RalphSpec => []HandoffIsFresh
<1>1. LoopInv => HandoffIsFresh
  BY DEF LoopInv, LoopTyped, Histories, HandoffIsFresh, Prior
<1> QED BY <1>1, LoopInvariance, PTL

\* The tool returns what its children handed in, whatever they hand in
\* (ralph.go:183-211).
THEOREM ResultsTrue == RalphSpec => []ResultIsWhatWasSaid
<1>1. LoopInv => ResultIsWhatWasSaid
  BY DEF LoopInv, Results
<1> QED BY <1>1, LoopInvariance, PTL

\* After a cancel at most the child starts that was about to (ralph.go:173).
THEOREM CancelsStop == RalphSpec => []CancelStartsNoRound
<1>1. LoopInv => CancelStartsNoRound
  BY DEF LoopInv, Cancels, CancelStartsNoRound
<1> QED BY <1>1, LoopInvariance, PTL

-----------------------------------------------------------------------------
(* Approvals.                                                              *)

\* A question is only on the screen of a browser that is there.
OnScreen ==
  \A e \in Calls, c \in Clients : e \in dialogs[c] => c \in online

\* A waterfall that is not settled has adopted nothing but "next", and what is
\* in its channel it has adopted.
Channel ==
  \A e \in Calls :
    /\ ~waterfall[e].settled => \A i \in DOMAIN answers[e] : answers[e][i].kind = "next"
    /\ ch[e] # "empty" => waterfall[e].settled
    /\ ch[e] = "allowed-once" => Approved(e)

\* What the place of a call says about its question.
Question ==
  \A e \in Calls :
    /\ call[e].pc = "off" => \A c \in Clients : e \notin dialogs[c]
    /\ call[e].pc = "asking" => Asks(call[e].want)
    /\ call[e].pc = "cancelling" =>
         \A c \in Clients : e \in dialogs[c] => c \in waterfall[e].todo

\* The inductive invariant.
IInv == TypeOK /\ OnScreen /\ Channel /\ Question /\ RunsAsApproved /\ DialogsCleared

-----------------------------------------------------------------------------
(* Updates of the record of one call, of one waterfall and of one browser.  *)

Places == {"off", "asking", "cancelling"} \cup Ended

LEMMA CallUpdate ==
  ASSUME NEW C \in [Calls -> CallStates], NEW e \in Calls, NEW pc \in Places
  PROVE  /\ [C EXCEPT ![e].pc = pc] \in [Calls -> CallStates]
         /\ \A m \in Modes \cup {"none"} : [C EXCEPT ![e].pc = pc, ![e].mode = m] \in [Calls -> CallStates]
         /\ \A m \in Modes \cup {"none"} : [C EXCEPT ![e].pc = pc, ![e].want = m] \in [Calls -> CallStates]
<1>1. [C EXCEPT ![e].pc = pc] \in [Calls -> CallStates]
  BY DEF CallStates, Places
<1>2. \A m \in Modes \cup {"none"} : [C EXCEPT ![e].pc = pc, ![e].mode = m] \in [Calls -> CallStates]
  BY DEF CallStates, Places
<1>3. \A m \in Modes \cup {"none"} : [C EXCEPT ![e].pc = pc, ![e].want = m] \in [Calls -> CallStates]
  BY DEF CallStates, Places
<1> QED BY <1>1, <1>2, <1>3

LEMMA AnswerUpdate ==
  ASSUME NEW W \in [Calls -> Waterfalls], NEW e \in Calls
  PROVE  /\ \A b \in BOOLEAN :
              [W EXCEPT ![e].nextCount = @ + 1, ![e].settled = b] \in [Calls -> Waterfalls]
         /\ [W EXCEPT ![e].settled = TRUE] \in [Calls -> Waterfalls]
         /\ [W EXCEPT ![e].listed = FALSE] \in [Calls -> Waterfalls]
<1>1. ASSUME NEW b \in BOOLEAN
      PROVE  [W EXCEPT ![e].nextCount = @ + 1, ![e].settled = b] \in [Calls -> Waterfalls]
  <2>1. ASSUME NEW k \in Nat
        PROVE  [W EXCEPT ![e].nextCount = k, ![e].settled = b] \in [Calls -> Waterfalls]
    BY DEF Waterfalls
  <2>2. W[e].nextCount + 1 \in Nat
    BY DEF Waterfalls
  <2> QED BY <2>1, <2>2
<1>2. [W EXCEPT ![e].settled = TRUE] \in [Calls -> Waterfalls]
  BY DEF Waterfalls
<1>3. [W EXCEPT ![e].listed = FALSE] \in [Calls -> Waterfalls]
  BY DEF Waterfalls
<1> QED BY <1>1, <1>2, <1>3

LEMMA DeliveryUpdate ==
  ASSUME NEW W \in [Calls -> Waterfalls], NEW e \in Calls, NEW S \in SUBSET Clients
  PROVE  /\ \A n \in 0..Cardinality(Clients) :
              [W EXCEPT ![e].listed = TRUE, ![e].totalConns = n, ![e].todo = S]
                \in [Calls -> Waterfalls]
         /\ [W EXCEPT ![e].todo = S] \in [Calls -> Waterfalls]
         /\ \A D \in SUBSET Clients :
              [W EXCEPT ![e].todo = S, ![e].delivered = D] \in [Calls -> Waterfalls]
<1>1. \A n \in 0..Cardinality(Clients) :
        [W EXCEPT ![e].listed = TRUE, ![e].totalConns = n, ![e].todo = S] \in [Calls -> Waterfalls]
  BY DEF Waterfalls
<1>2. [W EXCEPT ![e].todo = S] \in [Calls -> Waterfalls]
  BY DEF Waterfalls
<1>3. \A D \in SUBSET Clients :
        [W EXCEPT ![e].todo = S, ![e].delivered = D] \in [Calls -> Waterfalls]
  BY DEF Waterfalls
<1> QED BY <1>1, <1>2, <1>3

LEMMA SpentUpdate ==
  ASSUME NEW P \in Spent
  PROVE  /\ P.posts < MaxPosts => [P EXCEPT !.posts = @ + 1] \in Spent
         /\ P.joins < MaxJoins => [P EXCEPT !.joins = @ + 1] \in Spent
BY ApprovalsAssumption DEF Spent

-----------------------------------------------------------------------------
(* Types.                                                                  *)

LEMMA InitTyped == Init => TypeOK
<1> SUFFICES ASSUME Init PROVE TypeOK
  OBVIOUS
<1>1. Cardinality(Clients) \in Nat
  BY ApprovalsAssumption, FS_CardinalityType
<1>2. call \in [Calls -> CallStates] /\ waterfall \in [Calls -> Waterfalls]
  BY <1>1 DEF Init, CallStates, Waterfalls
<1>3. spent \in Spent
  BY ApprovalsAssumption DEF Init, Spent
<1>4. answers \in [Calls -> Seq(Posts)] /\ posts \subseteq Posts
  BY DEF Init
<1> QED BY <1>2, <1>3, <1>4 DEF Init, TypeOK

LEMMA BrowserTyped ==
  ASSUME TypeOK, NEW c \in Clients,
         \/ Join(c) \/ Leave(c) \/ StopsReading(c)
         \/ \E e \in Calls, outcome \in Outcomes : Post(c, e, outcome)
  PROVE  TypeOK'
<1> USE DEF TypeOK
<1>1. CASE Join(c)
  BY <1>1, SpentUpdate DEF Join
<1>2. CASE Leave(c)
  BY <1>2 DEF Leave
<1>4. CASE StopsReading(c)
  BY <1>4 DEF StopsReading
<1>3. ASSUME NEW e \in Calls, NEW outcome \in Outcomes, Post(c, e, outcome)
      PROVE  TypeOK'
  <2>1. spent.posts \in 0..MaxPosts
    BY DEF Spent
  <2>2. posts' \subseteq Posts
    BY <1>3, <2>1 DEF Post, Posts
  <2>3. spent' \in Spent
    BY <1>3, SpentUpdate DEF Post
  <2> QED BY <1>3, <2>2, <2>3 DEF Post
<1> QED BY <1>1, <1>2, <1>3, <1>4

LEMMA SubmitTyped ==
  ASSUME TypeOK, NEW p \in posts, submitResult(p)
  PROVE  TypeOK'
<1> USE DEF TypeOK
<1>1. p \in Posts /\ p.event \in Calls /\ p.kind \in Outcomes
  BY DEF Posts
<1>2. posts' \subseteq Posts /\ UNCHANGED <<sandbox, online, deaf, dialogs, call, writing, spent>>
  BY DEF submitResult
<1>3. CASE waterfall[p.event].settled /\ UNCHANGED <<waterfall, ch, answers>>
  BY <1>2, <1>3
<1>4. CASE SubmitNext(p)
  <2>1. answers' \in [Calls -> Seq(Posts)]
    BY <1>1, <1>4 DEF SubmitNext, Adopt
  <2>2. ch' \in [Calls -> Outcomes \cup {"empty"}]
    BY <1>1, <1>4 DEF SubmitNext, Send, Outcomes
  <2>3. PICK b \in BOOLEAN :
          waterfall' = [waterfall EXCEPT ![p.event].nextCount = @ + 1, ![p.event].settled = b]
    <3>1. \A W : (W.totalConns > 0 /\ W.nextCount + 1 >= W.totalConns) \in BOOLEAN
      OBVIOUS
    <3> QED BY <1>4, <3>1, Zenon DEF SubmitNext
  <2>4. waterfall' \in [Calls -> Waterfalls]
    BY <1>1, <2>3, AnswerUpdate
  <2> QED BY <1>2, <2>1, <2>2, <2>4
<1>5. CASE SubmitAnswer(p)
  <2>1. answers' \in [Calls -> Seq(Posts)] /\ ch' \in [Calls -> Outcomes \cup {"empty"}]
    BY <1>1, <1>5 DEF SubmitAnswer, Adopt, Send
  <2>2. waterfall' \in [Calls -> Waterfalls]
    BY <1>1, <1>5, AnswerUpdate DEF SubmitAnswer
  <2> QED BY <1>2, <2>1, <2>2
<1> QED BY <1>3, <1>4, <1>5 DEF submitResult

LEMMA CallTyped ==
  ASSUME TypeOK, NEW e \in Calls,
         \/ Cancel(e) \/ RunPlain(e) \/ Progress(e)
         \/ \E want \in Modes : RefuseUnasked(e, want) \/ dispatchWaterfall(e, want)
  PROVE  TypeOK'
<1> USE DEF TypeOK
<1>1. CASE Cancel(e)
  <2>1. call' \in [Calls -> CallStates]
    BY <1>1, ZenonT(40) DEF Cancel, CallStates
  <2> QED BY <1>1, <2>1 DEF Cancel
<1>2. CASE RunPlain(e)
  <2>1. call' \in [Calls -> CallStates]
    BY <1>2, CallUpdate DEF RunPlain, Ended, Places
  <2> QED BY <1>2, <2>1 DEF RunPlain
<1>3. ASSUME NEW want \in Modes, RefuseUnasked(e, want)
      PROVE  TypeOK'
  <2>1. call' \in [Calls -> CallStates]
    BY <1>3, CallUpdate DEF RefuseUnasked, Ended, Places
  <2> QED BY <1>3, <2>1 DEF RefuseUnasked
<1>4. ASSUME NEW want \in Modes, dispatchWaterfall(e, want)
      PROVE  TypeOK'
  <2>1. Cardinality(online) \in 0..Cardinality(Clients)
    BY ApprovalsAssumption, FS_Subset, FS_CardinalityType
  <2>2. call' \in [Calls -> CallStates]
    BY <1>4, CallUpdate DEF dispatchWaterfall, Places
  <2>3. waterfall' \in [Calls -> Waterfalls]
    BY <1>4, <2>1, DeliveryUpdate DEF dispatchWaterfall
  <2> QED BY <1>4, <2>2, <2>3 DEF dispatchWaterfall
<1>5. CASE Receive(e)
  <2>1. call[e].want \in Modes \cup {"none"} /\ "ran" \in Places /\ "refused" \in Places
    BY DEF CallStates, Ended, Places
  <2>2. \/ call' = [call EXCEPT ![e].pc = "refused"]
        \/ call' = [call EXCEPT ![e].pc = "ran", ![e].mode = call[e].want]
    BY <1>5 DEF Receive, Proceed
  <2>3. /\ [call EXCEPT ![e].pc = "refused"] \in [Calls -> CallStates]
        /\ [call EXCEPT ![e].pc = "ran", ![e].mode = call[e].want] \in [Calls -> CallStates]
    BY <2>1, CallUpdate
  <2>4. waterfall' \in [Calls -> Waterfalls]
    BY <1>5, AnswerUpdate DEF Receive
  <2> QED BY <1>5, <2>2, <2>3, <2>4 DEF Receive
<1>6. CASE Timeout(e) \/ GiveUp(e)
  <2>1. "cancelling" \in Places /\ "refused" \in Places
    BY DEF Ended, Places
  <2>2. /\ [call EXCEPT ![e].pc = "cancelling"] \in [Calls -> CallStates]
        /\ [call EXCEPT ![e].pc = "refused"] \in [Calls -> CallStates]
    BY <2>1, CallUpdate
  <2>3. /\ [waterfall EXCEPT ![e].todo = online] \in [Calls -> Waterfalls]
        /\ [waterfall EXCEPT ![e].listed = FALSE] \in [Calls -> Waterfalls]
    BY AnswerUpdate, DeliveryUpdate
  <2> QED BY <1>6, <2>2, <2>3 DEF Timeout, GiveUp
<1>7. ASSUME NEW c \in Clients, Deliver(e, c) \/ broadcastEventsCancel(e, c)
      PROVE  TypeOK'
  <2>1. /\ waterfall[e].todo \subseteq Clients /\ waterfall[e].todo \ {c} \subseteq Clients
        /\ waterfall[e].delivered \subseteq Clients /\ waterfall[e].delivered \cup {c} \subseteq Clients
    BY DEF Waterfalls
  <2> DEFINE rest == waterfall[e].todo \ {c}
             seen == waterfall[e].delivered
  <2>2. /\ [waterfall EXCEPT ![e].todo = rest] \in [Calls -> Waterfalls]
        /\ [waterfall EXCEPT ![e].todo = rest, ![e].delivered = seen] \in [Calls -> Waterfalls]
        /\ [waterfall EXCEPT ![e].todo = rest, ![e].delivered = seen \cup {c}]
             \in [Calls -> Waterfalls]
    <3> HIDE DEF rest, seen
    <3>1. rest \in SUBSET Clients /\ seen \in SUBSET Clients /\ seen \cup {c} \in SUBSET Clients
      BY <2>1 DEF rest, seen
    <3> QED BY <3>1, DeliveryUpdate
  <2>3. \/ waterfall' = [waterfall EXCEPT ![e].todo = rest]
        \/ waterfall' = [waterfall EXCEPT ![e].todo = rest, ![e].delivered = seen]
        \/ waterfall' = [waterfall EXCEPT ![e].todo = rest, ![e].delivered = seen \cup {c}]
    <3>1. CASE Deliver(e, c)
      BY <3>1, Zenon DEF Deliver
    <3>2. CASE broadcastEventsCancel(e, c)
      BY <3>2, Zenon DEF broadcastEventsCancel
    <3> QED BY <1>7, <3>1, <3>2
  <2>4. dialogs' \in [Clients -> SUBSET Calls]
    <3>1. CASE Deliver(e, c)
      BY <3>1 DEF Deliver
    <3>2. CASE broadcastEventsCancel(e, c)
      BY <3>2 DEF broadcastEventsCancel
    <3> QED BY <1>7, <3>1, <3>2
  <2> QED BY <1>7, <2>2, <2>3, <2>4 DEF Deliver, broadcastEventsCancel
<1>8. ASSUME NEW c \in Clients, TurnTo(e, c)
      PROVE  TypeOK'
  BY <1>8 DEF TurnTo
<1> QED BY <1>1, <1>2, <1>3, <1>4, <1>5, <1>6, <1>7, <1>8 DEF Progress

LEMMA StepTyped ==
  ASSUME TypeOK, Next
  PROVE  TypeOK'
BY BrowserTyped, SubmitTyped, CallTyped DEF Next

-----------------------------------------------------------------------------
(* What a step does to a waterfall and to its answers.                     *)

\* Steps that settle no waterfall and leave every answer.
Quiet ==
  /\ answers' = answers
  /\ \A e \in Calls : waterfall'[e].settled = waterfall[e].settled

LEMMA QuietSteps ==
  ASSUME TypeOK, Next
  PROVE  \/ Quiet
         \/ \E e \in Calls, c \in Clients : Deliver(e, c)
         \/ \E p \in posts : submitResult(p)
<1> USE DEF TypeOK, Quiet
<1>1. ASSUME NEW c \in Clients,
             \/ Join(c) \/ Leave(c) \/ StopsReading(c)
             \/ \E e \in Calls, outcome \in Outcomes : Post(c, e, outcome)
      PROVE  Quiet
  BY <1>1 DEF Join, Leave, StopsReading, Post
<1>2. ASSUME NEW e \in Calls, Cancel(e) \/ RunPlain(e) \/ \E want \in Modes : RefuseUnasked(e, want)
      PROVE  Quiet
  BY <1>2 DEF Cancel, RunPlain, RefuseUnasked
<1>3. ASSUME NEW e \in Calls, NEW want \in Modes, dispatchWaterfall(e, want)
      PROVE  Quiet
  <2>1. ASSUME NEW n, waterfall' = [waterfall EXCEPT ![e].listed = TRUE, ![e].totalConns = n,
                                                     ![e].todo = online]
        PROVE  \A o \in Calls : waterfall'[o].settled = waterfall[o].settled
    BY <2>1 DEF Waterfalls
  <2> QED BY <1>3, <2>1 DEF dispatchWaterfall
<1>4. ASSUME NEW e \in Calls, NEW c \in Clients, TurnTo(e, c) \/ broadcastEventsCancel(e, c)
      PROVE  Quiet
  <2>1. CASE TurnTo(e, c)
    BY <2>1 DEF TurnTo
  <2>2. CASE broadcastEventsCancel(e, c)
    BY <2>2 DEF broadcastEventsCancel, Waterfalls
  <2> QED BY <1>4, <2>1, <2>2
<1>5. ASSUME NEW e \in Calls, Receive(e) \/ Timeout(e) \/ GiveUp(e)
      PROVE  Quiet
  <2>1. CASE Receive(e)
    BY <2>1 DEF Receive, Waterfalls
  <2>2. CASE Timeout(e)
    BY <2>2 DEF Timeout, Waterfalls
  <2>3. CASE GiveUp(e)
    BY <2>3 DEF GiveUp, Waterfalls
  <2> QED BY <1>5, <2>1, <2>2, <2>3
<1> HIDE DEF TypeOK, Quiet
<1>6. ASSUME NEW e \in Calls, Progress(e)
      PROVE  Quiet \/ \E c \in Clients : Deliver(e, c)
  BY <1>4, <1>5, <1>6 DEF Progress
<1> QED BY <1>1, <1>2, <1>3, <1>6 DEF Next

\* So does a delivery.
LEMMA Delivers ==
  ASSUME TypeOK, NEW e \in Calls, NEW c \in Clients, Deliver(e, c)
  PROVE  Quiet
BY DEF Quiet, TypeOK, Deliver, Waterfalls

\* The answer that is being submitted is dropped, or it is adopted by a
\* waterfall that was not settled.
LEMMA Submits ==
  ASSUME TypeOK, NEW p \in posts, submitResult(p)
  PROVE  /\ p.event \in Calls /\ p \in Posts
         /\ \A e \in Calls \ {p.event} :
              /\ waterfall'[e].settled = waterfall[e].settled
              /\ answers'[e] = answers[e] /\ ch'[e] = ch[e]
         /\ \/ UNCHANGED <<answers, ch>> /\ waterfall' = waterfall
            \/ /\ ~waterfall[p.event].settled
               /\ answers'[p.event] = Append(answers[p.event], p)
               /\ p.kind # "next" => waterfall'[p.event].settled
               /\ ch'[p.event] \in {ch[p.event], p.kind}
               /\ ch'[p.event] # ch[p.event] => waterfall'[p.event].settled
<1> USE DEF TypeOK
<1>1. p \in Posts /\ p.event \in Calls
  BY DEF Posts
<1>2. CASE waterfall[p.event].settled /\ UNCHANGED <<waterfall, ch, answers>>
  BY <1>1, <1>2
<1>3. CASE SubmitNext(p)
  <2>1. p.kind = "next" /\ ~waterfall[p.event].settled
    BY <1>3 DEF SubmitNext
  <2>2. /\ answers'[p.event] = Append(answers[p.event], p)
        /\ \A e \in Calls \ {p.event} : answers'[e] = answers[e]
    BY <1>1, <1>3 DEF SubmitNext, Adopt
  <2>3. ch' = ch \/ (Send(p.event, "next") /\ waterfall'[p.event].settled)
    BY <1>1, <1>3 DEF SubmitNext, Waterfalls
  <2>4. /\ ch'[p.event] \in {ch[p.event], p.kind}
        /\ ch'[p.event] # ch[p.event] => waterfall'[p.event].settled
        /\ \A e \in Calls \ {p.event} : ch'[e] = ch[e]
    BY <1>1, <2>1, <2>3 DEF Send
  <2>5. PICK b :
          waterfall' = [waterfall EXCEPT ![p.event].nextCount = @ + 1, ![p.event].settled = b]
    BY <1>3, Zenon DEF SubmitNext
  <2>6. \A e \in Calls \ {p.event} : waterfall'[e].settled = waterfall[e].settled
    BY <1>1, <2>5 DEF Waterfalls
  <2> QED BY <1>1, <2>1, <2>2, <2>4, <2>6
<1>4. CASE SubmitAnswer(p)
  <2>1. /\ answers'[p.event] = Append(answers[p.event], p)
        /\ \A e \in Calls \ {p.event} : answers'[e] = answers[e]
    BY <1>1, <1>4 DEF SubmitAnswer, Adopt
  <2>2. /\ ch'[p.event] \in {ch[p.event], p.kind}
        /\ \A e \in Calls \ {p.event} : ch'[e] = ch[e]
    BY <1>1, <1>4 DEF SubmitAnswer, Send
  <2>3. /\ \A e \in Calls \ {p.event} : waterfall'[e].settled = waterfall[e].settled
        /\ waterfall'[p.event].settled /\ ~waterfall[p.event].settled
    BY <1>1, <1>4 DEF SubmitAnswer, Waterfalls
  <2> QED BY <1>1, <2>1, <2>2, <2>3
<1> QED BY <1>2, <1>3, <1>4 DEF submitResult

\* An answer more.
LEMMA OneMore ==
  ASSUME NEW s \in Seq(Posts), NEW p \in Posts
  PROVE  /\ Append(s, p) # <<>> /\ Append(s, p)[Len(s) + 1] = p
         /\ DOMAIN Append(s, p) = DOMAIN s \cup {Len(s) + 1}
         /\ \A i \in DOMAIN s : Append(s, p)[i] = s[i] /\ 1..(i - 1) \subseteq DOMAIN s
         /\ 1..((Len(s) + 1) - 1) = DOMAIN s
<1>1. Len(s) \in Nat /\ DOMAIN s = 1..Len(s)
  OBVIOUS
<1>2. /\ Append(s, p)[Len(s) + 1] = p /\ Len(Append(s, p)) = Len(s) + 1
      /\ Append(s, p) \in Seq(Posts)
      /\ \A i \in 1..Len(s) : Append(s, p)[i] = s[i]
  OBVIOUS
<1> QED BY <1>1, <1>2

LEMMA AnswersGrow ==
  ASSUME TypeOK, Next, NEW e \in Calls
  PROVE  Approved(e) => Approved(e)'
<1>1. answers[e] \in Seq(Posts)
  BY DEF TypeOK
<1>2. answers'[e] = answers[e] \/ \E p \in Posts : answers'[e] = Append(answers[e], p)
  BY QuietSteps, Delivers, Submits DEF Quiet
<1>3. ASSUME NEW p \in Posts, answers'[e] = Append(answers[e], p)
      PROVE  /\ DOMAIN answers[e] \subseteq DOMAIN answers'[e]
             /\ \A i \in DOMAIN answers[e] : answers'[e][i] = answers[e][i]
             /\ \A i \in DOMAIN answers[e] : 1..(i - 1) \subseteq DOMAIN answers[e]
  BY <1>1, <1>3, OneMore
<1>5. ASSUME Approved(e), NEW p \in Posts, answers'[e] = Append(answers[e], p)
      PROVE  Approved(e)'
  <2>1. PICK i \in DOMAIN answers[e] :
          /\ answers[e][i].kind = "allowed-once"
          /\ \A j \in 1..(i - 1) : answers[e][j].kind = "next"
    BY <1>5 DEF Approved
  <2>2. i \in DOMAIN answers'[e] /\ answers'[e][i] = answers[e][i]
        /\ \A j \in 1..(i - 1) : answers'[e][j] = answers[e][j]
    BY <1>3, <1>5
  <2> QED BY <2>1, <2>2 DEF Approved
<1>6. answers'[e] = answers[e] /\ Approved(e) => Approved(e)'
  BY DEF Approved
<1> QED BY <1>2, <1>3, <1>5, <1>6

-----------------------------------------------------------------------------
(* Who sees a question.                                                    *)

LEMMA OnScreenKept ==
  ASSUME TypeOK, OnScreen, Next
  PROVE  OnScreen'
<1> USE DEF TypeOK
<1>2. ASSUME NEW c \in Clients, Join(c) \/ Leave(c)
      PROVE  OnScreen'
  BY <1>2 DEF Join, Leave, OnScreen
<1>3. ASSUME NEW e \in Calls, NEW c \in Clients, Deliver(e, c)
      PROVE  OnScreen'
  BY <1>3 DEF Deliver, OnScreen
<1>4. ASSUME NEW e \in Calls, NEW c \in Clients, broadcastEventsCancel(e, c)
      PROVE  OnScreen'
  BY <1>4 DEF broadcastEventsCancel, OnScreen
<1>5. CASE UNCHANGED <<dialogs, online>>
  BY <1>5 DEF OnScreen
<1>6. \/ UNCHANGED <<dialogs, online>>
      \/ \E c \in Clients : Join(c) \/ Leave(c)
      \/ \E e \in Calls, c \in Clients : Deliver(e, c) \/ broadcastEventsCancel(e, c)
  BY DEF Next, Progress, StopsReading, Post, submitResult, Cancel, RunPlain, TurnTo, Receive,
         Timeout, GiveUp, RefuseUnasked, dispatchWaterfall
<1> QED BY <1>2, <1>3, <1>4, <1>5, <1>6

-----------------------------------------------------------------------------
(* What a waterfall has adopted and its channel holds.                     *)

LEMMA ChannelKept ==
  ASSUME TypeOK, Channel, Next
  PROVE  Channel'
<1> DEFINE Right(e) ==
      /\ ~waterfall[e].settled => \A i \in DOMAIN answers[e] : answers[e][i].kind = "next"
      /\ ch[e] # "empty" => waterfall[e].settled
      /\ ch[e] = "allowed-once" => Approved(e)
<1> SUFFICES ASSUME NEW e \in Calls
             PROVE  Right(e)'
  BY DEF Channel
<1>1. Approved(e) => Approved(e)'
  BY AnswersGrow
<1>2. Right(e) /\ answers[e] \in Seq(Posts)
  BY DEF Channel, TypeOK
<1>3. CASE /\ waterfall'[e].settled = waterfall[e].settled /\ answers'[e] = answers[e]
           /\ ch'[e] \in {ch[e], "empty"}
  BY <1>1, <1>2, <1>3
<1>4. ASSUME NEW p \in posts, submitResult(p), p.event = e
      PROVE  Right(e)'
  <2>1. CASE UNCHANGED <<answers, ch>> /\ waterfall' = waterfall
    BY <1>3, <2>1
  <2>2. CASE /\ ~waterfall[e].settled /\ answers'[e] = Append(answers[e], p)
             /\ p.kind # "next" => waterfall'[e].settled
             /\ ch'[e] \in {ch[e], p.kind}
             /\ ch'[e] # ch[e] => waterfall'[e].settled
    <3>1. p \in Posts
      BY <1>4, Submits
    <3> DEFINE n == Len(answers[e]) + 1
    <3>2. /\ answers'[e][n] = p
          /\ DOMAIN answers'[e] = DOMAIN answers[e] \cup {n}
          /\ \A i \in DOMAIN answers[e] : answers'[e][i] = answers[e][i]
          /\ 1..(n - 1) = DOMAIN answers[e]
      BY <1>2, <2>2, <3>1, OneMore
    <3> HIDE DEF n
    <3>3. p.kind = "allowed-once" => Approved(e)'
      BY <1>2, <2>2, <3>1, <3>2 DEF Approved
    <3> QED BY <1>1, <1>2, <2>2, <3>2, <3>3
  <2> QED BY <1>4, <2>1, <2>2, Submits
<1>5. ASSUME NEW p \in posts, submitResult(p), p.event # e
      PROVE  /\ waterfall'[e].settled = waterfall[e].settled /\ answers'[e] = answers[e]
             /\ ch'[e] \in {ch[e], "empty"}
  BY <1>5, Submits
<1>6. CASE Quiet
  <2>1. ch'[e] \in {ch[e], "empty"} \/ \E p \in posts : submitResult(p)
    BY DEF TypeOK, Next, Progress, Join, Leave, StopsReading, Post, TurnTo, Deliver,
           broadcastEventsCancel, Cancel, RunPlain, Receive, Timeout, GiveUp, RefuseUnasked,
           dispatchWaterfall
  <2>2. waterfall'[e].settled = waterfall[e].settled /\ answers'[e] = answers[e]
    BY <1>6 DEF Quiet
  <2> QED BY <1>3, <1>4, <1>5, <2>1, <2>2
<1> QED BY <1>3, <1>4, <1>5, <1>6, QuietSteps, Delivers

-----------------------------------------------------------------------------
(* The calls.                                                              *)

CallRight(e) ==
  /\ call[e].pc = "off" => \A c \in Clients : e \notin dialogs[c]
  /\ call[e].pc = "asking" => Asks(call[e].want)
  /\ call[e].pc = "cancelling" => \A c \in Clients : e \in dialogs[c] => c \in waterfall[e].todo
  /\ call[e].pc = "ran" /\ call[e].mode # sandbox.mode =>
       /\ call[e].mode \in WiderModes(sandbox.mode) /\ sandbox.policy = "ask"
       /\ Approved(e)
  /\ call[e].pc = "refused" /\ Unheard(e) => \A c \in Clients : e \notin dialogs[c]

LEMMA CallsRight ==
  Question /\ RunsAsApproved /\ DialogsCleared <=> \A e \in Calls : CallRight(e)
BY DEF Question, RunsAsApproved, DialogsCleared, CallRight

LEMMA SandboxFixed ==
  ASSUME Next
  PROVE  sandbox' = sandbox
BY DEF Next, Progress, Join, Leave, StopsReading, Post, submitResult, TurnTo, Deliver,
       broadcastEventsCancel, Cancel, RunPlain, Receive, Timeout, GiveUp, RefuseUnasked,
       dispatchWaterfall

\* A step that leaves a call, its screens and what is still to be done for its
\* question, and takes nothing from its channel, keeps all that is said of it.
LEMMA CallUntouched ==
  ASSUME TypeOK, Next, NEW e \in Calls, CallRight(e),
         call'[e].pc = call[e].pc, call'[e].want = call[e].want, call'[e].mode = call[e].mode,
         \A c \in Clients : e \in dialogs'[c] => e \in dialogs[c],
         waterfall'[e].todo = waterfall[e].todo, Unheard(e)' => Unheard(e)
  PROVE  CallRight(e)'
<1>1. Approved(e) => Approved(e)'
  BY AnswersGrow
<1> QED BY <1>1, SandboxFixed DEF CallRight, Asks

\* What the browsers do and what is submitted.
LEMMA BrowsersKeepCalls ==
  ASSUME TypeOK, Next, NEW e \in Calls, CallRight(e),
         \/ \E c \in Clients :
              \/ Join(c) \/ Leave(c) \/ StopsReading(c)
              \/ \E o \in Calls, outcome \in Outcomes : Post(c, o, outcome)
         \/ \E p \in posts : submitResult(p)
  PROVE  CallRight(e)'
<1>1. ASSUME NEW c \in Clients,
             \/ Join(c) \/ Leave(c) \/ StopsReading(c)
             \/ \E o \in Calls, outcome \in Outcomes : Post(c, o, outcome)
      PROVE  /\ call' = call /\ waterfall' = waterfall /\ ch' = ch
             /\ \A d \in Clients : e \in dialogs'[d] => e \in dialogs[d]
  BY <1>1 DEF Join, Leave, StopsReading, Post, TypeOK
<1>2. ASSUME NEW p \in posts, submitResult(p)
      PROVE  call' = call /\ dialogs' = dialogs /\ waterfall'[e].todo = waterfall[e].todo
  <2>1. \/ waterfall' = waterfall
        \/ waterfall' = [waterfall EXCEPT ![p.event].settled = TRUE]
        \/ \E b : waterfall' = [waterfall EXCEPT ![p.event].nextCount = @ + 1,
                                                 ![p.event].settled = b]
    BY <1>2, Zenon DEF submitResult, SubmitNext, SubmitAnswer
  <2>2. waterfall \in [Calls -> Waterfalls] /\ p.event \in Calls
    BY <1>2 DEF TypeOK, Posts
  <2>3. waterfall'[e].todo = waterfall[e].todo
    <3>1. CASE waterfall' = waterfall
      BY <3>1
    <3>2. CASE waterfall' = [waterfall EXCEPT ![p.event].settled = TRUE]
      BY <2>2, <3>2 DEF Waterfalls
    <3>3. ASSUME NEW b, waterfall' = [waterfall EXCEPT ![p.event].nextCount = @ + 1,
                                                       ![p.event].settled = b]
          PROVE  waterfall'[e].todo = waterfall[e].todo
      BY <2>2, <3>3 DEF Waterfalls
    <3> QED BY <2>1, <3>1, <3>2, <3>3
  <2> QED BY <1>2, <2>3 DEF submitResult
<1>3. ASSUME NEW p \in posts, submitResult(p)
      PROVE  Unheard(e)' => Unheard(e)
  BY <1>3, Submits DEF Unheard
<1>4. UNCHANGED <<waterfall, ch>> => (Unheard(e)' => Unheard(e))
  BY DEF Unheard
<1> QED BY <1>1, <1>2, <1>3, <1>4, CallUntouched

\* What another call does.
LEMMA OthersKeepCall ==
  ASSUME TypeOK, Next, NEW e \in Calls, CallRight(e), NEW o \in Calls, o # e,
         \/ Cancel(o) \/ RunPlain(o) \/ Progress(o)
         \/ \E want \in Modes : RefuseUnasked(o, want) \/ dispatchWaterfall(o, want)
  PROVE  CallRight(e)'
<1> USE DEF TypeOK
<1>4. waterfall'[e] = waterfall[e] /\ ch'[e] = ch[e] => (Unheard(e)' => Unheard(e))
  BY DEF Unheard
<1>1. CASE Cancel(o) \/ RunPlain(o) \/ \E want \in Modes : RefuseUnasked(o, want)
  <2>1. call'[e] = call[e] /\ dialogs' = dialogs /\ waterfall' = waterfall /\ ch' = ch
    BY <1>1 DEF Cancel, RunPlain, RefuseUnasked
  <2> QED BY <1>4, <2>1, CallUntouched
<1>2. CASE Receive(o) \/ Timeout(o) \/ GiveUp(o) \/ \E want \in Modes : dispatchWaterfall(o, want)
  <2>1. /\ call'[e] = call[e] /\ dialogs' = dialogs
        /\ waterfall'[e] = waterfall[e] /\ ch'[e] = ch[e]
    BY <1>2 DEF Receive, Proceed, Timeout, GiveUp, dispatchWaterfall
  <2> QED BY <1>4, <2>1, CallUntouched
<1>3. ASSUME NEW c \in Clients, TurnTo(o, c) \/ Deliver(o, c) \/ broadcastEventsCancel(o, c)
      PROVE  CallRight(e)'
  <2>1. call' = call /\ waterfall'[e] = waterfall[e] /\ ch' = ch
    BY <1>3 DEF TurnTo, Deliver, broadcastEventsCancel
  <2>2. ASSUME NEW d \in Clients, e \in dialogs'[d]
        PROVE  e \in dialogs[d]
    <3>1. CASE Deliver(o, c)
      BY <2>2, <3>1 DEF Deliver
    <3>2. CASE broadcastEventsCancel(o, c)
      BY <2>2, <3>2 DEF broadcastEventsCancel
    <3>3. CASE TurnTo(o, c)
      BY <2>2, <3>3 DEF TurnTo
    <3> QED BY <1>3, <3>1, <3>2, <3>3
  <2> QED BY <1>4, <2>1, <2>2, CallUntouched
<1> QED BY <1>1, <1>2, <1>3 DEF Progress

\* What the call does itself.
LEMMA CallKept ==
  ASSUME TypeOK, OnScreen, Channel, Next, NEW e \in Calls, CallRight(e),
         \/ Cancel(e) \/ RunPlain(e) \/ Progress(e)
         \/ \E want \in Modes : RefuseUnasked(e, want) \/ dispatchWaterfall(e, want)
  PROVE  CallRight(e)'
<1>1. sandbox' = sandbox
  BY SandboxFixed
<1>2. call \in [Calls -> CallStates] /\ waterfall \in [Calls -> Waterfalls]
  BY DEF TypeOK
<1>3. CASE Cancel(e)
  <2>1. /\ call'[e].pc = call[e].pc /\ call'[e].want = call[e].want /\ call'[e].mode = call[e].mode
        /\ dialogs' = dialogs /\ waterfall' = waterfall /\ ch' = ch
    BY <1>2, <1>3 DEF Cancel, CallStates
  <2> QED BY <2>1, CallUntouched DEF Unheard
<1>4. CASE RunPlain(e)
  <2>1. call'[e].pc = "ran" /\ call'[e].mode = sandbox.mode
    BY <1>2, <1>4 DEF RunPlain, CallStates
  <2> QED BY <1>1, <2>1 DEF CallRight
<1>5. ASSUME NEW want \in Modes, RefuseUnasked(e, want)
      PROVE  CallRight(e)'
  <2>1. call[e].pc = "off" /\ call'[e].pc = "refused" /\ dialogs' = dialogs
    BY <1>2, <1>5 DEF RefuseUnasked, CallStates
  <2> QED BY <2>1 DEF CallRight
<1>6. ASSUME NEW want \in Modes, dispatchWaterfall(e, want)
      PROVE  CallRight(e)'
  <2>1. call' = [call EXCEPT ![e].pc = "asking", ![e].want = want] /\ Asks(want)
    BY <1>6 DEF dispatchWaterfall
  <2>2. call'[e].pc = "asking" /\ call'[e].want = want
    BY <1>2, <2>1 DEF CallStates
  <2> QED BY <1>1, <2>1, <2>2 DEF CallRight, Asks
<1>7. ASSUME NEW c \in Clients, Deliver(e, c)
      PROVE  CallRight(e)'
  <2>1. call' = call /\ call[e].pc = "asking"
    BY <1>7 DEF Deliver
  <2> QED BY <1>1, <2>1 DEF CallRight, Asks
<1>8. CASE Receive(e)
  <2>1. call[e].pc = "asking" /\ answers' = answers /\ waterfall[e].settled
    BY <1>8 DEF Receive, Waiting, Channel
  <2>4. ~Unheard(e)'
    BY <1>2, <1>8, <2>1 DEF Receive, Unheard, Waterfalls, TypeOK
  <2>2. CASE call'[e].pc = "refused"
    BY <2>2, <2>4 DEF CallRight
  <2>3. CASE call'[e].pc # "refused"
    <3>1. Allows(ch[e]) /\ call'[e].pc = "ran" /\ call'[e].mode = call[e].want
      BY <1>2, <1>8, <2>3 DEF Receive, Proceed, CallStates
    <3>2. Approved(e)'
      BY <3>1, AnswersGrow DEF Allows, Channel
    <3> QED BY <1>1, <2>1, <3>1, <3>2 DEF CallRight, Asks
  <2> QED BY <2>2, <2>3
<1>9. CASE Timeout(e)
  <2>1. call'[e].pc = "cancelling" /\ waterfall'[e].todo = online /\ dialogs' = dialogs
    BY <1>2, <1>9 DEF Timeout, CallStates, Waterfalls
  <2> QED BY <2>1 DEF CallRight, OnScreen
<1>10. CASE GiveUp(e)
  <2>1. /\ call[e].pc = "cancelling" /\ waterfall[e].todo = {}
        /\ call'[e].pc = "refused" /\ dialogs' = dialogs
    BY <1>2, <1>10 DEF GiveUp, CallStates
  <2> QED BY <2>1 DEF CallRight
<1>11. ASSUME NEW c \in Clients, broadcastEventsCancel(e, c)
       PROVE  CallRight(e)'
  <2>1. /\ call' = call /\ call[e].pc = "cancelling"
        /\ waterfall'[e].todo = waterfall[e].todo \ {c}
        /\ dialogs' = [dialogs EXCEPT ![c] = @ \ {e}]
    BY <1>2, <1>11 DEF broadcastEventsCancel, Waterfalls
  <2>2. e \notin dialogs'[c] /\ \A d \in Clients \ {c} : dialogs'[d] = dialogs[d]
    BY <2>1 DEF TypeOK
  <2> QED BY <2>1, <2>2 DEF CallRight
<1>12. ASSUME NEW c \in Clients, TurnTo(e, c)
       PROVE  CallRight(e)'
  <2>1. UNCHANGED <<call, dialogs, waterfall, ch>>
    BY <1>12 DEF TurnTo
  <2> QED BY <2>1, CallUntouched DEF Unheard
<1> QED BY <1>3, <1>4, <1>5, <1>6, <1>7, <1>8, <1>9, <1>10, <1>11, <1>12 DEF Progress

LEMMA CallsKept ==
  ASSUME TypeOK, OnScreen, Channel, Question, RunsAsApproved, DialogsCleared, Next
  PROVE  Question' /\ RunsAsApproved' /\ DialogsCleared'
<1>1. \A e \in Calls : CallRight(e)
  BY CallsRight
<1>2. \A e \in Calls : CallRight(e)'
  BY <1>1, BrowsersKeepCalls, OthersKeepCall, CallKept DEF Next
<1> QED BY <1>2 DEF Question, RunsAsApproved, DialogsCleared, CallRight

-----------------------------------------------------------------------------
(* The theorems.                                                           *)

LEMMA InitEstablishes == Init => IInv
<1>1. Init => OnScreen /\ Channel
  BY DEF Init, OnScreen, Channel
<1>2. Init => Question /\ RunsAsApproved /\ DialogsCleared
  BY DEF Init, Question, RunsAsApproved, DialogsCleared
<1> QED BY <1>1, <1>2, InitTyped DEF IInv

LEMMA StutterKeeps ==
  ASSUME IInv, UNCHANGED vars
  PROVE  IInv'
<1> USE DEF IInv, vars
<1>1. TypeOK' /\ OnScreen'
  BY DEF TypeOK, OnScreen
<1>2. Channel' /\ Question'
  BY DEF Channel, Question, Approved, Asks
<1>3. RunsAsApproved' /\ DialogsCleared'
  BY DEF RunsAsApproved, DialogsCleared, Approved, Unheard
<1> QED BY <1>1, <1>2, <1>3

LEMMA Invariance == Spec => []IInv
<1>1. IInv /\ [Next]_vars => IInv'
  BY StutterKeeps, StepTyped, OnScreenKept, ChannelKept, CallsKept DEF IInv
<1> QED BY InitEstablishes, <1>1, PTL DEF Spec

\* The variables of the browsers, calls and waterfalls keep their types.
THEOREM ApprovalsTypeCorrect == Spec => []TypeOK
<1>1. IInv => TypeOK
  BY DEF IInv
<1> QED BY <1>1, Invariance, PTL

\* A command runs in a wider mode only if the first verdict adopted on this
\* very question, whoever gave it, allowed it: answers that are late, repeated
\* or of clients never asked, timeouts and cancels change nothing about that
\* (ApproveEscalation, dispatchWaterfall, submitResult).
THEOREM WiderOnlyIfApproved == Spec => []RunsAsApproved
<1>1. IInv => RunsAsApproved
  BY DEF IInv
<1> QED BY <1>1, Invariance, PTL

\* A question whose time ran out is on no screen any more when the call has
\* been given up (dispatchWaterfall, broadcastEventsCancel).
THEOREM TimeoutClearsScreens == Spec => []DialogsCleared
<1>1. IInv => DialogsCleared
  BY DEF IInv
<1> QED BY <1>1, Invariance, PTL

-----------------------------------------------------------------------------
(* The activation.                                                         *)

ActivationTyped(J) ==
  /\ jobs \in Seq(J) /\ todo \in Seq(J) /\ stalled \in Seq(J) /\ activated \in Seq(J)
  /\ progress \in BOOLEAN /\ stage \in {"compose", "scan", "up", "unmet", "failed"}

\* Every job is on one of the three lists, once.
OnOneList ==
  /\ IsInjective(jobs) /\ IsInjective(todo) /\ IsInjective(stalled) /\ IsInjective(activated)
  /\ ToSet(jobs) = ToSet(todo) \cup ToSet(stalled) \cup ToSet(activated)
  /\ ToSet(todo) \cap ToSet(stalled) = {}
  /\ ToSet(activated) \cap (ToSet(todo) \cup ToSet(stalled)) = {}

ServicesThere == provided = Services(ToSet(activated))

NeedsMet(js) ==
  \A n \in DOMAIN js : Decl(js[n]).inject \subseteq Services(ToSet(SubSeq(js, 1, n - 1)))

\* No order could do without them.
NoneTooMany == ToSet(activated) \subseteq CanActivate

\* In a pass without progress, what waits cannot be done now either.
Stuck == ~progress => \A j \in ToSet(stalled) : ~(Decl(j).inject \subseteq provided)

PassesEnd ==
  /\ stage = "compose" =>
       jobs = <<>> /\ todo = <<>> /\ stalled = <<>> /\ activated = <<>> /\ progress = FALSE
  /\ stage = "up" => todo = <<>> /\ stalled = <<>>
  /\ stage = "unmet" => todo = <<>> /\ stalled # <<>> /\ ~progress

\* The inductive invariant.
Activating(J) ==
  /\ ActivationTyped(J) /\ OnOneList /\ ServicesThere
  /\ NeedsMet(activated) /\ NoneTooMany /\ Stuck /\ PassesEnd

LEMMA OneBehind ==
  ASSUME NEW J, NEW s \in Seq(J), NEW j \in J
  PROVE  /\ ToSet(Append(s, j)) = ToSet(s) \cup {j}
         /\ IsInjective(s) /\ j \notin ToSet(s) => IsInjective(Append(s, j))
<1>1. PICK l, t : l = Len(s) /\ t = Append(s, j)
  OBVIOUS
<1>2. /\ l \in Nat /\ DOMAIN s = 1..l /\ DOMAIN t = 1..(l + 1)
      /\ t[l + 1] = j /\ \A i \in 1..l : t[i] = s[i]
  BY <1>1
<1>3. \A i \in 1..(l + 1) : i \in 1..l \/ i = l + 1
  BY <1>2
<1>4. \A i \in 1..l : i \in 1..(l + 1)
  BY <1>2
<1>5. l + 1 \in 1..(l + 1)
  BY <1>2
<1>6. ToSet(t) = ToSet(s) \cup {j}
  BY <1>2, <1>3, <1>4, <1>5 DEF ToSet
<1>7. IsInjective(s) /\ j \notin ToSet(s) => IsInjective(t)
  BY <1>2, <1>3 DEF ToSet, IsInjective
<1> QED BY <1>1, <1>6, <1>7

LEMMA OneAhead ==
  ASSUME NEW J, NEW s \in Seq(J), s # <<>>
  PROVE  /\ Head(s) \in J /\ Tail(s) \in Seq(J)
         /\ ToSet(s) = ToSet(Tail(s)) \cup {Head(s)}
         /\ IsInjective(s) => IsInjective(Tail(s)) /\ Head(s) \notin ToSet(Tail(s))
<1>1. PICK l, t, j : l = Len(s) /\ t = Tail(s) /\ j = Head(s)
  OBVIOUS
<1>2. /\ l \in Nat \ {0} /\ DOMAIN s = 1..l /\ j = s[1] /\ j \in J /\ t \in Seq(J)
      /\ DOMAIN t = 1..(l - 1) /\ \A i \in 1..(l - 1) : t[i] = s[i + 1]
  BY <1>1
<1>3. /\ 1 \in 1..l
      /\ \A i \in 1..l : i = 1 \/ (i - 1 \in 1..(l - 1) /\ s[i] = t[i - 1])
      /\ \A i \in 1..(l - 1) : i + 1 \in 1..l /\ i + 1 # 1
      /\ \A i, k \in 1..(l - 1) : i + 1 = k + 1 => i = k
  <2>1. \A i \in 1..l : i # 1 => i - 1 \in 1..(l - 1) /\ (i - 1) + 1 = i
    BY <1>2
  <2> QED BY <1>2, <2>1
<1>4. ToSet(s) = ToSet(t) \cup {j}
  BY <1>2, <1>3 DEF ToSet
<1>5. ASSUME IsInjective(s) PROVE IsInjective(t) /\ j \notin ToSet(t)
  <2>1. \A a, b \in 1..l : s[a] = s[b] => a = b
    BY <1>2, <1>5 DEF IsInjective
  <2>2. \A a, b \in 1..(l - 1) : t[a] = t[b] => a = b
    BY <1>2, <1>3, <2>1
  <2>3. \A a \in 1..(l - 1) : t[a] # j
    BY <1>2, <1>3, <2>1
  <2> QED BY <1>2, <2>2, <2>3 DEF ToSet, IsInjective
<1> QED BY <1>1, <1>2, <1>4, <1>5

LEMMA NothingListed == ToSet(<<>>) = {} /\ IsInjective(<<>>)
  BY DEF ToSet, IsInjective

\* A job whose services are there may follow.
LEMMA NeedsStayMet ==
  ASSUME NEW J, NEW s \in Seq(J), NEW j \in J, NeedsMet(s),
         Decl(j).inject \subseteq Services(ToSet(s))
  PROVE  NeedsMet(Append(s, j))
<1>1. PICK l, t : l = Len(s) /\ t = Append(s, j)
  OBVIOUS
<1>2. /\ l \in Nat /\ DOMAIN s = 1..l /\ DOMAIN t = 1..(l + 1)
      /\ t[l + 1] = j /\ \A i \in 1..l : t[i] = s[i]
  BY <1>1
<1>3. ASSUME NEW n \in 1..(l + 1) PROVE SubSeq(t, 1, n - 1) = SubSeq(s, 1, n - 1)
  BY <1>1, <1>2, <1>3
<1>4. SubSeq(s, 1, l) = s
  BY <1>1
<1>5. ASSUME NEW n \in DOMAIN t
      PROVE  Decl(t[n]).inject \subseteq Services(ToSet(SubSeq(t, 1, n - 1)))
  <2>1. CASE n \in 1..l
    <3>1. Decl(s[n]).inject \subseteq Services(ToSet(SubSeq(s, 1, n - 1)))
      BY <1>2, <2>1 DEF NeedsMet
    <3> QED BY <1>2, <1>3, <1>5, <2>1, <3>1, Zenon
  <2>2. CASE n = l + 1
    <3>1. n - 1 = l
      BY <1>2, <2>2
    <3> QED BY <1>2, <1>3, <1>4, <1>5, <2>2, <3>1, Zenon
  <2> QED BY <1>2, <1>5, <2>1, <2>2
<1> QED BY <1>1, <1>5 DEF NeedsMet

\* Of a larger set of jobs there are more services.
LEMMA MoreServices ==
  ASSUME NEW S, NEW T, S \subseteq T
  PROVE  Services(S) \subseteq Services(T)
  BY DEF Services

LEMMA ActivatingAtFirst == ASSUME NEW J, ActivationInit PROVE Activating(J)
<1>1. /\ stage = "compose" /\ jobs = <<>> /\ todo = <<>> /\ stalled = <<>> /\ progress = FALSE
      /\ provided = Given /\ activated = <<>>
  BY DEF ActivationInit
<1>2. ActivationTyped(J) /\ PassesEnd
  <2>1. <<>> \in Seq(J)
    OBVIOUS
  <2> QED BY <1>1, <2>1, Zenon DEF ActivationTyped, PassesEnd
<1>3. OnOneList /\ NoneTooMany /\ Stuck
  BY <1>1, NothingListed DEF OnOneList, NoneTooMany, Stuck
<1>4. ServicesThere
  BY <1>1, NothingListed DEF ServicesThere, Services
<1>5. NeedsMet(activated)
  <2>1. DOMAIN activated = {}
    BY <1>1
  <2> QED BY <2>1 DEF NeedsMet
<1> QED BY <1>2, <1>3, <1>4, <1>5 DEF Activating

LEMMA QueueKeeps ==
  ASSUME NEW J, Activating(J), NEW js \in Seq(J), IsInjective(js), Queue(js)
  PROVE  Activating(J)'
<1>1. /\ stage' = "scan" /\ jobs' = js /\ todo' = js
      /\ UNCHANGED <<stalled, progress, provided, activated>>
      /\ stalled = <<>> /\ activated = <<>>
  BY DEF Queue, Activating, PassesEnd
<1>2. ActivationTyped(J)' /\ PassesEnd'
  BY <1>1 DEF Activating, ActivationTyped, PassesEnd
<1>3. OnOneList'
  BY <1>1, NothingListed DEF OnOneList
<1>4. NoneTooMany'
  BY <1>1, NothingListed DEF NoneTooMany
<1>5. Stuck' /\ ServicesThere'
  BY <1>1 DEF Activating, Stuck, ServicesThere
<1>6. NeedsMet(activated)'
  BY <1>1 DEF Activating
<1> QED BY <1>2, <1>3, <1>4, <1>5, <1>6 DEF Activating

LEMMA SucceedsKeeps ==
  ASSUME NEW J, Activating(J), Succeeds
  PROVE  Activating(J)'
<1>1. PICK j, t : j = Head(todo) /\ t = Tail(todo)
  OBVIOUS
<1>2. /\ todo # <<>> /\ stage = "scan" /\ Decl(j).inject \subseteq provided
      /\ activated' = Append(activated, j) /\ provided' = provided \cup Decl(j).provides
      /\ todo' = t /\ progress' = TRUE /\ UNCHANGED <<stage, jobs, stalled>>
  BY <1>1 DEF Succeeds
<1>3. /\ jobs \in Seq(J) /\ todo \in Seq(J) /\ stalled \in Seq(J) /\ activated \in Seq(J)
      /\ OnOneList /\ ServicesThere /\ NeedsMet(activated) /\ NoneTooMany
  BY DEF Activating, ActivationTyped
<1>4. /\ j \in J /\ t \in Seq(J) /\ ToSet(todo) = ToSet(t) \cup {j}
      /\ IsInjective(t) /\ j \notin ToSet(t)
  BY <1>1, <1>2, <1>3, OneAhead DEF OnOneList
<1>5. j \notin ToSet(activated) /\ j \notin ToSet(stalled) /\ j \in ToSet(jobs)
  BY <1>3, <1>4 DEF OnOneList
<1>6. ToSet(activated') = ToSet(activated) \cup {j} /\ IsInjective(activated')
  BY <1>2, <1>3, <1>4, <1>5, OneBehind DEF OnOneList
<1>7. ActivationTyped(J)' /\ PassesEnd'
  <2>1. activated' \in Seq(J)
    BY <1>2, <1>3, <1>4
  <2> QED BY <1>2, <1>3, <1>4, <2>1 DEF Activating, ActivationTyped, PassesEnd
<1>8. OnOneList'
  BY <1>2, <1>3, <1>4, <1>5, <1>6 DEF OnOneList
<1>9. ServicesThere'
  <2>1. Services(ToSet(activated) \cup {j}) = Services(ToSet(activated)) \cup Decl(j).provides
    BY DEF Services
  <2> QED BY <1>2, <1>3, <1>6, <2>1 DEF ServicesThere
<1>10. NeedsMet(activated')
  BY <1>2, <1>3, <1>4, NeedsStayMet DEF ServicesThere
<1>11. j \in CanActivate
  <2>1. ASSUME NEW S \in SUBSET ToSet(jobs),
               \A i \in ToSet(jobs) : Decl(i).inject \subseteq Services(S) => i \in S
        PROVE  j \in S
    <3>1. ToSet(activated) \subseteq S
      BY <1>3, <2>1 DEF NoneTooMany, CanActivate
    <3>2. provided \subseteq Services(S)
      BY <1>3, <3>1, MoreServices DEF ServicesThere
    <3> QED BY <1>2, <1>5, <2>1, <3>2
  <2> QED BY <1>5, <2>1, Zenon DEF CanActivate
<1>12. NoneTooMany'
  <2>1. CanActivate' = CanActivate
    BY <1>2 DEF CanActivate
  <2> QED BY <1>3, <1>6, <1>11, <2>1 DEF NoneTooMany
<1>13. Stuck'
  BY <1>2 DEF Stuck
<1> QED BY <1>7, <1>8, <1>9, <1>10, <1>12, <1>13 DEF Activating

LEMMA WaitsKeeps ==
  ASSUME NEW J, Activating(J), Waits
  PROVE  Activating(J)'
<1>1. PICK j, t : j = Head(todo) /\ t = Tail(todo)
  OBVIOUS
<1>2. /\ todo # <<>> /\ stage = "scan" /\ ~(Decl(j).inject \subseteq provided)
      /\ stalled' = Append(stalled, j)
      /\ todo' = t /\ UNCHANGED <<stage, jobs, progress, provided, activated>>
  BY <1>1 DEF Waits
<1>3. /\ jobs \in Seq(J) /\ todo \in Seq(J) /\ stalled \in Seq(J) /\ activated \in Seq(J)
      /\ OnOneList /\ ServicesThere /\ NeedsMet(activated) /\ NoneTooMany /\ Stuck
  BY DEF Activating, ActivationTyped
<1>4. /\ j \in J /\ t \in Seq(J) /\ ToSet(todo) = ToSet(t) \cup {j}
      /\ IsInjective(t) /\ j \notin ToSet(t)
  BY <1>1, <1>2, <1>3, OneAhead DEF OnOneList
<1>5. j \notin ToSet(activated) /\ j \notin ToSet(stalled)
  BY <1>3, <1>4 DEF OnOneList
<1>6. ToSet(stalled') = ToSet(stalled) \cup {j} /\ IsInjective(stalled')
  BY <1>2, <1>3, <1>4, <1>5, OneBehind DEF OnOneList
<1>7. ActivationTyped(J)' /\ PassesEnd'
  <2>1. stalled' \in Seq(J)
    BY <1>2, <1>3, <1>4
  <2> QED BY <1>2, <1>3, <1>4, <2>1 DEF Activating, ActivationTyped, PassesEnd
<1>8. OnOneList'
  BY <1>2, <1>3, <1>4, <1>5, <1>6 DEF OnOneList
<1>9. ServicesThere' /\ NeedsMet(activated')
  BY <1>2, <1>3 DEF ServicesThere
<1>10. NoneTooMany'
  BY <1>2, <1>3 DEF NoneTooMany, CanActivate
<1>11. Stuck'
  BY <1>2, <1>3, <1>6 DEF Stuck
<1> QED BY <1>7, <1>8, <1>9, <1>10, <1>11 DEF Activating

LEMMA EndsKeep ==
  ASSUME NEW J, Activating(J), Fails \/ PassEnds
  PROVE  Activating(J)'
<1>1. /\ stage = "scan" /\ UNCHANGED <<jobs, provided, activated>>
      /\ \/ stage' = "failed" /\ UNCHANGED <<todo, stalled, progress>>
         \/ /\ stage' = "up" /\ todo = <<>> /\ stalled = <<>>
            /\ UNCHANGED <<todo, stalled, progress>>
         \/ /\ stage' = "unmet" /\ todo = <<>> /\ stalled # <<>> /\ ~progress
            /\ UNCHANGED <<todo, stalled, progress>>
         \/ /\ stage' = "scan" /\ todo = <<>>
            /\ todo' = stalled /\ stalled' = <<>> /\ progress' = FALSE
  BY DEF Fails, PassEnds
<1>2. ActivationTyped(J) /\ OnOneList /\ ServicesThere /\ NoneTooMany /\ Stuck /\ NeedsMet(activated)
  BY DEF Activating
<1>3. ServicesThere' /\ NeedsMet(activated') /\ NoneTooMany'
  BY <1>1, <1>2 DEF ServicesThere, NoneTooMany, CanActivate
<1>4. ActivationTyped(J)' /\ PassesEnd'
  <2>1. <<>> \in Seq(J)
    OBVIOUS
  <2>2. ActivationTyped(J)'
    BY <1>1, <1>2, <2>1 DEF ActivationTyped
  <2>3. PassesEnd'
    BY <1>1 DEF PassesEnd
  <2> QED BY <2>2, <2>3
<1>5. OnOneList' /\ Stuck'
  <2>1. CASE UNCHANGED <<todo, stalled, progress>>
    BY <1>1, <1>2, <2>1 DEF OnOneList, Stuck
  <2>2. CASE todo = <<>> /\ todo' = stalled /\ stalled' = <<>> /\ progress' = FALSE
    BY <1>1, <1>2, <2>2, NothingListed DEF OnOneList, Stuck
  <2> QED BY <1>1, <2>1, <2>2
<1> QED BY <1>1, <1>3, <1>4, <1>5 DEF Activating

\* Whatever is still waiting when the passes end, no order could have done.
LEMMA ActivatingSays ==
  ASSUME NEW J, Activating(J)
  PROVE  ActivatesWhatItCan
<1>1. ActivationTyped(J) /\ OnOneList /\ ServicesThere /\ NoneTooMany /\ Stuck /\ PassesEnd
  BY DEF Activating
<1>2. ASSUME stage \in {"up", "unmet"}
      PROVE  /\ ToSet(activated) = CanActivate
             /\ ToSet(stalled) = ToSet(jobs) \ CanActivate
             /\ stage = "up" <=> stalled = <<>>
  <2>1. ToSet(todo) = {} /\ (stage = "up" <=> stalled = <<>>)
    BY <1>1, <1>2, NothingListed DEF PassesEnd
  <2>2. ToSet(jobs) = ToSet(stalled) \cup ToSet(activated) /\ ToSet(stalled) \cap ToSet(activated) = {}
    BY <1>1, <2>1 DEF OnOneList
  <2>3. \A j \in ToSet(stalled) : ~(Decl(j).inject \subseteq Services(ToSet(activated)))
    BY <1>1, <1>2, NothingListed DEF PassesEnd, Stuck, ServicesThere
  <2>4. \A j \in ToSet(jobs) :
          Decl(j).inject \subseteq Services(ToSet(activated)) => j \in ToSet(activated)
    BY <2>2, <2>3
  <2>5. CanActivate \subseteq ToSet(activated)
    <3>1. ToSet(activated) \in SUBSET ToSet(jobs)
      BY <2>2
    <3>2. ASSUME NEW j \in CanActivate PROVE j \in ToSet(activated)
      BY <2>4, <3>1, <3>2, Zenon DEF CanActivate
    <3> QED BY <3>2
  <2>6. ToSet(activated) = CanActivate
    BY <1>1, <2>5 DEF NoneTooMany
  <2> QED BY <2>1, <2>2, <2>6
<1>3. IsInjective(jobs) /\ IsInjective(activated) /\ NeedsMet(activated)
  BY <1>1 DEF OnOneList, Activating
<1> QED BY <1>2, <1>3 DEF ActivatesWhatItCan, NeedsMet

LEMMA ActivationInvariance ==
  ASSUME NEW Jobs
  PROVE  ActivationSpec(Jobs) => []Activating(Jobs)
<1>1. ActivationInit => Activating(Jobs)
  BY ActivatingAtFirst
<1>2. Activating(Jobs) /\ [ActivationNext(Jobs)]_activationVars => Activating(Jobs)'
  <2> SUFFICES ASSUME Activating(Jobs), [ActivationNext(Jobs)]_activationVars
               PROVE  Activating(Jobs)'
    OBVIOUS
  <2>1. CASE \E js \in Seq(Jobs) : IsInjective(js) /\ Queue(js)
    BY <2>1, QueueKeeps
  <2>2. CASE TryAll
    BY <2>2, SucceedsKeeps, WaitsKeeps, EndsKeep DEF TryAll
  <2>3. CASE UNCHANGED activationVars
    <3>1. UNCHANGED <<stage, jobs, todo, stalled, progress, provided, activated>>
      BY <2>3 DEF activationVars
    <3> QED BY <3>1, Zenon DEF Activating, ActivationTyped, OnOneList, ServicesThere, NoneTooMany,
               CanActivate, Stuck, PassesEnd
  <2> QED BY <2>1, <2>2, <2>3 DEF ActivationNext
<1> QED BY <1>1, <1>2, PTL DEF ActivationSpec

\* Every variable of an activation keeps its type.
THEOREM ActivationTypeCorrect ==
  ASSUME NEW Jobs
  PROVE  ActivationSpec(Jobs) => []ActivationTyped(Jobs)
<1>1. Activating(Jobs) => ActivationTyped(Jobs)
  BY DEF Activating
<1> QED BY <1>1, ActivationInvariance, PTL

\* The passes of an activation reach what the services allow and no more, for any
\* registry and any list of entries, in whatever order these are written
\* (App.Activate, tryActivate).
THEOREM ActivationReachesAll ==
  ASSUME NEW Jobs
  PROVE  ActivationSpec(Jobs) => []ActivatesWhatItCan
<1>1. Activating(Jobs) => ActivatesWhatItCan
  BY ActivatingSays
<1> QED BY <1>1, ActivationInvariance, PTL
=============================================================================
