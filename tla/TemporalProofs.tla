--------------------------- MODULE TemporalProofs ---------------------------
(***************************************************************************)
(* Theorems about Temporal, for any number of attempts and of signals.     *)
(*                                                                         *)
(* None of the three properties of the workflow is inductive.  Attempts    *)
(* the service has given up run on, so what they may still do depends on   *)
(* which activities have been begun at all, on the numbers of the attempts *)
(* under way, and on what stood in the signals when the wait was over;     *)
(* WorkflowInv says so.                                                    *)
(***************************************************************************)
EXTENDS Temporal, SequenceTheorems, TLAPS

\* The activities that come after a place, and are not begun before it.
Ahead(place) ==
  CASE place = "validate"       -> {"evaluatePolicy", "execute", "verify", "compensate"}
    [] place = "evaluatePolicy" -> {"execute", "verify", "compensate"}
    [] place = "approval"       -> {"execute", "verify", "compensate"}
    [] place = "execute"        -> {"verify", "compensate"}
    [] place = "verify"         -> {"compensate"}
    [] OTHER                    -> {}

Approved == ~required \/ (handled > 0 /\ signals[handled])

AttemptsInv ==
  /\ outcome = Pending <=> at # "returned"
  /\ awaited => at \in TransactionActivities
  /\ at \in TransactionActivities /\ ~awaited => attempt[at] < MaxAttempts
  /\ \A a \in Ahead(at) : attempt[a] = 0
  /\ \A a \in running : a.number <= attempt[a.activity]
  /\ \A n \in effects : n <= attempt["execute"]

GateInv ==
  /\ at \in {"execute", "verify", "compensate"} => Approved
  /\ attempt["execute"] > 0 \/ attempt["compensate"] > 0 => Approved

SignalsInv ==
  /\ inTime # NotFired => inTime <= Len(signals)
  /\ ApprovalInTimeCounts

EffectsInv ==
  /\ outcome = "VERIFIED" => effects # {} /\ attempt["compensate"] = 0
  /\ outcome = "REJECTED_BY_POLICY" =>
       attempt["execute"] = 0 /\ attempt["compensate"] = 0
  /\ at \in {"verify", "compensate"} \/ outcome = "COMPENSATED" =>
       \A a \in running : a.activity = "execute" => a.number < attempt["execute"]
  /\ \/ outcome = "COMPENSATED"
     \/ at = "compensate" /\ \E a \in running : a.activity = "compensate" /\ a.acted
     => attempt["execute"] \notin effects

WorkflowInv ==
  TemporalTypeOK /\ AttemptsInv /\ GateInv /\ SignalsInv /\ EffectsInv

-----------------------------------------------------------------------------
(* Where the workflow starts.                                              *)

LEMMA WorkflowInitially ==
  ASSUME TemporalInit
  PROVE  WorkflowInv
<1>1. TemporalTypeOK
  <2>1. signals \in Seq(BOOLEAN) /\ handled \in 0..Len(signals)
    BY DEF TemporalInit
  <2>2. attempt \in [TransactionActivities -> 0..MaxAttempts]
    BY TemporalAssumption DEF TemporalInit
  <2>3. QED
    BY <2>1, <2>2
    DEF TemporalInit, TemporalTypeOK, TransactionActivities, Outcomes, Pending
<1>2. AttemptsInv
  BY TemporalAssumption
  DEF TemporalInit, AttemptsInv, Ahead, TransactionActivities, Pending
<1>3. GateInv /\ SignalsInv /\ EffectsInv
  BY DEF TemporalInit, GateInv, SignalsInv, EffectsInv, Approved,
         ApprovalInTimeCounts, TransactionActivities, Pending
<1>4. QED
  BY <1>1, <1>2, <1>3 DEF WorkflowInv

-----------------------------------------------------------------------------
(* Attempts begin, act and are lost.                                       *)

LEMMA ScheduleStep ==
  ASSUME WorkflowInv, Schedule
  PROVE  WorkflowInv'
<1> DEFINE begun == [activity |-> at, number |-> attempt'[at], acted |-> FALSE]
<1>1. /\ at \in TransactionActivities /\ at # "returned" /\ at # "approval"
      /\ attempt[at] \in Nat /\ attempt[at] < MaxAttempts /\ MaxAttempts \in Nat
      /\ attempt' = [attempt EXCEPT ![at] = attempt[at] + 1]
      /\ attempt'[at] = attempt[at] + 1
      /\ attempt'[at] \in 1..MaxAttempts
  BY TemporalAssumption
  DEF WorkflowInv, TemporalTypeOK, AttemptsInv, Schedule, TransactionActivities
<1>2. \A a \in TransactionActivities :
        /\ attempt[a] \in 0..MaxAttempts /\ attempt'[a] \in 0..MaxAttempts
        /\ attempt[a] <= attempt'[a]
        /\ a # at => attempt'[a] = attempt[a]
  BY <1>1 DEF WorkflowInv, TemporalTypeOK
<1>3. /\ at \in Consequential => running' = running \cup {begun}
      /\ at \notin Consequential => running' = running
      /\ awaited' = TRUE
      /\ UNCHANGED <<at, outcome, required, signals, handled, inTime, effects>>
  BY DEF Schedule, approvalVars
<1>4. running' \subseteq Attempt /\ running \subseteq Attempt
  <2>1. at \in Consequential => begun \in Attempt
    BY <1>1 DEF Attempt
  <2>2. QED
    BY <1>3, <2>1 DEF WorkflowInv, TemporalTypeOK
<1>5. TemporalTypeOK'
  BY <1>1, <1>3, <1>4 DEF WorkflowInv, TemporalTypeOK
<1>6. AttemptsInv'
  <2>1. \A a \in running' : a.number <= attempt'[a.activity]
    <3>1. \A a \in running : a.number <= attempt'[a.activity]
      BY <1>2, <1>4 DEF WorkflowInv, AttemptsInv, Attempt, Consequential, TransactionActivities
    <3>2. begun.number <= attempt'[begun.activity]
      BY <1>1
    <3>3. QED
      BY <1>3, <3>1, <3>2
  <2>2. \A n \in effects' : n <= attempt'["execute"]
    BY <1>2, <1>3 DEF WorkflowInv, TemporalTypeOK, AttemptsInv, TransactionActivities
  <2>3. \A a \in Ahead(at) : a \in TransactionActivities /\ a # at
    BY <1>1 DEF Ahead, TransactionActivities
  <2>4. \A a \in Ahead(at)' : attempt'[a] = 0
    BY <1>2, <1>3, <2>3 DEF WorkflowInv, AttemptsInv, Ahead
  <2>5. QED
    BY <1>1, <1>3, <2>1, <2>2, <2>4 DEF WorkflowInv, AttemptsInv
<1>7. GateInv'
  BY <1>1, <1>2, <1>3 DEF WorkflowInv, GateInv, Approved, TransactionActivities
<1>8. SignalsInv'
  BY <1>3 DEF WorkflowInv, SignalsInv, ApprovalInTimeCounts
<1>9. EffectsInv'
  <2>1. outcome = Pending
    BY <1>1 DEF WorkflowInv, AttemptsInv
  <2>2. CASE at \in {"verify", "compensate"}
    <3>1. attempt'["execute"] = attempt["execute"]
      BY <1>2, <2>2 DEF TransactionActivities
    <3>2. QED
      BY <1>3, <2>1, <2>2, <3>1 DEF WorkflowInv, EffectsInv, Pending
  <2>3. CASE at \notin {"verify", "compensate"}
    BY <1>3, <2>1, <2>3 DEF EffectsInv, Pending
  <2>4. QED
    BY <2>2, <2>3
<1>10. QED
  BY <1>5, <1>6, <1>7, <1>8, <1>9 DEF WorkflowInv

LEMMA ActStep ==
  ASSUME WorkflowInv, NEW a \in running, Act(a)
  PROVE  WorkflowInv'
<1> DEFINE done == [a EXCEPT !.acted = TRUE]
<1>1. /\ a \in Attempt /\ done \in Attempt /\ running \subseteq Attempt
      /\ done.activity = a.activity /\ done.number = a.number /\ done.acted
      /\ a.activity \in Consequential /\ a.number \in 1..MaxAttempts
      /\ a.activity # "execute" => a.activity = "compensate"
  BY DEF WorkflowInv, TemporalTypeOK, Attempt, Consequential
<1>2. /\ running' = (running \ {a}) \cup {done}
      /\ a.activity = "execute" => effects' \in {effects, effects \cup {a.number}}
      /\ a.activity = "compensate" => effects' = {}
      /\ UNCHANGED <<at, outcome, required, attempt, awaited, signals, handled, inTime>>
  BY DEF Act, approvalVars
<1>3. TemporalTypeOK'
  <2>1. effects' \subseteq 1..MaxAttempts
    BY <1>1, <1>2 DEF WorkflowInv, TemporalTypeOK
  <2>2. running' \subseteq Attempt
    BY <1>1, <1>2
  <2>3. QED
    BY <1>2, <2>1, <2>2 DEF WorkflowInv, TemporalTypeOK
<1>4. AttemptsInv'
  <2>1. a.number <= attempt[a.activity]
    BY DEF WorkflowInv, AttemptsInv
  <2>2. \A b \in running' : b.number <= attempt'[b.activity]
    BY <1>1, <1>2, <2>1 DEF WorkflowInv, AttemptsInv
  <2>3. \A n \in effects' : n <= attempt'["execute"]
    BY <1>1, <1>2, <2>1 DEF WorkflowInv, AttemptsInv
  <2>4. QED
    BY <1>2, <2>2, <2>3 DEF WorkflowInv, AttemptsInv, Ahead
<1>5. GateInv' /\ SignalsInv'
  BY <1>2 DEF WorkflowInv, GateInv, SignalsInv, ApprovalInTimeCounts, Approved
<1>6. EffectsInv'
  <2>1. \A n \in TransactionActivities : attempt[n] \in 0..MaxAttempts
    BY DEF WorkflowInv, TemporalTypeOK
  <2>2. a.number <= attempt[a.activity] /\ a.number >= 1
    BY <1>1 DEF WorkflowInv, AttemptsInv
  <2>3. outcome = "VERIFIED" => effects' # {} /\ attempt["compensate"] = 0
    <3>1. CASE a.activity = "compensate"
      <4>1. attempt["compensate"] # 0
        BY TemporalAssumption, <1>1, <2>1, <2>2, <3>1 DEF TransactionActivities
      <4>2. QED
        BY <4>1 DEF WorkflowInv, EffectsInv
    <3>2. CASE a.activity = "execute"
      BY <1>2, <3>2 DEF WorkflowInv, EffectsInv
    <3>3. QED
      BY <1>1, <3>1, <3>2
  <2>4. at \in {"verify", "compensate"} \/ outcome = "COMPENSATED" =>
          \A b \in running' : b.activity = "execute" => b.number < attempt["execute"]
    BY <1>1, <1>2 DEF WorkflowInv, EffectsInv
  <2>5. ASSUME \/ outcome = "COMPENSATED"
               \/ at = "compensate" /\ \E b \in running' : b.activity = "compensate" /\ b.acted
        PROVE  attempt["execute"] \notin effects'
    <3>1. CASE a.activity = "compensate"
      BY <1>2, <3>1
    <3>2. CASE a.activity = "execute"
      <4>1. a.number < attempt["execute"] /\ a.number # attempt["execute"]
        BY <1>1, <2>1, <2>5, <3>2
        DEF WorkflowInv, EffectsInv, TransactionActivities
      <4>2. attempt["execute"] \notin effects
        BY <1>1, <1>2, <2>5, <3>2 DEF WorkflowInv, EffectsInv
      <4>3. QED
        BY <1>2, <3>2, <4>1, <4>2
    <3>3. QED
      BY <1>1, <3>1, <3>2
  <2>6. QED
    BY <1>2, <2>3, <2>4, <2>5 DEF WorkflowInv, EffectsInv
<1>7. QED
  BY <1>3, <1>4, <1>5, <1>6 DEF WorkflowInv

\* Losing attempts disturbs nothing, whichever they are.
LEMMA FewerRunning ==
  ASSUME WorkflowInv, running' \subseteq running,
         UNCHANGED <<at, outcome, required, attempt, awaited, signals, handled, inTime, effects>>
  PROVE  WorkflowInv'
<1>1. TemporalTypeOK'
  BY DEF WorkflowInv, TemporalTypeOK
<1>2. AttemptsInv'
  BY DEF WorkflowInv, AttemptsInv, Ahead
<1>3. GateInv' /\ SignalsInv'
  BY DEF WorkflowInv, GateInv, SignalsInv, ApprovalInTimeCounts, Approved
<1>4. EffectsInv'
  BY DEF WorkflowInv, EffectsInv
<1>5. QED
  BY <1>1, <1>2, <1>3, <1>4 DEF WorkflowInv

-----------------------------------------------------------------------------
(* The workflow goes on, or fails.                                         *)

\* Another attempt, or the end.
LEMMA GiveUpStep ==
  ASSUME WorkflowInv, awaited, GiveUp, running' \subseteq running,
         UNCHANGED <<required, attempt, signals, handled, inTime, effects>>
  PROVE  WorkflowInv'
<1>1. CASE MayRetry
  <2>1. awaited' = FALSE /\ UNCHANGED <<at, outcome>> /\ attempt[at] < MaxAttempts
    BY <1>1 DEF GiveUp, MayRetry
  <2>2. TemporalTypeOK'
    BY <2>1 DEF WorkflowInv, TemporalTypeOK
  <2>3. AttemptsInv'
    BY <2>1 DEF WorkflowInv, AttemptsInv, Ahead
  <2>4. GateInv' /\ SignalsInv'
    BY <2>1 DEF WorkflowInv, GateInv, SignalsInv, ApprovalInTimeCounts, Approved
  <2>5. EffectsInv'
    BY <2>1 DEF WorkflowInv, EffectsInv
  <2>6. QED
    BY <2>2, <2>3, <2>4, <2>5 DEF WorkflowInv
<1>2. CASE ~MayRetry
  <2>1. awaited' = FALSE /\ at' = "returned" /\ outcome' = "FAILED"
    BY <1>2 DEF GiveUp, Return
  <2>2. TemporalTypeOK'
    BY <2>1 DEF WorkflowInv, TemporalTypeOK, Outcomes
  <2>3. AttemptsInv'
    BY <2>1 DEF WorkflowInv, AttemptsInv, Ahead, TransactionActivities, Pending
  <2>4. GateInv' /\ SignalsInv'
    BY <2>1 DEF WorkflowInv, GateInv, SignalsInv, ApprovalInTimeCounts, Approved
  <2>5. EffectsInv'
    BY <2>1 DEF EffectsInv
  <2>6. QED
    BY <2>2, <2>3, <2>4, <2>5 DEF WorkflowInv
<1>3. QED
  BY <1>1, <1>2

\* What the answer of an activity leaves alone, and what it leaves behind.
Answered ==
  /\ awaited' = FALSE
  /\ running' \subseteq running
  /\ \A a \in running' : a.activity = at => a.number < attempt[at]
  /\ UNCHANGED <<attempt, signals, handled, inTime, effects>>

LEMMA CompleteAnswers ==
  ASSUME WorkflowInv, Complete
  PROVE  Answered /\ at \in TransactionActivities /\ outcome = Pending
<1>1. /\ awaited /\ awaited' = FALSE
      /\ running' = {a \in running : ~IsCurrent(a)}
      /\ UNCHANGED <<attempt, signals, handled, inTime, effects>>
  BY DEF Complete, approvalVars
<1>2. at \in TransactionActivities /\ outcome = Pending
  BY <1>1 DEF WorkflowInv, AttemptsInv, TransactionActivities
<1>3. ASSUME NEW a \in running', a.activity = at
      PROVE  a.number < attempt[at]
  <2>1. a \in running /\ a.number # attempt[at]
    BY <1>1, <1>3 DEF IsCurrent
  <2>2. a.number \in Nat /\ attempt[at] \in Nat /\ a.number <= attempt[at]
    BY <1>2, <1>3, <2>1, TemporalAssumption
    DEF WorkflowInv, TemporalTypeOK, AttemptsInv, Attempt
  <2>3. QED
    BY <2>1, <2>2
<1>4. QED
  BY <1>1, <1>2, <1>3 DEF Answered

\* The signals and the wait for them are not touched by any activity.
LEMMA SignalsStand ==
  ASSUME WorkflowInv, UNCHANGED <<signals, inTime>>, outcome' # "REJECTED_BY_POLICY"
  PROVE  SignalsInv'
BY DEF WorkflowInv, SignalsInv, ApprovalInTimeCounts

\* On to an activity that has not been begun.
LEMMA GoOnStep ==
  ASSUME WorkflowInv, Answered, outcome = Pending, outcome' = outcome,
         required' \in BOOLEAN,
         at' \in TransactionActivities \cup {"approval"},
         at' \in TransactionActivities => at' \in Ahead(at),
         at' = "approval" => at = "evaluatePolicy",
         Ahead(at') \subseteq Ahead(at),
         at' \in {"execute", "verify", "compensate"} => Approved',
         attempt["execute"] > 0 \/ attempt["compensate"] > 0 => Approved',
         at' \in {"verify", "compensate"} => at \in {"execute", "verify"}
  PROVE  WorkflowInv'
<1>1. /\ awaited' = FALSE /\ running' \subseteq running
      /\ UNCHANGED <<attempt, signals, handled, inTime, effects>>
  BY DEF Answered
<1>2. TemporalTypeOK'
  BY <1>1 DEF WorkflowInv, TemporalTypeOK
<1>3. AttemptsInv'
  <2>1. at' \in TransactionActivities => attempt'[at'] < MaxAttempts
    BY <1>1, TemporalAssumption DEF WorkflowInv, AttemptsInv
  <2>2. \A a \in Ahead(at)' : attempt'[a] = 0
    BY <1>1 DEF WorkflowInv, AttemptsInv, Ahead
  <2>3. at' # "returned"
    BY DEF TransactionActivities
  <2>4. QED
    BY <1>1, <2>1, <2>2, <2>3 DEF WorkflowInv, AttemptsInv
<1>4. GateInv' /\ SignalsInv'
  BY <1>1, SignalsStand DEF GateInv, Pending
<1>5. EffectsInv'
  <2>1. at' \in {"verify", "compensate"} =>
          \A a \in running' : a.activity = "execute" => a.number < attempt["execute"]
    BY <1>1 DEF WorkflowInv, EffectsInv, Answered
  <2>2. at' = "compensate" => ~ \E a \in running' : a.activity = "compensate"
    <3>1. ASSUME at' = "compensate", NEW a \in running', a.activity = "compensate"
          PROVE  FALSE
      <4>1. a.number \in 1..MaxAttempts /\ a.number <= attempt["compensate"]
        BY <1>1, <3>1 DEF WorkflowInv, TemporalTypeOK, AttemptsInv, Attempt
      <4>2. attempt["compensate"] = 0
        BY <3>1 DEF WorkflowInv, AttemptsInv, TransactionActivities
      <4>3. QED
        BY <4>1, <4>2, TemporalAssumption
    <3>2. QED
      BY <3>1
  <2>3. QED
    BY <1>1, <2>1, <2>2 DEF EffectsInv, Pending
<1>6. QED
  BY <1>2, <1>3, <1>4, <1>5 DEF WorkflowInv

\* The end, with what the outcome says of the effects.
LEMMA ReturnStep ==
  ASSUME WorkflowInv, Answered, at' = "returned", required' = required,
         outcome' \in {"VERIFIED", "UNKNOWN_EFFECT", "COMPENSATED"},
         outcome' = "VERIFIED" => effects # {} /\ attempt["compensate"] = 0,
         outcome' = "COMPENSATED" =>
           /\ attempt["execute"] \notin effects
           /\ \A a \in running : a.activity = "execute" => a.number < attempt["execute"]
  PROVE  WorkflowInv'
<1>1. /\ awaited' = FALSE /\ running' \subseteq running
      /\ UNCHANGED <<attempt, signals, handled, inTime, effects>>
  BY DEF Answered
<1>2. TemporalTypeOK'
  BY <1>1 DEF WorkflowInv, TemporalTypeOK, Outcomes
<1>3. AttemptsInv'
  BY <1>1 DEF WorkflowInv, AttemptsInv, Ahead, TransactionActivities, Pending
<1>4. GateInv' /\ SignalsInv'
  BY <1>1, SignalsStand DEF WorkflowInv, GateInv, Approved
<1>5. EffectsInv'
  BY <1>1 DEF EffectsInv
<1>6. QED
  BY <1>2, <1>3, <1>4, <1>5 DEF WorkflowInv

LEMMA CompleteStep ==
  ASSUME WorkflowInv, Complete
  PROVE  WorkflowInv'
<1>1. /\ Answered /\ at \in TransactionActivities /\ outcome = Pending
      /\ Continue
      /\ UNCHANGED <<attempt, signals, handled, inTime, effects>>
  BY CompleteAnswers DEF Complete, approvalVars
<1>2. attempt["execute"] \in Nat /\ attempt["compensate"] \in Nat
  BY TemporalAssumption DEF WorkflowInv, TemporalTypeOK, TransactionActivities
<1>3. CASE at = "validate"
  <2>1. at' = "evaluatePolicy" /\ UNCHANGED <<outcome, required>>
    BY <1>1, <1>3 DEF Continue, GoTo
  <2>2. attempt["execute"] = 0 /\ attempt["compensate"] = 0
    BY <1>3 DEF WorkflowInv, AttemptsInv, Ahead
  <2>3. QED
    BY <1>1, <1>3, <2>1, <2>2, GoOnStep
    DEF WorkflowInv, TemporalTypeOK, TransactionActivities, Ahead
<1>4. CASE at = "evaluatePolicy"
  <2>1. PICK r \in BOOLEAN :
          /\ required' = r /\ outcome' = outcome
          /\ at' = IF r THEN "approval" ELSE "execute"
    BY <1>1, <1>4 DEF Continue, AfterPolicy, GoTo
  <2>2. attempt["execute"] = 0 /\ attempt["compensate"] = 0
    BY <1>4 DEF WorkflowInv, AttemptsInv, Ahead
  <2>3. at' \in {"execute", "verify", "compensate"} => Approved'
    BY <2>1 DEF Approved
  <2>4. QED
    BY <1>1, <1>4, <2>1, <2>2, <2>3, GoOnStep DEF TransactionActivities, Ahead
<1>5. CASE at = "execute"
  <2>1. at' = "verify" /\ UNCHANGED <<outcome, required>>
    BY <1>1, <1>5 DEF Continue, GoTo
  <2>2. Approved'
    BY <1>1, <1>5, <2>1 DEF WorkflowInv, GateInv, Approved
  <2>3. QED
    BY <1>1, <1>5, <2>1, <2>2, GoOnStep
    DEF WorkflowInv, TemporalTypeOK, TransactionActivities, Ahead
<1>6. CASE at = "verify"
  <2>1. PICK v \in Verdicts : AfterVerify(v) /\ required' = required
    BY <1>1, <1>6 DEF Continue
  <2>2. attempt["compensate"] = 0
    BY <1>6 DEF WorkflowInv, AttemptsInv, Ahead
  <2>3. CASE v = "REJECTED"
    <3>1. at' = "compensate" /\ outcome' = outcome
      BY <2>1, <2>3 DEF AfterVerify, GoTo
    <3>2. Approved'
      BY <1>1, <1>6, <2>1 DEF WorkflowInv, GateInv, Approved
    <3>3. QED
      BY <1>1, <1>6, <2>1, <3>1, <3>2, GoOnStep
      DEF WorkflowInv, TemporalTypeOK, TransactionActivities, Ahead
  <2>4. CASE v # "REJECTED"
    <3>1. /\ at' = "returned" /\ outcome' \in {"VERIFIED", "UNKNOWN_EFFECT"}
          /\ outcome' = "VERIFIED" => effects # {}
      BY <2>1, <2>4 DEF AfterVerify, Return, Verdicts
    <3>2. QED
      BY <1>1, <2>1, <2>2, <3>1, ReturnStep
  <2>5. QED
    BY <2>3, <2>4
<1>7. CASE at = "compensate"
  <2>1. at' = "returned" /\ outcome' = "COMPENSATED" /\ required' = required
    BY <1>1, <1>7 DEF Continue, Return
  <2>2. attempt["execute"] \notin effects
    <3>1. PICK a \in running : IsCurrent(a) /\ a.acted
      BY <1>7 DEF Complete, Consequential
    <3>2. QED
      BY <1>7, <3>1 DEF WorkflowInv, EffectsInv, IsCurrent
  <2>3. \A a \in running : a.activity = "execute" => a.number < attempt["execute"]
    BY <1>7 DEF WorkflowInv, EffectsInv
  <2>4. QED
    BY <1>1, <2>1, <2>2, <2>3, ReturnStep
<1>8. QED
  BY <1>1, <1>3, <1>4, <1>5, <1>6, <1>7 DEF TransactionActivities

-----------------------------------------------------------------------------
(* The approval.                                                           *)

LEMMA SignalStep ==
  ASSUME WorkflowInv, NEW approved \in BOOLEAN, Signal(approved)
  PROVE  WorkflowInv'
<1>1. /\ signals' = Append(signals, approved) /\ signals \in Seq(BOOLEAN)
      /\ handled \in 0..Len(signals)
      /\ UNCHANGED <<at, outcome, required, attempt, awaited, running, handled, inTime, effects>>
  BY DEF Signal, activityVars, WorkflowInv, TemporalTypeOK
<1>2. /\ signals' \in Seq(BOOLEAN) /\ Len(signals) \in Nat
      /\ Len(signals') = Len(signals) + 1
      /\ \A i \in 1..Len(signals) : signals'[i] = signals[i]
      /\ DOMAIN signals = 1..Len(signals) /\ DOMAIN signals' = 1..(Len(signals) + 1)
  BY <1>1
<1>3. TemporalTypeOK'
  <2>1. handled' \in 0..Len(signals')
    BY <1>1, <1>2
  <2>2. QED
    BY <1>1, <1>2, <2>1 DEF WorkflowInv, TemporalTypeOK
<1>4. AttemptsInv' /\ EffectsInv'
  BY <1>1 DEF WorkflowInv, AttemptsInv, EffectsInv, Ahead
<1>5. GateInv'
  <2>1. Approved => Approved'
    BY <1>1, <1>2 DEF Approved
  <2>2. QED
    BY <1>1, <2>1 DEF WorkflowInv, GateInv
<1>6. SignalsInv'
  <2>1. inTime # NotFired => inTime \in Nat /\ inTime <= Len(signals)
    BY DEF WorkflowInv, TemporalTypeOK, SignalsInv
  <2>2. inTime' # NotFired => inTime' <= Len(signals')
    BY <1>1, <1>2, <2>1
  <2>3. ApprovalInTimeCounts'
    BY <1>1, <1>2 DEF WorkflowInv, SignalsInv, ApprovalInTimeCounts
  <2>4. QED
    BY <2>2, <2>3 DEF SignalsInv
<1>7. QED
  BY <1>3, <1>4, <1>5, <1>6 DEF WorkflowInv

LEMMA ExpireStep ==
  ASSUME WorkflowInv, Expire
  PROVE  WorkflowInv'
<1>1. /\ at = "approval" /\ inTime' = Len(signals) /\ Len(signals) \in Nat
      /\ UNCHANGED <<at, outcome, required, attempt, awaited, running, signals, handled, effects>>
  BY DEF Expire, activityVars, WorkflowInv, TemporalTypeOK
<1>2. TemporalTypeOK'
  BY <1>1 DEF WorkflowInv, TemporalTypeOK
<1>3. AttemptsInv' /\ EffectsInv' /\ GateInv'
  BY <1>1 DEF WorkflowInv, AttemptsInv, EffectsInv, GateInv, Approved, Ahead
<1>4. SignalsInv'
  <2>1. outcome' # "REJECTED_BY_POLICY"
    BY <1>1 DEF WorkflowInv, AttemptsInv, Pending
  <2>2. QED
    BY <1>1, <2>1 DEF SignalsInv, ApprovalInTimeCounts
<1>5. QED
  BY <1>2, <1>3, <1>4 DEF WorkflowInv

LEMMA ResumeStep ==
  ASSUME WorkflowInv, Resume
  PROVE  WorkflowInv'
<1> DEFINE yes == signals # << >> /\ signals[Len(signals)]
<1>1. /\ at = "approval" /\ handled' = Len(signals) /\ Len(signals) \in Nat
      /\ signals \in Seq(BOOLEAN) /\ (signals # << >> \/ inTime # NotFired)
      /\ UNCHANGED <<required, attempt, awaited, running, signals, inTime, effects>>
  BY DEF Resume, activityVars, WorkflowInv, TemporalTypeOK
<1>2. /\ outcome = Pending /\ ~awaited
      /\ attempt["execute"] = 0 /\ attempt["verify"] = 0 /\ attempt["compensate"] = 0
  BY <1>1 DEF WorkflowInv, AttemptsInv, TransactionActivities, Ahead
<1>3. /\ yes  => at' = "execute" /\ outcome' = outcome
      /\ ~yes => at' = "returned" /\ outcome' = "REJECTED_BY_POLICY"
  BY DEF Resume, GoTo, Return
<1>4. TemporalTypeOK'
  BY <1>1, <1>3 DEF WorkflowInv, TemporalTypeOK, TransactionActivities, Outcomes
<1>5. AttemptsInv'
  BY <1>1, <1>2, <1>3, TemporalAssumption
  DEF WorkflowInv, AttemptsInv, Ahead, TransactionActivities, Pending
<1>6. GateInv'
  <2>1. yes => Len(signals) > 0
    BY <1>1
  <2>2. yes => Approved'
    BY <1>1, <2>1 DEF Approved
  <2>3. QED
    BY <1>1, <1>2, <1>3, <2>2 DEF GateInv
<1>7. SignalsInv'
  <2>1. ASSUME ~yes
        PROVE  inTime = 0 \/ \E i \in DOMAIN signals : ~signals[i]
    <3>1. CASE signals = << >>
      <4>1. inTime \in Nat /\ inTime <= Len(signals)
        BY <1>1, <3>1 DEF WorkflowInv, TemporalTypeOK, SignalsInv
      <4>2. QED
        BY <3>1, <4>1
    <3>2. CASE signals # << >>
      <4>1. Len(signals) \in DOMAIN signals
        BY <1>1, <3>2
      <4>2. QED
        BY <2>1, <3>2, <4>1
    <3>3. QED
      BY <3>1, <3>2
  <2>2. QED
    BY <1>1, <1>2, <1>3, <2>1
    DEF WorkflowInv, SignalsInv, ApprovalInTimeCounts, Pending
<1>8. EffectsInv'
  BY <1>1, <1>2, <1>3 DEF EffectsInv, Pending
<1>9. QED
  BY <1>4, <1>5, <1>6, <1>7, <1>8 DEF WorkflowInv

-----------------------------------------------------------------------------
(* The theorems.                                                           *)

LEMMA WorkflowStep ==
  ASSUME WorkflowInv, [TemporalNext]_vars
  PROVE  WorkflowInv'
<1>1. CASE Throw \/ TimeOut
  BY <1>1, GiveUpStep DEF Throw, TimeOut, approvalVars
<1>2. ASSUME NEW a \in running, Vanish(a)
      PROVE  WorkflowInv'
  BY <1>2, FewerRunning DEF Vanish, approvalVars
<1>3. CASE UNCHANGED vars
  BY <1>3, FewerRunning DEF vars, activityVars, approvalVars
<1>4. QED
  BY <1>1, <1>2, <1>3, ScheduleStep, CompleteStep, ActStep, SignalStep, ExpireStep,
     ResumeStep
  DEF TemporalNext

LEMMA WorkflowInvariant == TemporalSpec => []WorkflowInv
BY WorkflowInitially, WorkflowStep, PTL DEF TemporalSpec

(***************************************************************************)
(* The workflow's state keeps its types, however many attempts time out;   *)
(* no activity is begun more often than maximumAttempts says (temporal/    *)
(* src/index.ts:12).                                                       *)
(***************************************************************************)
THEOREM TemporalTypeCorrect == TemporalSpec => []TemporalTypeOK
BY WorkflowInvariant, PTL DEF WorkflowInv

(***************************************************************************)
(* No attempt of execute or compensate is under way, and no effect in      *)
(* force, before the approval the policy asks for: not by an attempt given *)
(* up earlier, and not by the timeout of the wait (index.ts:16-19).        *)
(***************************************************************************)
THEOREM NothingUnapprovedHolds == TemporalSpec => []NothingUnapproved
<1>1. WorkflowInv => NothingUnapproved
  <2>1. ASSUME WorkflowInv, NEW a \in running
        PROVE  Approved
    <3>1. a.activity \in Consequential /\ a.number \in 1..MaxAttempts
      BY <2>1 DEF WorkflowInv, TemporalTypeOK, Attempt
    <3>2. a.number <= attempt[a.activity]
      BY <2>1 DEF WorkflowInv, AttemptsInv
    <3>3. attempt["execute"] \in Nat /\ attempt["compensate"] \in Nat
      BY <2>1, TemporalAssumption DEF WorkflowInv, TemporalTypeOK, TransactionActivities
    <3>4. attempt["execute"] > 0 \/ attempt["compensate"] > 0
      BY <3>1, <3>2, <3>3, TemporalAssumption DEF Consequential
    <3>5. QED
      BY <2>1, <3>4 DEF WorkflowInv, GateInv
  <2>2. ASSUME WorkflowInv, NEW n \in effects
        PROVE  Approved
    <3>1. n \in 1..MaxAttempts /\ n <= attempt["execute"] /\ attempt["execute"] \in Nat
      BY <2>2, TemporalAssumption
      DEF WorkflowInv, TemporalTypeOK, AttemptsInv, TransactionActivities
    <3>2. QED
      BY <2>2, <3>1, TemporalAssumption DEF WorkflowInv, GateInv
  <2>3. QED
    BY <2>1, <2>2 DEF NothingUnapproved, Approved
<1>2. QED
  BY <1>1, WorkflowInvariant, PTL

(***************************************************************************)
(* A workflow is rejected only after a refusal, or when the seven days     *)
(* were over without any signal: a signal that comes before the handler is *)
(* set, or between the timer and the next task, counts (index.ts:18).      *)
(***************************************************************************)
THEOREM ApprovalInTimeCountsHolds == TemporalSpec => []ApprovalInTimeCounts
<1>1. WorkflowInv => ApprovalInTimeCounts
  BY DEF WorkflowInv, SignalsInv
<1>2. QED
  BY <1>1, WorkflowInvariant, PTL

(***************************************************************************)
(* The outcome of a workflow stays true of the effects for good, although  *)
(* attempts that were given up go on after it has returned                 *)
(* (index.ts:19-23).                                                       *)
(***************************************************************************)
THEOREM OutcomeIsTrueHolds == TemporalSpec => []OutcomeIsTrue
<1>1. WorkflowInv => OutcomeIsTrue
  <2>1. ASSUME WorkflowInv, outcome = "REJECTED_BY_POLICY"
        PROVE  effects = {}
    <3>1. ASSUME NEW n \in effects PROVE FALSE
      <4>1. n \in 1..MaxAttempts /\ n <= 0
        BY <2>1 DEF WorkflowInv, TemporalTypeOK, AttemptsInv, EffectsInv
      <4>2. QED
        BY <4>1, TemporalAssumption
    <3>2. QED
      BY <3>1
  <2>2. QED
    BY <2>1 DEF WorkflowInv, EffectsInv, OutcomeIsTrue
<1>2. QED
  BY <1>1, WorkflowInvariant, PTL

=============================================================================
