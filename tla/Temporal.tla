------------------------------ MODULE Temporal ------------------------------
(***************************************************************************)
(* flowCommitTransactionWorkflow of packages/temporal/src/index.ts: one    *)
(* workflow, its five activities and the approval signal.  The Temporal    *)
(* service is external: it retries an activity up to MaxAttempts times,    *)
(* gives an attempt up after its startToCloseTimeout without stopping it,  *)
(* keeps signals until the handler is set, and replays the workflow after  *)
(* a crash of its worker, which therefore changes nothing here.            *)
(***************************************************************************)
EXTENDS Naturals, Sequences

CONSTANTS MaxAttempts,  \* maximumAttempts of proxyActivities
          MaxSignals,   \* bound: signals sent in a workflow's life
          NotFired      \* stands for the timer that has not fired

ASSUME TemporalAssumption ==
  /\ MaxAttempts \in Nat \ {0}
  /\ MaxSignals \in Nat
  /\ NotFired \notin Nat

VARIABLES at,        \* the await at which the workflow stands
          outcome,   \* what it has returned
          required,  \* policy.approvalRequired
          attempt,   \* the number of attempts begun of each activity
          awaited,   \* is the service waiting for the last attempt?
          running,   \* attempts of execute and compensate, given up or not
          signals,   \* the approval signals sent so far, oldest first
          handled,   \* how many of them the handler had got when it resumed
          inTime,    \* how many came before the timer of seven days fired
          effects    \* the attempts of execute whose effect is in force

activityVars == <<attempt, awaited, running>>
approvalVars == <<signals, handled, inTime>>
vars == <<at, outcome, required, activityVars, approvalVars, effects>>

TransactionActivities == {"validate", "evaluatePolicy", "execute", "verify", "compensate"}
\* Those whose late attempts still do something.
Consequential == {"execute", "compensate"}

Outcomes == {"VERIFIED", "COMPENSATED", "UNKNOWN_EFFECT", "REJECTED_BY_POLICY", "FAILED"}
Pending == "pending"

TemporalInit ==
  /\ at = "validate"
  /\ outcome = Pending
  /\ required = FALSE
  /\ attempt = [a \in TransactionActivities |-> 0]
  /\ awaited = FALSE
  /\ running = {}
  /\ signals = << >>
  /\ handled = 0
  /\ inTime = NotFired
  /\ effects = {}

-----------------------------------------------------------------------------
(* The workflow between two awaits.                                        *)

GoTo(next) == at' = next /\ UNCHANGED outcome
Return(result) == at' = "returned" /\ outcome' = result

AfterPolicy ==
  \E r \in BOOLEAN :
    required' = r /\ GoTo(IF r THEN "approval" ELSE "execute")

\* Faulty variant: everything but a rejection counts as verified.
AfterVerifyHopeful(verified) ==
  IF verified = "REJECTED" THEN GoTo("compensate") ELSE Return("VERIFIED")

AfterVerify(verified) ==
  CASE verified = "CONFIRMED" -> Return("VERIFIED")
    [] verified = "REJECTED"  -> GoTo("compensate")
    [] OTHER                  -> Return("UNKNOWN_EFFECT")

\* verify confirms only an effect it finds; what it finds it may reject.
Verdicts ==
  {v \in {"CONFIRMED", "UNKNOWN", "REJECTED"} : v = "CONFIRMED" => effects # {}}

Continue ==
  CASE at = "validate"       -> GoTo("evaluatePolicy") /\ UNCHANGED required
    [] at = "evaluatePolicy" -> AfterPolicy
    [] at = "execute"        -> GoTo("verify") /\ UNCHANGED required
    [] at = "verify"         -> (\E v \in Verdicts : AfterVerify(v)) /\ UNCHANGED required
    [] at = "compensate"     -> Return("COMPENSATED") /\ UNCHANGED required

-----------------------------------------------------------------------------
(* Activities.                                                             *)

\* Faulty variant: one attempt too many.
MayRetryOnceMore == attempt[at] <= MaxAttempts

MayRetry == attempt[at] < MaxAttempts

\* The service hands the next attempt to a worker.
Schedule ==
  /\ at \in TransactionActivities /\ ~awaited
  /\ awaited' = TRUE
  /\ attempt' = [attempt EXCEPT ![at] = @ + 1]
  /\ running' = IF at \in Consequential
                THEN running \cup {[activity |-> at, number |-> attempt'[at], acted |-> FALSE]}
                ELSE running
  /\ UNCHANGED <<at, outcome, required, approvalVars, effects>>

IsCurrent(a) == awaited /\ a.activity = at /\ a.number = attempt[at]

\* An attempt does its work, whether anybody still waits for it or not.  What
\* execute asks for may be accepted and not happen.
Act(a) ==
  /\ ~a.acted
  /\ running' = (running \ {a}) \cup {[a EXCEPT !.acted = TRUE]}
  /\ effects' \in IF a.activity = "execute"
                  THEN {effects, effects \cup {a.number}} ELSE {{}}
  /\ UNCHANGED <<at, outcome, required, attempt, awaited, approvalVars>>

\* The service gives an attempt up: another one, or the workflow fails.
GiveUp ==
  /\ awaited' = FALSE
  /\ IF MayRetry THEN UNCHANGED <<at, outcome>> ELSE Return("FAILED")

\* The attempt the workflow waits for answers.
Complete ==
  /\ awaited
  /\ at \in Consequential =>
       \E a \in running : IsCurrent(a) /\ a.acted
  /\ running' = {a \in running : ~IsCurrent(a)}
  /\ awaited' = FALSE
  /\ Continue
  /\ UNCHANGED <<attempt, approvalVars, effects>>

\* It throws, before or after it has acted.
Throw ==
  /\ awaited
  /\ running' = {a \in running : ~IsCurrent(a)}
  /\ GiveUp
  /\ UNCHANGED <<required, attempt, approvalVars, effects>>

\* It has not answered within the startToCloseTimeout; it may still run.
TimeOut ==
  /\ awaited
  /\ GiveUp
  /\ UNCHANGED <<required, attempt, running, approvalVars, effects>>

\* A worker dies with its attempt, or the answer of one given up is dropped.
Vanish(a) ==
  /\ running' = running \ {a}
  /\ UNCHANGED <<at, outcome, required, attempt, awaited, approvalVars, effects>>

-----------------------------------------------------------------------------
(* The approval.                                                           *)

\* A client sends the approval signal; the service keeps it.
Signal(approved) ==
  /\ at # "returned"
  /\ Len(signals) < MaxSignals
  /\ signals' = Append(signals, approved)
  /\ UNCHANGED <<at, outcome, required, activityVars, handled, inTime, effects>>

\* The timer of condition(..., "7 days"), which starts with the wait.
Expire ==
  /\ at = "approval" /\ inTime = NotFired
  /\ inTime' = Len(signals)
  /\ UNCHANGED <<at, outcome, required, activityVars, signals, handled, effects>>

\* Faulty variant: the workflow asks the timer, not the handler's variable.
ResumeByTimer ==
  /\ at = "approval"
  /\ signals # << >> \/ inTime # NotFired
  /\ handled' = Len(signals)
  /\ IF inTime = NotFired /\ signals[Len(signals)] THEN GoTo("execute")
     ELSE Return("REJECTED_BY_POLICY")
  /\ UNCHANGED <<required, activityVars, signals, inTime, effects>>

\* Faulty variant: only a refusal rejects, `approved === false`.
ResumeUnlessRefused ==
  /\ at = "approval"
  /\ signals # << >> \/ inTime # NotFired
  /\ handled' = Len(signals)
  /\ IF signals # << >> /\ ~signals[Len(signals)] THEN Return("REJECTED_BY_POLICY")
     ELSE GoTo("execute")
  /\ UNCHANGED <<required, activityVars, signals, inTime, effects>>

\* Faulty variant: the wait has no timeout.
ResumeOnSignal ==
  /\ at = "approval"
  /\ signals # << >>
  /\ handled' = Len(signals)
  /\ IF signals[Len(signals)] THEN GoTo("execute") ELSE Return("REJECTED_BY_POLICY")
  /\ UNCHANGED <<required, activityVars, signals, inTime, effects>>

\* The next workflow task: all signals that have come by now go through the
\* handler, the last one wins, then the condition is looked at.  A signal
\* that came after the timer and before the task still counts.
Resume ==
  /\ at = "approval"
  /\ signals # << >> \/ inTime # NotFired
  /\ handled' = Len(signals)
  /\ IF signals # << >> /\ signals[Len(signals)] THEN GoTo("execute")
     ELSE Return("REJECTED_BY_POLICY")
  /\ UNCHANGED <<required, activityVars, signals, inTime, effects>>

TemporalNext ==
  \/ Schedule \/ Complete \/ Throw \/ TimeOut
  \/ \E a \in running : Act(a) \/ Vanish(a)
  \/ \E approved \in BOOLEAN : Signal(approved)
  \/ Expire \/ Resume

\* Workers take attempts, attempts end or time out, and timers fire.
TemporalSpec ==
  /\ TemporalInit /\ [][TemporalNext]_vars
  /\ WF_vars(Schedule) /\ WF_vars(Complete \/ Throw \/ TimeOut)
  /\ WF_vars(Expire) /\ WF_vars(Resume)

-----------------------------------------------------------------------------
(* Properties.                                                             *)

Attempt ==
  [activity : Consequential, number : 1..MaxAttempts, acted : BOOLEAN]

\* Types; no activity is attempted more than MaxAttempts times (index.ts:12).
TemporalTypeOK ==
  /\ at \in TransactionActivities \cup {"approval", "returned"}
  /\ outcome \in Outcomes \cup {Pending}
  /\ required \in BOOLEAN
  /\ attempt \in [TransactionActivities -> 0..MaxAttempts]
  /\ awaited \in BOOLEAN
  /\ running \subseteq Attempt
  /\ signals \in Seq(BOOLEAN)
  /\ handled \in 0..Len(signals)
  /\ inTime \in Nat \cup {NotFired}
  /\ effects \subseteq 1..MaxAttempts

(***************************************************************************)
(* Nothing is executed, by whichever attempt and however late, unless the  *)
(* policy asked for no approval or the last signal the workflow had got    *)
(* was an approval (index.ts:18); the timeout never stands for one.        *)
(***************************************************************************)
NothingUnapproved ==
  effects # {} \/ running # {} =>
    ~required \/ (handled > 0 /\ signals[handled])

(***************************************************************************)
(* A workflow is rejected only if somebody refused, or nobody had answered *)
(* when the seven days were over: an approval sent in time is not lost,    *)
(* neither before the handler is set nor to the timer (index.ts:18).       *)
(***************************************************************************)
ApprovalInTimeCounts ==
  outcome = "REJECTED_BY_POLICY" =>
    \/ inTime = 0
    \/ \E i \in DOMAIN signals : ~signals[i]

(***************************************************************************)
(* What the workflow returns is so: VERIFIED has an effect in force,       *)
(* REJECTED_BY_POLICY has none and will have none, and COMPENSATED undid   *)
(* the execution it had heard of.  Only attempts given up earlier, which   *)
(* nobody stops, may leave an effect behind COMPENSATED (index.ts:19-23).  *)
(***************************************************************************)
OutcomeIsTrue ==
  /\ outcome = "VERIFIED" => effects # {}
  /\ outcome = "REJECTED_BY_POLICY" => effects = {} /\ attempt["execute"] = 0
  /\ outcome = "COMPENSATED" => attempt["execute"] \notin effects

\* Every workflow ends, whoever answers or does not (index.ts:12, 18).
WorkflowEnds == <>(at = "returned")

=============================================================================
