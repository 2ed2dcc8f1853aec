------------------------------ MODULE Lifecycle ------------------------------
(***************************************************************************)
(* What a transaction promises its business, without copies, adapters,     *)
(* verifiers or evidence: a status that moves along the published table,   *)
(* and effects that are absent or in force once, never doubled.  The       *)
(* engine implements it while one worker runs the transactions             *)
(* (EngineProperties!ImplementsLifecycle).                                 *)
(***************************************************************************)
EXTENDS StateMachine

CONSTANTS Txs, Effects

VARIABLES promise,   \* the effects each transaction's contract expects, and
                     \* whether they must be verified; it never changes
          status,
          world      \* how often each effect of each transaction is in force

vars == <<promise, status, world>>

Untouched(t) == \A e \in Effects : world[t][e] = 0

InForce(t) == \A e \in promise[t].effects : world[t][e] = 1

Init ==
  /\ promise \in [Txs -> [effects : SUBSET Effects, verified : BOOLEAN]]
  /\ status = [t \in Txs |-> "READY"]
  /\ world = [t \in Txs |-> [e \in Effects |-> 0]]

(***************************************************************************)
(* FAILED_INFRASTRUCTURE is the status an attempt is repeated from, so     *)
(* nothing may have happened by then.  A verified success is what the      *)
(* world really looks like, and so is a compensation.                      *)
(***************************************************************************)
Advance(t, to) ==
  /\ CanTransitionTransaction(status[t], to)
  /\ to \in {"FAILED_INFRASTRUCTURE", "COMPENSATED"} => Untouched(t)
  /\ to \in {"VERIFIED", "VERIFIED_AFTER_RETRY"} =>
       (promise[t].verified => InForce(t))
  /\ status' = [status EXCEPT ![t] = to]
  /\ UNCHANGED <<promise, world>>

\* The attempt that counts: it carries out some of the effects.
Perform(t, done) ==
  /\ status[t] = "EXECUTING"
  /\ Untouched(t)
  /\ world' = [world EXCEPT ![t] = [e \in Effects |-> IF e \in done THEN 1 ELSE 0]]
  /\ UNCHANGED <<promise, status>>

Undo(t, undone) ==
  /\ status[t] = "COMPENSATING"
  /\ world' = [world EXCEPT ![t] =
                 [e \in Effects |-> IF e \in undone THEN 0 ELSE @[e]]]
  /\ UNCHANGED <<promise, status>>

Next ==
  \E t \in Txs :
    \/ \E to \in TransactionStatus : Advance(t, to)
    \/ \E done \in SUBSET promise[t].effects : Perform(t, done)
    \/ \E undone \in SUBSET Effects : Undo(t, undone)

Spec == Init /\ [][Next]_vars

=============================================================================
