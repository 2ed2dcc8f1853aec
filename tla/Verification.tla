---------------------------- MODULE Verification ----------------------------
(***************************************************************************)
(* packages/core/src/verification.ts.  contract is a contract document     *)
(* (see Transactions), observations the set of a transaction's             *)
(* observations [effectId, result, strength]: the summary filters them and *)
(* takes a maximum, so neither order nor multiplicity matters.             *)
(***************************************************************************)
EXTENDS Naturals

Matches(observations, effect) ==
  {o \in observations : o.effectId = effect}

ConfirmedBy(observations, effect) ==
  {o \in Matches(observations, effect) : o.result = "CONFIRMED"}

\* Faulty variant: the minimum strength is asked of one effect only.
SummarizeBest(contract, observations) ==
  LET missing == {e \in contract.effects : ConfirmedBy(observations, e) = {}}
      refused == {e \in missing :
                    \E o \in Matches(observations, e) : o.result = "REJECTED"}
      strong  == {e \in contract.effects \ missing :
                    \E o \in ConfirmedBy(observations, e) :
                      o.strength >= contract.minimumStrength}
  IN [ confirmed |-> missing = {} /\ strong # {},
       rejected  |-> refused # {},
       unknown   |-> missing \ refused # {} ]

\* The loop over expectedEffects, each flag as the set of effects that sets it.
SummarizeVerification(contract, observations) ==
  LET missing == {e \in contract.effects : ConfirmedBy(observations, e) = {}}
      refused == {e \in missing :
                    \E o \in Matches(observations, e) : o.result = "REJECTED"}
      \* Math.max over the confirming strengths falls short of the minimum
      weak    == {e \in contract.effects \ missing :
                    \A o \in ConfirmedBy(observations, e) :
                      o.strength < contract.minimumStrength}
  IN [ confirmed |-> missing = {} /\ refused = {} /\ weak = {},
       rejected  |-> refused # {},
       unknown   |-> missing \ refused # {} ]

=============================================================================
