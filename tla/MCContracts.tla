----------------------------- MODULE MCContracts -----------------------------
(***************************************************************************)
(* The small world the runs share: the contracts, one for each way through *)
(* the engine, and the adapters a deployment registers.                    *)
(***************************************************************************)
EXTENDS Adapters, Naturals, Sequences

MCNoRow == "no row"
MCAnyEffect == "any effect"

MCAllContracts == {"refund", "transfer", "wire", "notice", "legacy"}
MCExecutors == {"rpa", "http", "mcp", "mainframe"}
MCRegistered == {"http", "mcp"}
MCCompensable == {"mcp"}
MCVerifierNames == {"ledger", "bank"}
MCVerifiers == {"ledger"}
MCEffects == {"paid", "booked"}
MCRoles == {"manager"}

rule(verifier, effect, strength) ==
  [verifier |-> verifier, effectId |-> effect, strength |-> strength]

\* Reversible, its preferred executor is not registered, the next one
\* compensates; the verifier is asked once and its strength decides.
Refund ==
  [executors |-> <<"rpa", "mcp">>, effects |-> {"paid"},
   rules |-> {rule("ledger", "paid", 1)}, verificationRequired |-> TRUE,
   minimumStrength |-> 2, approval |-> {[role |-> "manager", count |-> 1]},
   irreversible |-> FALSE, compensation |-> TRUE]

\* Reversible on paper, two effects, and an executor that cannot compensate;
\* one rule names a verifier nobody registered.
Transfer ==
  [executors |-> <<"http", "mcp">>, effects |-> {"paid", "booked"},
   rules |-> {rule("ledger", MCAnyEffect, 0), rule("bank", "paid", 2)},
   verificationRequired |-> TRUE, minimumStrength |-> 2, approval |-> {},
   irreversible |-> FALSE, compensation |-> TRUE]

\* Irreversible, with a rule for one of its two effects only.
Wire ==
  [executors |-> <<"http">>, effects |-> {"paid", "booked"},
   rules |-> {rule("ledger", "paid", 0)}, verificationRequired |-> TRUE,
   minimumStrength |-> 0, approval |-> {}, irreversible |-> TRUE,
   compensation |-> TRUE]

\* Its effect is taken for granted.
Notice ==
  [executors |-> <<"mcp">>, effects |-> {"booked"}, rules |-> {},
   verificationRequired |-> FALSE, minimumStrength |-> 0, approval |-> {},
   irreversible |-> TRUE, compensation |-> FALSE]

\* Nobody can execute it.
Legacy == [Notice EXCEPT !.executors = <<"mainframe">>]

MCDoc == [refund |-> Refund, transfer |-> Transfer, wire |-> Wire,
          notice |-> Notice, legacy |-> Legacy]

DocFor(contracts) == [c \in contracts |-> MCDoc[c]]

\* The shipped adapters, on systems that deserve their trust.
HonestOutcomes == OutcomesOf({c \in Call : Trustworthy(c)})

\* Executors that take every call on.
AcceptingOutcomes == {o \in HonestOutcomes : o.status # "FAILED"}

==============================================================================
