------------------------------ MODULE MCEngine ------------------------------
(* Runs of one transaction of the contract with the most ways to end,      *)
(* whoever calls run(): one worker, or two of them.                        *)
EXTENDS EngineProperties, MCContracts

MCOneContract == {"refund"}
MCOneDoc == DocFor(MCOneContract)
MCOneEffect == {"paid"}

=============================================================================
