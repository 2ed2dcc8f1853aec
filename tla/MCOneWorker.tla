---------------------------- MODULE MCOneWorker ----------------------------
(* One worker process that may crash or be stopped at any await and run    *)
(* again, and one transaction of any of the contracts.                     *)
EXTENDS WorkerProperties, MCContracts

MCContractSet == MCAllContracts
MCDocs == DocFor(MCContractSet)

=============================================================================
