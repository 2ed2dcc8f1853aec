-------------------------- MODULE WorkerProperties --------------------------
(* What the poll loop guarantees, and what it adds to the engine.          *)
EXTENDS Worker, EngineProperties

(***************************************************************************)
(* Every step of a worker process is a step of the engine on its own with  *)
(* the same constants, where anybody may call run() at any time: what      *)
(* holds of EngineSpec under some assumption on the constants holds of the *)
(* workers under it (worker.ts:12-21 changes no row by itself).            *)
(***************************************************************************)
ImplementsEngine == EngineSpec

(***************************************************************************)
(* A ready transaction is run, while at least one worker stays up and      *)
(* fewer than LIMIT rows are stuck at the head of the poll: worker.ts      *)
(* polls the LIMIT oldest again and again (worker.ts:15-18).               *)
(***************************************************************************)
ReadyIsRun ==
  \A t \in Txs :
    StatusOf(t) = "READY" ~>
      StatusOf(t) # "READY" \/ \A w \in Workers : life[w] # "up"

(***************************************************************************)
(* A signal is obeyed: a process that got one does not go on for ever.  It *)
(* finishes the runs of its tick and exits, or dies before it has, and is  *)
(* then perhaps another process that got no signal (worker.ts:10, 13, 21). *)
(***************************************************************************)
StopsInTheEnd == \A w \in Workers : life[w] = "stopping" ~> life[w] # "stopping"

(***************************************************************************)
(* docs/architecture.md:11 says that a crash never changes business        *)
(* semantics, and run() has a branch for rows of unknown effect            *)
(* (index.ts:51): while a worker is up such a row would be taken up again. *)
(* It is not, the poll asks for other statuses (worker.ts:15).             *)
(***************************************************************************)
UnknownSurvivesCrash ==
  \A t \in Txs :
    StatusOf(t) = "UNKNOWN_EFFECT" ~>
      StatusOf(t) # "UNKNOWN_EFFECT" \/ \A w \in Workers : life[w] # "up"

=============================================================================
