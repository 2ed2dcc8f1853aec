----------------------------- MODULE MCEvidence -----------------------------
(***************************************************************************)
(* Three workers of one process share a pool of two clients, and a second  *)
(* process appends to the same chain; one call writes to another chain.    *)
(***************************************************************************)
EXTENDS Evidence

CONSTANTS t1, t2, p1, p2, c1, c2, c3, c4

MCTxs == {t1, t2}
MCProcesses == {p1, p2}
MCCalls == {c1, c2, c3, c4}
MCAbout == [c \in MCCalls |-> IF c = c3 THEN t2 ELSE t1]
MCProcessOf == [c \in MCCalls |-> IF c = c4 THEN p2 ELSE p1]

==============================================================================
