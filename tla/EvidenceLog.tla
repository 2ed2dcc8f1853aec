----------------------------- MODULE EvidenceLog -----------------------------
(***************************************************************************)
(* What the evidence of a transaction promises, whoever writes it: a list  *)
(* that only grows at its end and holds nothing twice                      *)
(* (SECURITY.md:14, "append-only and hash chained").                       *)
(***************************************************************************)
EXTENDS Naturals, Sequences

CONSTANTS Txs, Calls

VARIABLE log

Init == log = [t \in Txs |-> << >>]

Recorded(t) == {log[t][i] : i \in DOMAIN log[t]}

Record(t, c) ==
  /\ \A other \in Txs : c \notin Recorded(other)
  /\ log' = [log EXCEPT ![t] = Append(@, c)]

Next == \E t \in Txs, c \in Calls : Record(t, c)

Spec == Init /\ [][Next]_log

==============================================================================
