------------------------------ MODULE Adapters ------------------------------
(***************************************************************************)
(* How the executors under src/adapters classify a call, and what the      *)
(* engine makes of it: an exception of validate, prepare or execute is     *)
(* FAILED (packages/runtime/src/index.ts:69-76).                           *)
(***************************************************************************)

\* What happens outside: whether the call is sent at all, whether the system
\* it reaches acts on it, what is heard of it, and whether the answer can be
\* read, or the browser closed, in the end.
Call ==
  {c \in [sent : BOOLEAN, acted : BOOLEAN,
          answer : {"accepted", "refused", "nothing"}, ended : BOOLEAN] :
     ~c.sent => ~c.acted /\ c.answer = "nothing"}

Exception == "FAILED"

\* fetch and text() share one try: an answer that breaks off is unknown.  An
\* answer outside 2xx is a failure, also one of a gateway.
HttpExecutor(c) ==
  CASE c.answer = "accepted" /\ c.ended -> "EXECUTED"
    [] c.answer = "refused" /\ c.ended  -> "FAILED"
    [] OTHER                            -> "UNKNOWN_EFFECT"

\* The body is not read.
WebhookExecutor(c) ==
  CASE c.answer = "accepted" -> "EXECUTED"
    [] c.answer = "refused"  -> "FAILED"
    [] OTHER                 -> "UNKNOWN_EFFECT"

\* Whatever invoke() resolves to counts as executed.
McpToolExecutor(c) ==
  IF c.answer = "accepted" THEN "EXECUTED" ELSE "UNKNOWN_EFFECT"

\* launch() and close() are outside of the try: both may throw.
PlaywrightExecutor(c) ==
  CASE ~c.sent \/ ~c.ended      -> Exception
    [] c.answer = "accepted"    -> "EXECUTED"
    [] OTHER                    -> "UNKNOWN_EFFECT"

\* A task for a person is never done by the call.
HumanTaskExecutor(c) == "FAILED"

\* A label that is missing, or an endpoint without TLS, throws in validate.
Unprepared == [status |-> Exception, touches |-> FALSE]

Outcome(status, c) == [status |-> status, touches |-> c.acted]

OutcomesOf(calls) ==
  {Unprepared}
    \cup {Outcome(HttpExecutor(c), c) : c \in calls}
    \cup {Outcome(WebhookExecutor(c), c) : c \in calls}
    \cup {Outcome(McpToolExecutor(c), c) : c \in calls}
    \cup {Outcome(PlaywrightExecutor(c), c) : c \in calls}
    \cup {Outcome(HumanTaskExecutor(c), c) : c \in {c \in calls : ~c.sent}}

\* What makes the adapters honest: a system that refuses a call has done
\* nothing, and a browser that has acted can be closed.
Trustworthy(c) == c.answer = "refused" \/ ~c.ended => ~c.acted

=============================================================================
