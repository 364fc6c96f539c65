------------------------------ MODULE JobPolicy ------------------------------
(***************************************************************************)
(* The pure decisions of packages/application/src/infrastructure/jobs and  *)
(* of the Worker's queue handler.  Every operator is a function of its     *)
(* arguments; the machine that feeds it stale or fresh facts is JobRuntime. *)
(***************************************************************************)
EXTENDS Integers

TerminalState == {"succeeded", "failed", "cancelled"}
JobState == {"queued", "running"} \union TerminalState

\* What job.lease_until says: null, later than now, or not later than now.
LeaseState == {"none", "live", "expired"}

\* legalTransition: which state may follow, given the caller's retryable flag.
LegalTransition(current, next, retryable) ==
  IF current = "queued" THEN next = "running"
  ELSE CASE next = "queued"  -> retryable
         [] next = "failed"  -> ~retryable
         [] OTHER            -> next \in {"succeeded", "cancelled"}

\* evaluateJobTransition on versions the schema admits.
EvaluateJobTransition(current, next, expected, version, retryable) ==
  CASE expected # version                                   -> "reject"
    [] expected = version /\ current \in TerminalState      ->
         IF current = next THEN "noop" ELSE "reject"
    [] OTHER ->
         IF LegalTransition(current, next, retryable) THEN "apply" ELSE "reject"

\* decideJobLease: "expired" is the Worker's own reading of its own clock.
DecideJobLease(state, lease, expired) ==
  CASE state \in TerminalState -> "skip"
    [] state = "queued"        -> "acquire"
    [] OTHER                   -> CASE lease = "none" -> "reject"
                                    [] expired        -> "acquire"
                                    [] OTHER          -> "skip"

\* decideJobDispatch for an envelope that parses and names its own job.  The
\* Worker passes no processed ids, so the duplicate branch is never taken.
DecideJobDispatch(state, version, eventVersion, fenceOpen) ==
  CASE state \in TerminalState    -> "skip"
    [] state \notin TerminalState ->
         CASE eventVersion < version -> "skip"
           [] eventVersion > version -> "retry"
           [] OTHER                  -> IF fenceOpen THEN "execute" ELSE "retry"

\* queueOutcome: how the handler answers the queue for each decision.
QueueOutcome(decision) ==
  IF decision \in {"recorded", "duplicate", "skip", "dead_letter", "manual_review"}
  THEN "ack" ELSE "retry"
=============================================================================
