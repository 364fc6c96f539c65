--------------------------- MODULE ProviderEffects ---------------------------
(***************************************************************************)
(* Effects on external providers: executeProviderEffect, await by await,   *)
(* against a provider that may act on a call nobody waits for any more,    *)
(* and reconcileProviderOperation closing operations beside it.            *)
(*                                                                         *)
(* The persistence is a port (ProviderOperationPersistence); its writes    *)
(* are those of apply_provider_operation_outcome.  A port call that throws *)
(* may have taken effect or not; one that takes effect after its caller    *)
(* gave up is the same history, since such a caller does nothing more.     *)
(***************************************************************************)
EXTENDS Naturals

CONSTANTS Operation,
          Execution,     \* invocations of executeProviderEffect, redeliveries included
          Reconciler,    \* invocations of reconcileProviderOperation
          NoOperation,
          MaxAttempts,   \* MAX_ATTEMPTS: sends of one execution
          EvidenceLimit  \* entries in provider_operations.attempts

ASSUME ProviderAssumption ==
  /\ NoOperation \notin Operation
  /\ MaxAttempts \in Nat \ {0}
  /\ EvidenceLimit \in Nat /\ EvidenceLimit >= 3

VARIABLES
  operations,  \* provider_operations
  execution,   \* execution[e]: the locals of one executeProviderEffect
  call,        \* call[e]: the call e waits for, or waited for last
  reconciler,  \* reconciler[p]: the locals of one reconcileProviderOperation
  sends,       \* history: sends[e], the calls e sent
  effects      \* history: effects[o], the calls the provider accepted

vars == <<operations, execution, call, reconciler, sends, effects>>

Terminal == {"confirmed", "failed", "manual_review"}
State == {"absent", "planned", "pending"} \union Terminal
Claimed == {"sending", "sleeping", "saving"}
Answer == {"none", "retry", "skip", "error", "pending", "failed"}

TypeOK ==
  /\ operations \in [Operation -> [state : State, version : Nat, attempts : 0..EvidenceLimit]]
  /\ execution \in [Execution ->
       [at : {"called", "marking", "answered", "died"} \union Claimed, op : Operation \union {NoOperation},
        version : Nat, claim : Nat, next : State, answer : Answer]]
  /\ call \in [Execution -> {"none", "flying", "accepted", "rejected", "refused"}]
  /\ reconciler \in [Reconciler ->
       [at : {"called", "reading", "writing", "answered"}, op : Operation \union {NoOperation},
        version : Nat, evidence : State]]
  /\ sends \in [Execution -> 0..MaxAttempts]
  /\ effects \in [Operation -> Nat]

Init ==
  /\ operations = [o \in Operation |-> [state |-> "absent", version |-> 0, attempts |-> 0]]
  /\ execution = [e \in Execution |->
       [at |-> "called", op |-> NoOperation, version |-> 0, claim |-> 0,
        next |-> "pending", answer |-> "none"]]
  /\ call = [e \in Execution |-> "none"]
  /\ reconciler = [p \in Reconciler |->
       [at |-> "called", op |-> NoOperation, version |-> 0, evidence |-> "manual_review"]]
  /\ sends = [e \in Execution |-> 0]
  /\ effects = [o \in Operation |-> 0]

At(e, at) == execution[e].at = at
Goto(e, at) == execution' = [execution EXCEPT ![e].at = at]
Respond(e, answer) == execution' = [execution EXCEPT ![e].at = "answered", ![e].answer = answer]
OpOf(e) == operations[execution[e].op]

-----------------------------------------------------------------------------
\* The canonical row.

\* create_provider_operation: operation, intent, event and idempotency record
\* in one transaction; a replay of the key changes nothing.
CreateOperation(o) ==
  /\ operations[o].state = "absent"
  /\ operations' = [operations EXCEPT ![o] = [@ EXCEPT !.state = "planned", !.version = 1]]
  /\ UNCHANGED <<execution, call, reconciler, sends, effects>>

Successors(state) ==
  CASE state = "absent"  -> {}
    [] state = "planned" -> {"pending", "failed", "manual_review"}
    [] state = "pending" -> {"pending"} \union Terminal
    [] OTHER             -> {state}

\* apply_provider_operation_outcome compares the version under the row lock,
\* and raises on a transition it does not know and on full evidence.
Applicable(o, version, next) ==
  /\ operations[o].version = version
  /\ next \in Successors(operations[o].state)
  /\ operations[o].attempts < EvidenceLimit

Write(o, next) ==
  operations' = [operations EXCEPT ![o] =
    [state |-> next, version |-> @.version + 1, attempts |-> @.attempts + 1]]

\* A port call that throws: its write happened or did not.
Throws(o, version, next) ==
  \/ Applicable(o, version, next) /\ Write(o, next)
  \/ UNCHANGED operations

-----------------------------------------------------------------------------
\* executeProviderEffect.

\* The fence the caller passes in, then readCanonical.
ReadCanonical(e, o) ==
  /\ At(e, "called")
  /\ operations[o].state # "absent"
  /\ execution' = [execution EXCEPT ![e] =
       IF operations[o].state = "planned"
         THEN [@ EXCEPT !.at = "marking", !.op = o, !.version = operations[o].version]
         ELSE [@ EXCEPT !.at = "answered", !.op = o, !.answer = "skip"]]
  /\ UNCHANGED <<operations, call, reconciler, sends, effects>>

\* restoreFenceOpen is false, the row is missing, or the read throws.
NotStarted(e) ==
  /\ At(e, "called")
  /\ Respond(e, "retry") \/ Respond(e, "error")
  /\ UNCHANGED <<operations, call, reconciler, sends, effects>>

\* Mutant: an operation that is pending already is claimed again.
MarkAnyOpen(e) ==
  /\ At(e, "marking")
  /\ LET o == execution[e].op
     IN  /\ Applicable(o, operations[o].version, "pending")
         /\ Write(o, "pending")
         /\ execution' = [execution EXCEPT ![e].at = "sending", ![e].claim = operations[o].version + 1]
  /\ UNCHANGED <<call, reconciler, sends, effects>>

\* markPending: compare-and-swap planned -> pending, before any adapter call.
MarkPending(e) ==
  /\ At(e, "marking")
  /\ LET o == execution[e].op
         row == OpOf(e)
     IN  \/ /\ row.state = "planned" /\ Applicable(o, execution[e].version, "pending")
            /\ Write(o, "pending")
            /\ execution' = [execution EXCEPT ![e].at = "sending", ![e].claim = row.version + 1]
         \/ /\ row.state # "planned"
            /\ Respond(e, "skip")
            /\ UNCHANGED operations
         \/ /\ row.version # execution[e].version
            /\ Respond(e, "retry")
            /\ UNCHANGED operations
  /\ UNCHANGED <<call, reconciler, sends, effects>>

MarkPendingThrows(e) ==
  /\ At(e, "marking")
  /\ IF OpOf(e).state = "planned"
       THEN Throws(execution[e].op, execution[e].version, "pending")
       ELSE UNCHANGED operations
  /\ Respond(e, "error")
  /\ UNCHANGED <<call, reconciler, sends, effects>>

\* adapter.send, with the operation's id as the provider's idempotency key.
Send(e) ==
  /\ At(e, "sending") /\ call[e] = "none"
  /\ call' = [call EXCEPT ![e] = "flying"]
  /\ sends' = [sends EXCEPT ![e] = @ + 1]
  /\ UNCHANGED <<operations, execution, reconciler, effects>>

\* The provider acts on a call, whether or not somebody still waits for it.
ProviderActs(e) ==
  /\ call[e] = "flying"
  /\ \/ /\ call' = [call EXCEPT ![e] = "accepted"]
        /\ effects' = [effects EXCEPT ![execution[e].op] = @ + 1]
     \/ /\ \E answer \in {"rejected", "refused"} : call' = [call EXCEPT ![e] = answer]
        /\ UNCHANGED effects
  /\ UNCHANGED <<operations, execution, reconciler, sends>>

Save(e, next) == execution' = [execution EXCEPT ![e].at = "saving", ![e].next = next]

\* Mutant: one retry too many.
TakeAnswerOnceMore(e) ==
  /\ At(e, "sending")
  /\ \/ call[e] = "accepted" /\ Save(e, "pending")
     \/ call[e] = "rejected" /\ Save(e, "failed")
     \/ call[e] = "refused" /\ sends[e] <= MaxAttempts /\ Goto(e, "sleeping")
     \/ call[e] = "refused" /\ sends[e] > MaxAttempts /\ Save(e, "pending")
  /\ UNCHANGED <<operations, call, reconciler, sends, effects>>

\* The answer, classified: accepted or pending, rejected, or safe to retry
\* (the adapter proves that nothing was accepted) up to the last attempt.
TakeAnswer(e) ==
  /\ At(e, "sending")
  /\ \/ call[e] = "accepted" /\ Save(e, "pending")
     \/ call[e] = "rejected" /\ Save(e, "failed")
     \/ call[e] = "refused" /\ sends[e] < MaxAttempts /\ Goto(e, "sleeping")
     \/ call[e] = "refused" /\ sends[e] = MaxAttempts /\ Save(e, "pending")
  /\ UNCHANGED <<operations, call, reconciler, sends, effects>>

\* Mutant: a timeout is taken for a failure that is safe to retry.
TimeoutRetried(e) ==
  /\ At(e, "sending")
  /\ IF sends[e] < MaxAttempts THEN Goto(e, "sleeping") ELSE Save(e, "pending")
  /\ UNCHANGED <<operations, call, reconciler, sends, effects>>

\* Deadline, cancellation or an answer nobody can read: what became of the
\* call is not known, and it is not repeated.
Ambiguous(e) ==
  /\ At(e, "sending")
  /\ Save(e, "pending")
  /\ UNCHANGED <<operations, call, reconciler, sends, effects>>

\* 250 and 750 ms, under the deadline of the whole execution.  (A timer that
\* throws is answered as an error after the same write.)
Sleep(e) ==
  /\ At(e, "sleeping")
  /\ \/ Goto(e, "sending") /\ call' = [call EXCEPT ![e] = "none"]
     \/ Save(e, "pending") /\ UNCHANGED call
  /\ UNCHANGED <<operations, reconciler, sends, effects>>

\* Mutant: an attempt that was not recorded is answered as if it had been.
SaveUnseen(e) ==
  /\ At(e, "saving")
  /\ \/ Applicable(execution[e].op, execution[e].claim, execution[e].next)
        /\ Write(execution[e].op, execution[e].next)
     \/ UNCHANGED operations
  /\ Respond(e, execution[e].next)
  /\ UNCHANGED <<call, reconciler, sends, effects>>

\* saveAttempt, with the version of the claim; a conflict is an error, never
\* a reason to send again.
SaveAttempt(e) ==
  /\ At(e, "saving")
  /\ \/ /\ Applicable(execution[e].op, execution[e].claim, execution[e].next)
        /\ Write(execution[e].op, execution[e].next)
        /\ Respond(e, execution[e].next)
     \/ /\ ~Applicable(execution[e].op, execution[e].claim, execution[e].next)
        /\ Respond(e, "error")
        /\ UNCHANGED operations
  /\ UNCHANGED <<call, reconciler, sends, effects>>

SaveAttemptThrows(e) ==
  /\ At(e, "saving")
  /\ Throws(execution[e].op, execution[e].claim, execution[e].next)
  /\ Respond(e, "error")
  /\ UNCHANGED <<call, reconciler, sends, effects>>

\* The isolate dies, or the clock gives no time: its message is delivered
\* again, to another execution.
Dies(e) ==
  /\ execution[e].at \in {"called", "marking"} \union Claimed
  /\ Goto(e, "died")
  /\ UNCHANGED <<operations, call, reconciler, sends, effects>>

ExecutionStep(e) ==
  \/ NotStarted(e) \/ MarkPending(e) \/ MarkPendingThrows(e)
  \/ \E o \in Operation : ReadCanonical(e, o)
  \/ Send(e) \/ TakeAnswer(e) \/ Ambiguous(e) \/ Sleep(e)
  \/ SaveAttempt(e) \/ SaveAttemptThrows(e) \/ Dies(e)

-----------------------------------------------------------------------------
\* reconcileProviderOperation.

\* What a webhook or a poll may say of o by now.
Evidence(o) ==
  {"manual_review"}
  \union {verdict \in {"confirmed", "failed"} :
            \E e \in Execution :
              /\ execution[e].op = o
              /\ call[e] = (IF verdict = "confirmed" THEN "accepted" ELSE "rejected")}

\* The caller brings evidence and the version it read some time before.
BeginReconciliation(p, o) ==
  /\ reconciler[p].at = "called"
  /\ \E version \in 1..operations[o].version, evidence \in Evidence(o) :
       reconciler' = [reconciler EXCEPT ![p] =
         [at |-> "reading", op |-> o, version |-> version, evidence |-> evidence]]
  /\ UNCHANGED <<operations, execution, call, sends, effects>>

ReadForReconciliation(p) ==
  /\ reconciler[p].at = "reading"
  /\ reconciler' = [reconciler EXCEPT ![p].at =
       IF operations[reconciler[p].op].version = reconciler[p].version THEN "writing" ELSE "answered"]
  /\ UNCHANGED <<operations, execution, call, sends, effects>>

\* persistence.reconcile: compare-and-swap again; reconciled, conflict or a throw.
Reconcile(p) ==
  /\ reconciler[p].at = "writing"
  /\ Throws(reconciler[p].op, reconciler[p].version, reconciler[p].evidence)
  /\ reconciler' = [reconciler EXCEPT ![p].at = "answered"]
  /\ UNCHANGED <<execution, call, sends, effects>>

ReconcilerStep(p) ==
  \/ \E o \in Operation : BeginReconciliation(p, o)
  \/ ReadForReconciliation(p) \/ Reconcile(p)

Next ==
  \/ \E o \in Operation : CreateOperation(o)
  \/ \E e \in Execution : ExecutionStep(e) \/ ProviderActs(e)
  \/ \E p \in Reconciler : ReconcilerStep(p)

Spec == Init /\ [][Next]_vars

-----------------------------------------------------------------------------
\* Redeliveries, crashes and unsaved attempts notwithstanding, one execution
\* at most ever calls the provider for an operation: a concurrent attempt
\* cannot produce a second provider effect.
OneSender ==
  \A e, f \in Execution :
    execution[e].op = execution[f].op /\ sends[e] > 0 /\ sends[f] > 0 => e = f

\* The states and provider effects of the operations behave as EffectContract
\* says: claimed once, at most one effect however many answers are lost, closed
\* once and as what the provider did, whoever comes first.
Contract == INSTANCE EffectContract WITH state <- [o \in Operation |-> operations[o].state]
ImplementsContract == Contract!Spec

\* An operation that was claimed and whose execution is over, whether it ended,
\* died or never learnt that it had claimed it.
Orphaned(o) ==
  /\ operations[o].state = "pending"
  /\ ~\E e \in Execution : execution[e].op = o /\ execution[e].at \in Claimed

\* What nobody works on any more is left to reconciliation: no execution calls
\* the provider for it again, and only a reconciler changes its row.
OrphansAreReconciled ==
  [][\A o \in Operation : Orphaned(o) =>
       /\ Orphaned(o)' \/ operations'[o].state \in Terminal
       /\ \A e \in Execution : sends'[e] # sends[e] => execution[e].op # o
       /\ operations'[o] # operations[o] =>
            \E p \in Reconciler :
              /\ reconciler[p].at = "writing" /\ reconciler[p].op = o
              /\ operations'[o].state = reconciler[p].evidence]_vars

\* What an execution tells its caller is so in the canonical row: a message is
\* acknowledged only when its operation has been claimed, and an operation
\* reported as failed is one the provider rejected and the row records.
AnswersAreCanonical ==
  \A e \in Execution :
    /\ execution[e].answer \in {"skip", "pending", "failed"} => OpOf(e).state \notin {"absent", "planned"}
    /\ execution[e].answer = "failed" => call[e] = "rejected" /\ OpOf(e).state = "failed"

\* An operation that is still open has room in its evidence, so that it can be
\* closed: a full attempts column would refuse every outcome for ever.
OpenHasRoom ==
  \A o \in Operation :
    operations[o].state \notin Terminal => operations[o].attempts + 1 <= EvidenceLimit

Answers(o, answer) == \E e \in Execution : execution[e].op = o /\ call[e] = answer

ClaimedState(o) == operations[o].state \notin {"absent", "planned"}

\* Two executions that know they claimed an operation are one.
OneClaim ==
  \A e, f \in Execution :
    execution[e].claim = 2 /\ execution[f].claim = 2 /\ execution[e].op = execution[f].op => e = f

\* One execution: it works only on an operation it claimed, at version 2.
ExecutionOK(e) ==
  LET x == execution[e]
  IN  /\ x.claim \in {0, 2} /\ x.next \in {"pending", "failed"}
      /\ x.at \in {"called", "marking"} => x.claim = 0
      /\ x.at = "marking" => x.op \in Operation /\ operations[x.op].state # "absent"
      /\ x.at \in Claimed => x.claim = 2
      /\ sends[e] > 0 \/ call[e] # "none" => x.claim = 2
      /\ x.claim = 2 => x.op \in Operation /\ ClaimedState(x.op)
      /\ x.at = "sending" /\ call[e] = "none" => sends[e] < MaxAttempts
      /\ x.at = "sleeping" => sends[e] < MaxAttempts /\ call[e] = "refused"
      /\ x.at = "saving" /\ x.next = "failed" => call[e] = "rejected"
      /\ x.answer # "none" => x.at = "answered"
      /\ x.answer \in {"skip", "pending", "failed"} => x.op \in Operation /\ ClaimedState(x.op)
      /\ x.answer = "failed" => call[e] = "rejected" /\ operations[x.op].state = "failed"

\* One row: an open operation was written twice at most since it was planned,
\* and a closed one says what the provider answered.
RowOK(o) ==
  LET row == operations[o]
  IN  /\ row.state = "absent" => row.version = 0 /\ row.attempts = 0
      /\ row.state = "planned" => row.version = 1 /\ row.attempts = 0
      /\ row.state = "pending" => row.version \in {2, 3} /\ row.attempts = row.version - 1
      /\ row.state = "confirmed" => Answers(o, "accepted")
      /\ row.state = "failed" => Answers(o, "rejected")
      /\ effects[o] \in {0, 1}
      /\ effects[o] = 1 <=> Answers(o, "accepted")

ReconcilerOK(p) ==
  LET x == reconciler[p]
  IN  /\ x.evidence \in Terminal
      /\ x.at # "called" => x.op \in Operation
      /\ x.at # "called" /\ x.evidence = "confirmed" => Answers(x.op, "accepted")
      /\ x.at # "called" /\ x.evidence = "failed" => Answers(x.op, "rejected")

\* At every await, executions, calls, reconcilers and rows tell one story (and
\* have their types).
EffectInv ==
  /\ TypeOK
  /\ OneClaim
  /\ \A e \in Execution : ExecutionOK(e)
  /\ \A o \in Operation : RowOK(o)
  /\ OpenHasRoom
  /\ \A p \in Reconciler : ReconcilerOK(p)
=============================================================================
