------------------------------ MODULE JobRuntime ------------------------------
(***************************************************************************)
(* The Worker around the canonical store: cron sweeps move pending events  *)
(* from the outbox to the Cloudflare queue, and queue consumers run the    *)
(* jobs the messages announce.  Each RPC is one step, or two where its SQL *)
(* function asks the fence first; between two steps anything else may      *)
(* happen, so every fact a consumer read may be stale when it is used.     *)
(* Messages are delivered at least once, RPCs may time out with their      *)
(* request still on its way, and isolates may be killed.                   *)
(***************************************************************************)
EXTENDS JobStore

CONSTANTS Consumer,       \* queue handler invocations that may run at once
          Sweeper,        \* scheduled handler invocations that may run at once
          NoJob,          \* no job: what an idle actor works on
          MaxDeliveries,  \* max_retries + 1; then the queue dead-letters
          MaxFaults       \* bound: crashes, timeouts and outlived leases

ASSUME RuntimeAssumption ==
  /\ NoJob \notin Job
  /\ MaxDeliveries \in Nat \ {0}
  /\ MaxFaults \in Nat

VARIABLES
  queue,     \* queue[<<j, d>>]: messages for job j delivered d times so far
  dlq,       \* jobs with a message in the dead-letter queue
  consumer,  \* consumer[c]: the message an invocation holds, what it has read
  sweep,     \* sweep[s]: the rows a sweep has leased and not yet completed
  late,      \* requests whose client gave up on them and that may still arrive
  faults,    \* faults so far
  started,   \* history: how many times the effect of a job was started
  produced,  \* history: the outcomes the effect of a job returned
  sent,      \* history: jobs whose message was sent at least once
  reviewed   \* history: jobs whose message was acknowledged for manual review

actorVars == <<queue, dlq, consumer, sweep, late>>
historyVars == <<started, produced, sent, reviewed>>
runtimeVars == <<storeVars, actorVars, faults, historyVars>>

Delivery == 0..(MaxDeliveries - 1)

\* What an effect may return.  A "malformed" outcome passes the dispatcher's
\* checks but not the SQL function's (a success without a result reference).
Outcome == TerminalState \union {"queued", "malformed"}
NoOutcome == "none"

ConsumerPc == {"idle", "read", "fence", "refence", "claim", "effect", "apply", "record"}

ConsumerRecord ==
  [pc : ConsumerPc, job : Job \union {NoJob}, delivered : Nat,
   state : JobState \union {"absent"}, version : Nat, lease : LeaseState,
   token : Token \union {NoToken}, next : Outcome \union {NoOutcome}]

IdleConsumer ==
  [pc |-> "idle", job |-> NoJob, delivered |-> 0, state |-> "absent",
   version |-> 0, lease |-> "none", token |-> NoToken, next |-> NoOutcome]

SweepRecord ==
  [pc : {"idle", "batch", "send", "complete"}, token : Token \union {NoToken},
   todo : SUBSET Job, row : Job \union {NoJob}]

IdleSweep == [pc |-> "idle", token |-> NoToken, todo |-> {}, row |-> NoJob]

\* The requests that change the store.
Mutation == {"claim", "apply", "record", "batch", "complete"}

Request ==
  [op : Mutation, job : Job \union {NoJob}, version : Nat,
   token : Token \union {NoToken}, next : Outcome \union {NoOutcome}]

RuntimeTypeOK ==
  /\ StoreTypeOK
  /\ queue \in [Job \X Delivery -> Nat]
  /\ dlq \subseteq Job
  /\ consumer \in [Consumer -> ConsumerRecord]
  /\ sweep \in [Sweeper -> SweepRecord]
  /\ late \subseteq Request
  /\ faults \in 0..MaxFaults
  /\ started \in [Job -> Nat]
  /\ produced \in [Job -> SUBSET Outcome]
  /\ sent \subseteq Job /\ reviewed \subseteq Job

RuntimeInit ==
  /\ StoreInit
  /\ queue = [m \in Job \X Delivery |-> 0]
  /\ dlq = {}
  /\ consumer = [c \in Consumer |-> IdleConsumer]
  /\ sweep = [s \in Sweeper |-> IdleSweep]
  /\ late = {}
  /\ faults = 0
  /\ started = [j \in Job |-> 0]
  /\ produced = [j \in Job |-> {}]
  /\ sent = {} /\ reviewed = {}

\* crypto.randomUUID: a token nothing refers to.
FreshToken ==
  Token \ (admitted \union {jobs[j].token : j \in Job} \union {outbox[j].token : j \in Job}
             \union {consumer[c].token : c \in Consumer}
             \union {sweep[s].token : s \in Sweeper}
             \union {r.token : r \in late})

-----------------------------------------------------------------------------
\* One invocation of the queue handler on one message.

At(c, pc) == consumer[c].pc = pc

GoTo(c, pc) == consumer' = [consumer EXCEPT ![c].pc = pc]

\* message.ack(): the message is gone.
Ack(c) ==
  /\ consumer' = [consumer EXCEPT ![c] = IdleConsumer]
  /\ UNCHANGED <<queue, dlq>>

\* Mutant: the last delivery is dropped instead of dead-lettered.
RetryOrDrop(c) ==
  LET j == consumer[c].job
      d == consumer[c].delivered + 1
  IN  /\ consumer' = [consumer EXCEPT ![c] = IdleConsumer]
      /\ \/ d \in Delivery /\ queue' = [queue EXCEPT ![<<j, d>>] = @ + 1]
         \/ d \notin Delivery /\ UNCHANGED queue
      /\ UNCHANGED dlq

\* message.retry(), or no answer at all: the message comes back, until it has
\* been delivered MaxDeliveries times.
Retry(c) ==
  LET j == consumer[c].job
      d == consumer[c].delivered + 1
  IN  /\ consumer' = [consumer EXCEPT ![c] = IdleConsumer]
      /\ \/ d \in Delivery /\ queue' = [queue EXCEPT ![<<j, d>>] = @ + 1] /\ UNCHANGED dlq
         \/ d \notin Delivery /\ dlq' = dlq \union {j} /\ UNCHANGED queue

Answer(c, outcome) ==
  \/ outcome = "ack" /\ Ack(c)
  \/ outcome = "retry" /\ Retry(c)

Receive(c, j, d, t) ==
  /\ At(c, "idle")
  /\ queue[<<j, d>>] > 0
  /\ queue' = [queue EXCEPT ![<<j, d>>] = @ - 1]
  /\ consumer' = [consumer EXCEPT ![c] =
       [@ EXCEPT !.pc = "read", !.job = j, !.delivered = d, !.token = t]]
  /\ UNCHANGED <<storeVars, dlq, sweep, late, faults, historyVars>>

ReadCanonicalJob(c) ==
  /\ At(c, "read")
  /\ LET row == jobs[consumer[c].job]
     IN  consumer' = [consumer EXCEPT ![c] =
           [@ EXCEPT !.pc = "fence", !.state = row.state, !.version = row.version,
                     !.lease = row.lease]]
  /\ UNCHANGED <<storeVars, queue, dlq, sweep, late, faults, historyVars>>

\* The first fence snapshot, then decideJobDispatch and decideJobLease on the
\* row as it was read; expired is what the Worker's clock says of its lease.
CheckDispatch(c, expired) ==
  /\ At(c, "fence")
  /\ LET my       == consumer[c]
         dispatch == DecideJobDispatch(my.state, my.version, EventVersion,
                                       CanRunExternalEffect(ReadRestoreFence))
         lease    == DecideJobLease(my.state, my.lease, expired)
     IN  \/ ~FenceReadable(ReadRestoreFence) /\ Retry(c)
         \/ /\ FenceReadable(ReadRestoreFence)
            /\ \/ dispatch # "execute" /\ Answer(c, QueueOutcome(dispatch))
               \/ /\ dispatch = "execute"
                  /\ \/ lease = "acquire" /\ GoTo(c, "refence") /\ UNCHANGED <<queue, dlq>>
                     \/ lease = "reject" /\ Answer(c, QueueOutcome("dead_letter"))
                     \/ lease = "skip" /\ Answer(c, QueueOutcome("retry"))
  /\ UNCHANGED <<storeVars, sweep, late, faults, historyVars>>

\* acquireJobLease reads the fence again before it claims.
RecheckFence(c) ==
  /\ At(c, "refence")
  /\ \/ CanRunExternalEffect(ReadRestoreFence) /\ GoTo(c, "claim") /\ UNCHANGED <<queue, dlq>>
     \/ ~CanRunExternalEffect(ReadRestoreFence) /\ Retry(c)
  /\ UNCHANGED <<storeVars, sweep, late, faults, historyVars>>

\* The request a consumer waits on asks the gate.  apply_job_outcome raises on
\* a malformed outcome before it does.
CallPassesGate(c) ==
  /\ \/ At(c, "claim")
     \/ At(c, "apply") /\ consumer[c].next # "malformed"
  /\ consumer[c].token \notin admitted
  /\ PassGate(consumer[c].token)
  /\ UNCHANGED <<actorVars, faults, historyVars>>

\* A gated function that answers with nothing: the gate is closed to it, or
\* its UPDATE matches no row.
AnswersNothing(t, matches) ==
  \/ t \notin admitted /\ ~ExternalEffectsAllowed /\ UNCHANGED storeVars
  \/ ~matches /\ MatchNothing(t)

\* claim_job: a claimed lease starts the effect, an empty result retries.
Claim(c) ==
  /\ At(c, "claim")
  /\ LET my == consumer[c]
     IN  \/ /\ ClaimJob(my.job, my.version, my.token)
            /\ consumer' = [consumer EXCEPT ![c] =
                 [my EXCEPT !.pc = "effect", !.version = my.version + 1]]
            /\ started' = [started EXCEPT ![my.job] = @ + 1]
            /\ UNCHANGED <<queue, dlq>>
         \/ /\ AnswersNothing(my.token, Claimable(my.job, my.version))
            /\ Retry(c)
            /\ UNCHANGED started
  /\ UNCHANGED <<sweep, late, faults, produced, sent, reviewed>>

EffectReturns(c, next) ==
  /\ At(c, "effect")
  /\ consumer' = [consumer EXCEPT ![c] = [@ EXCEPT !.pc = "apply", !.next = next]]
  /\ produced' = [produced EXCEPT ![consumer[c].job] = @ \union {next}]
  /\ UNCHANGED <<storeVars, queue, dlq, sweep, late, faults, started, sent, reviewed>>

\* The effect threw, or asked for manual review: the job is left as it is.
EffectNeedsReview(c) ==
  /\ At(c, "effect")
  /\ Answer(c, QueueOutcome("manual_review"))
  /\ reviewed' = reviewed \union {consumer[c].job}
  /\ UNCHANGED <<storeVars, sweep, late, faults, started, produced, sent>>

\* Mutants: a retryable failure is written as a final one; a refused outcome is
\* recorded as processed.
ApplyCoerced(c) ==
  /\ At(c, "apply")
  /\ LET my   == consumer[c]
         next == IF my.next = "queued" THEN "failed" ELSE my.next
     IN  \/ /\ ApplyJobOutcome(my.job, my.version, my.token, next, FALSE)
            /\ GoTo(c, "record")
            /\ UNCHANGED <<queue, dlq>>
         \/ /\ AnswersNothing(my.token, HeldBy(my.job, my.version, my.token))
            /\ Retry(c)
  /\ UNCHANGED <<sweep, late, faults, historyVars>>

\* apply_job_outcome: true goes on to the processed-event record; false, or
\* the error raised on a malformed outcome, retries the message.  The policy
\* evaluateJobTransition is asked first and always says "apply" here: its caller
\* passes 'running', its own lease's version twice, and retryable for 'queued'.
ApplyOutcome(c) ==
  /\ At(c, "apply")
  /\ LET my        == consumer[c]
         retryable == my.next = "queued"
     IN  \/ /\ ApplyJobOutcome(my.job, my.version, my.token, my.next, retryable)
            /\ GoTo(c, "record")
            /\ UNCHANGED <<queue, dlq>>
         \/ /\ \/ my.next = "malformed" /\ UNCHANGED storeVars
               \/ AnswersNothing(my.token, HeldBy(my.job, my.version, my.token))
            /\ Retry(c)
  /\ UNCHANGED <<sweep, late, faults, historyVars>>

RecordProcessed(c) ==
  /\ At(c, "record")
  /\ RecordProcessedEvent(consumer[c].job)
  /\ Answer(c, QueueOutcome("recorded"))
  /\ UNCHANGED <<sweep, late, faults, historyVars>>

ConsumerStep(c) ==
  \/ \E j \in Job, d \in Delivery, t \in FreshToken : Receive(c, j, d, t)
  \/ ReadCanonicalJob(c)
  \/ \E expired \in BOOLEAN : CheckDispatch(c, expired)
  \/ RecheckFence(c)
  \/ CallPassesGate(c)
  \/ Claim(c)
  \/ \E next \in Outcome : EffectReturns(c, next)
  \/ EffectNeedsReview(c)
  \/ ApplyOutcome(c)
  \/ RecordProcessed(c)

-----------------------------------------------------------------------------
\* One invocation of the scheduled handler: sweepOutbox.

\* A sweep that finds the gate closed ends where it began.
BeginSweep(s, t) ==
  /\ sweep[s].pc = "idle"
  /\ PassGate(t)
  /\ sweep' = [sweep EXCEPT ![s] = [@ EXCEPT !.pc = "batch", !.token = t]]
  /\ UNCHANGED <<queue, dlq, consumer, late, faults, historyVars>>

ClaimBatch(s) ==
  /\ sweep[s].pc = "batch"
  /\ ClaimOutboxBatch(sweep[s].token)
  /\ sweep' = [sweep EXCEPT ![s] =
       IF OutboxBatch = {} THEN IdleSweep
       ELSE [@ EXCEPT !.pc = "send", !.todo = OutboxBatch]]
  /\ UNCHANGED <<queue, dlq, consumer, late, faults, historyVars>>

SendRow(s, j) ==
  /\ sweep[s].pc = "send"
  /\ j \in sweep[s].todo
  /\ queue' = [queue EXCEPT ![<<j, 0>>] = @ + 1]
  /\ sent' = sent \union {j}
  /\ sweep' = [sweep EXCEPT ![s] = [@ EXCEPT !.pc = "complete", !.row = j]]
  /\ UNCHANGED <<storeVars, dlq, consumer, late, faults, started, produced, reviewed>>

\* Mutant: a row marked without testing its lease.
CompleteUnleased(s) ==
  /\ sweep[s].pc = "complete"
  /\ outbox' = [outbox EXCEPT ![sweep[s].row] =
       [@ EXCEPT !.state = "dispatched", !.token = NoToken, !.lease = "none"]]
  /\ sweep' = [sweep EXCEPT ![s] = IdleSweep]
  /\ UNCHANGED <<fences, jobs, processed, admitted, queue, dlq, consumer, late, faults, historyVars>>

\* complete_outbox_event: a row that is no longer ours ends the sweep, the
\* rows after it included.
CompleteRow(s) ==
  /\ sweep[s].pc = "complete"
  /\ LET row  == sweep[s].row
         rest == sweep[s].todo \ {row}
     IN  \/ /\ CompleteOutboxEvent(row, sweep[s].token)
            /\ sweep' = [sweep EXCEPT ![s] =
                 IF rest = {} THEN IdleSweep
                 ELSE [@ EXCEPT !.pc = "send", !.todo = rest, !.row = NoJob]]
         \/ /\ ~Completable(row, sweep[s].token)
            /\ sweep' = [sweep EXCEPT ![s] = IdleSweep]
            /\ UNCHANGED storeVars
  /\ UNCHANGED <<queue, dlq, consumer, late, faults, historyVars>>

SweepStep(s) ==
  \/ \E t \in FreshToken : BeginSweep(s, t)
  \/ ClaimBatch(s)
  \/ \E j \in Job : SendRow(s, j)
  \/ CompleteRow(s)

-----------------------------------------------------------------------------
\* Faults.  Each spends one of MaxFaults.

Fault == faults < MaxFaults /\ faults' = faults + 1

\* The mutation an actor is waiting on, when there is one.
ConsumerRequest(c) ==
  IF consumer[c].pc \in Mutation
  THEN {[op |-> consumer[c].pc, job |-> consumer[c].job, version |-> consumer[c].version,
         token |-> consumer[c].token, next |-> consumer[c].next]}
  ELSE {}

SweepRequest(s) ==
  IF sweep[s].pc \in Mutation
  THEN {[op |-> sweep[s].pc, job |-> sweep[s].row, version |-> 0,
         token |-> sweep[s].token, next |-> NoOutcome]}
  ELSE {}

\* A request already inside the database runs on without its client; one that
\* is still on its way may arrive later, or be lost.
Abandon(request, t) ==
  \/ late' = late \union request
  \/ t \notin admitted /\ UNCHANGED late

\* Mutant: an interrupted invocation has acknowledged its message already.
InterruptedAfterAck(c) ==
  /\ ~At(c, "idle")
  /\ Fault
  /\ Ack(c)
  /\ Abandon(ConsumerRequest(c), consumer[c].token)
  /\ UNCHANGED <<storeVars, sweep, historyVars>>

\* The isolate dies, an RPC times out or fails: the queue delivers the message
\* again, and the request may reach the database after all.
ConsumerInterrupted(c) ==
  /\ ~At(c, "idle")
  /\ Fault
  /\ Retry(c)
  /\ Abandon(ConsumerRequest(c), consumer[c].token)
  /\ UNCHANGED <<storeVars, sweep, historyVars>>

\* Mutant: the message is acknowledged and nobody is told.
UnreadableUnseen(c) ==
  /\ consumer[c].pc \notin {"idle", "effect"}
  /\ Fault
  /\ Ack(c)
  /\ Abandon(ConsumerRequest(c), consumer[c].token)
  /\ UNCHANGED <<storeVars, sweep, historyVars>>

\* An RPC answers with bytes the transport cannot accept: manual review, which
\* acknowledges the message whether or not the request took effect.
ConsumerUnreadable(c) ==
  /\ consumer[c].pc \notin {"idle", "effect"}
  /\ Fault
  /\ Ack(c)
  /\ reviewed' = reviewed \union {consumer[c].job}
  /\ Abandon(ConsumerRequest(c), consumer[c].token)
  /\ UNCHANGED <<storeVars, sweep, started, produced, sent>>

SweepInterrupted(s) ==
  /\ sweep[s].pc # "idle"
  /\ Fault
  /\ sweep' = [sweep EXCEPT ![s] = IdleSweep]
  /\ Abandon(SweepRequest(s), sweep[s].token)
  /\ UNCHANGED <<storeVars, queue, dlq, consumer, historyVars>>

\* A request its client gave up on passes the gate, reaches its row, or comes
\* to nothing.
LateRequestPassesGate(r) ==
  /\ r.op \in {"claim", "apply"} /\ r.next # "malformed"
  /\ r.token \notin admitted
  /\ PassGate(r.token)
  /\ UNCHANGED <<actorVars, faults, historyVars>>

LateRequest(r) ==
  /\ late' = late \ {r}
  /\ \/ r.op = "claim" /\ ClaimJob(r.job, r.version, r.token)
     \/ r.op = "apply" /\ ApplyJobOutcome(r.job, r.version, r.token, r.next, r.next = "queued")
     \/ r.op = "record" /\ RecordProcessedEvent(r.job)
     \/ r.op = "batch" /\ ClaimOutboxBatch(r.token)
     \/ r.op = "complete" /\ CompleteOutboxEvent(r.job, r.token)
     \/ MatchNothing(r.token)
     \/ r.token \notin admitted /\ UNCHANGED storeVars
  /\ UNCHANGED <<queue, dlq, consumer, sweep, faults, historyVars>>

\* A lease runs out.  That its holder is still at work is a fault: an RPC has
\* fifteen seconds, a lease five minutes.
JobLeaseWatched(j) == \E c \in Consumer : consumer[c].token = jobs[j].token
OutboxLeaseWatched(j) == \E s \in Sweeper : sweep[s].token = outbox[j].token

LeaseLapses(j) ==
  /\ \/ ~JobLeaseWatched(j) /\ JobLeaseExpires(j)
     \/ ~OutboxLeaseWatched(j) /\ OutboxLeaseExpires(j)
  /\ UNCHANGED <<actorVars, faults, historyVars>>

LeaseOutlived(j) ==
  /\ Fault
  /\ \/ JobLeaseWatched(j) /\ JobLeaseExpires(j)
     \/ OutboxLeaseWatched(j) /\ OutboxLeaseExpires(j)
  /\ UNCHANGED <<actorVars, historyVars>>

-----------------------------------------------------------------------------
ClientRequest(j) == AcceptJob(j) /\ UNCHANGED <<actorVars, faults, historyVars>>

RestoreOperator ==
  /\ FenceStep
  /\ UNCHANGED <<jobs, outbox, processed, admitted, actorVars, faults, historyVars>>

FaultStep ==
  \/ \E c \in Consumer : ConsumerInterrupted(c) \/ ConsumerUnreadable(c)
  \/ \E s \in Sweeper : SweepInterrupted(s)
  \/ \E j \in Job : LeaseOutlived(j)

RuntimeNext ==
  \/ \E j \in Job : ClientRequest(j) \/ LeaseLapses(j)
  \/ RestoreOperator
  \/ \E c \in Consumer : ConsumerStep(c)
  \/ \E s \in Sweeper : SweepStep(s)
  \/ \E r \in late : LateRequestPassesGate(r) \/ LateRequest(r)
  \/ FaultStep

RuntimeSpec == RuntimeInit /\ [][RuntimeNext]_runtimeVars

\* The platform keeps invoking its handlers, clocks run, and handlers go on to
\* their next step.  Nothing is assumed of clients, operators or faults.
RuntimeFairness ==
  /\ \A c \in Consumer : WF_runtimeVars(ConsumerStep(c))
  /\ \A s \in Sweeper : WF_runtimeVars(SweepStep(s))
  /\ \A j \in Job : WF_runtimeVars(LeaseLapses(j))

FairRuntimeSpec == RuntimeSpec /\ RuntimeFairness
-----------------------------------------------------------------------------
\* Whatever is duplicated, retried or late, the effect of a job is started at
\* most once: two messages, two consumers or a claim that lands after its
\* client gave up never both pass the version check of claim_job.
AtMostOneEffect == \A j \in Job : started[j] <= 1

\* While an effect runs, or its outcome is on its way, the row is its own: even
\* when its lease has expired, or a restore has begun meanwhile, nobody else
\* claims the job or ends it.  An outcome is refused because of the clock or
\* the fence, never because somebody overtook it.
EffectOwnsRow ==
  \A c \in Consumer : consumer[c].pc \in {"effect", "apply"} =>
    LET row == jobs[consumer[c].job]
    IN  row.state = "running" /\ row.version = consumer[c].version
        /\ row.token = consumer[c].token

\* The price of it: a job is attempted once.  A row whose lease has expired,
\* or whose outcome is written, is never written again, whatever message is
\* redelivered and whatever request arrives late.
AttemptedOnce ==
  [][\A j \in Job : jobs[j].lease = "expired" \/ jobs[j].version > 2
       => jobs'[j] = jobs[j]]_runtimeVars

\* A terminal state is the outcome the effect itself returned, whoever wrote
\* it and however late the request that wrote it arrived.
OutcomeFromEffect ==
  \A j \in Job : jobs[j].state \in TerminalState => jobs[j].state \in produced[j]

\* An event is recorded as processed only when the outcome of its job is
\* already in the canonical row: a redelivery may skip it without loss.
ProcessedAfterOutcome ==
  \A j \in processed : jobs[j].version >= 3 /\ jobs[j].state # "running"

\* No outbox row is marked dispatched before its message was sent, whichever
\* sweep marks it and whenever its request arrives.
DispatchedWasSent ==
  \A j \in Job : outbox[j].state = "dispatched" => j \in sent

\* A job nobody has claimed is never forgotten: its event is still pending, or
\* a message or an invocation carries it, or it is where an operator looks.
UnclaimedHasCarrier ==
  \A j \in Accepted : jobs[j].version = EventVersion =>
    \/ outbox[j].state = "pending"
    \/ \E d \in Delivery : queue[<<j, d>>] > 0
    \/ \E c \in Consumer : consumer[c].job = j
    \/ j \in dlq \union reviewed

\* When the calls admitted before a restore have ended, no effect starts until
\* it is over: the two snapshots a consumer read may be stale, the gate is not.
NoEffectStartsDrained ==
  [][~ExternalEffectsAllowed =>
       /\ admitted' \subseteq admitted
       /\ admitted' = admitted => started' = started]_runtimeVars

\* The Worker uses the store only through the functions of JobStore.
ImplementsStore == StoreSpec

\* If restores come to an end, every accepted event reaches the queue.
PendingIsDispatched ==
  <>[]ExternalEffectsAllowed =>
    \A j \in Job : (outbox[j].state = "pending") ~> (outbox[j].state = "dispatched")

\* If restores come to an end, every accepted job is claimed, or its message
\* ends up where an operator looks: the dead-letter queue or manual review.
AcceptedIsTaken ==
  <>[]ExternalEffectsAllowed =>
    \A j \in Job : (jobs[j].state = "queued" /\ jobs[j].version = EventVersion)
                     ~> (jobs[j].version > EventVersion \/ j \in dlq \union reviewed)

\* What the specification asks of an interrupted attempt: when the lease of a
\* running job has expired, a later attempt takes the job up again.
ExpiredAttemptResumes ==
  \A j \in Job : (jobs[j].lease = "expired")
                   ~> (jobs[j].lease = "live" \/ jobs[j].state \in TerminalState)

\* What the specification asks of a retryable failure: the job is returned to
\* queued, and is attempted again or ends.
RetryableFailureRetried ==
  \A j \in Job : (jobs[j].state = "queued" /\ jobs[j].attempts > 0)
                   ~> (jobs[j].state # "queued")
-----------------------------------------------------------------------------
(***************************************************************************)
(* Why the safety properties hold: an inductive invariant.  The version    *)
(* of a row says how far the one message that may run it has come: 1 when  *)
(* accepted, 2 while claimed, 3 once an outcome is written.                *)
(***************************************************************************)

Carried(j) ==
  \/ \E d \in Delivery : queue[<<j, d>>] > 0
  \/ \E c \in Consumer : consumer[c].job = j
  \/ j \in dlq \union reviewed

RowInv(j) ==
  /\ jobs[j].version \in 0..3
  /\ (jobs[j].state = "absent") <=> (jobs[j].version = 0)
  /\ (jobs[j].state = "running") <=> (jobs[j].version = 2)
  /\ jobs[j].state \in TerminalState => jobs[j].version = 3

HistoryInv(j) ==
  /\ started[j] \in 0..1
  /\ jobs[j].version \in 0..1 => started[j] = 0
  /\ jobs[j].state \in TerminalState => jobs[j].state \in produced[j]
  /\ j \in processed => jobs[j].version = 3
  /\ outbox[j].state = "dispatched" => j \in sent
  /\ j \in sent => jobs[j].version # 0
  /\ (j \in sent /\ jobs[j].version = 1) => Carried(j)

ConsumerInv(c) ==
  LET my == consumer[c]
  IN  /\ my.pc = "idle" => my.job = NoJob
      /\ my.pc # "idle" =>
           /\ my.job \in Job /\ my.delivered \in Delivery /\ my.token \in Token
           /\ my.pc = "fence" => /\ my.version <= jobs[my.job].version
                                 /\ my.version = 0 => my.state = "absent"
                                 /\ my.version = 1 => my.state = "queued"
           /\ my.pc \in {"refence", "claim"} => my.version = 1
           /\ my.pc = "apply" => my.next \in produced[my.job]
           /\ my.pc = "record" => jobs[my.job].version = 3

SweepInv(s) ==
  sweep[s].pc # "idle" =>
    /\ sweep[s].token \in Token
    /\ sweep[s].pc # "batch" => \A j \in sweep[s].todo : jobs[j].version # 0
    /\ sweep[s].pc = "complete" => sweep[s].row \in sent

LateInv(r) ==
  /\ r.token \in Token /\ (r.op # "batch" => r.job \in Job)
  /\ r.op = "claim" => r.version = 1
  /\ r.op = "apply" => r.next \in produced[r.job]
  /\ r.op = "record" => jobs[r.job].version = 3
  /\ r.op = "complete" => r.job \in sent

\* No two invocations ever hold one token, nor a request that is still late
\* the token of an invocation.
TokensUnique ==
  \A c \in Consumer : consumer[c].pc # "idle" =>
    /\ \A d \in Consumer : consumer[d].token = consumer[c].token => d = c
    /\ \A s \in Sweeper : sweep[s].token # consumer[c].token
    /\ \A r \in late : r.token # consumer[c].token

RuntimeInv ==
  /\ RuntimeTypeOK
  /\ LeaseIffRunning
  /\ \A j \in Job : RowInv(j) /\ HistoryInv(j)
  /\ \A c \in Consumer : ConsumerInv(c)
  /\ \A s \in Sweeper : SweepInv(s)
  /\ \A r \in late : LateInv(r)
=============================================================================
