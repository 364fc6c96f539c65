--------------------------- MODULE JobRuntimeProofs ---------------------------
(***************************************************************************)
(* Theorems about JobRuntime, for any number of jobs, consumers, sweeps,   *)
(* deliveries and faults: it uses the store as JobStore allows, and        *)
(* RuntimeInv is inductive, from which the safety properties follow.       *)
(***************************************************************************)
EXTENDS JobRuntime, JobStoreProofs

\* The types of what the Worker holds; the store's types are StoreTypeOK.
ActorTypeOK ==
  /\ queue \in [Job \X Delivery -> Nat]
  /\ dlq \subseteq Job
  /\ consumer \in [Consumer -> ConsumerRecord]
  /\ sweep \in [Sweeper -> SweepRecord]
  /\ late \subseteq Request
  /\ faults \in 0..MaxFaults
  /\ started \in [Job -> Nat]
  /\ produced \in [Job -> SUBSET Outcome]
  /\ sent \subseteq Job /\ reviewed \subseteq Job

LEMMA TypeParts == RuntimeTypeOK <=> StoreTypeOK /\ ActorTypeOK
  BY DEF RuntimeTypeOK, ActorTypeOK

LEMMA InvGivesStoreInv == RuntimeInv => StoreInv
  BY TypeParts DEF RuntimeInv, StoreInv

-----------------------------------------------------------------------------
\* Each step of the Worker is a step of the store, or leaves it alone.

LEMMA AcceptedIffVersion ==
  ASSUME RuntimeInv, NEW j \in Job, jobs[j].version # 0
  PROVE  j \in Accepted
  BY DEF RuntimeInv, RowInv, LeaseIffRunning, Accepted

LEMMA ClaimIsClientStep ==
  ASSUME RuntimeInv, NEW j \in Job, NEW v, NEW t \in Token, ClaimJob(j, v, t)
  PROVE  StoreNext
  <1>1. jobs[j].version = v /\ jobs[j].state \in {"queued", "running"}
    BY DEF ClaimJob, Claimable
  <1>2. v \in 1..jobs[j].version
    BY <1>1 DEF RuntimeInv, RowInv
  <1> QED
    BY <1>2 DEF StoreNext, ClientStep

LEMMA ApplyIsClientStep ==
  ASSUME RuntimeInv, NEW j \in Job, NEW v, NEW t \in Token, NEW next,
         NEW retryable \in BOOLEAN, ApplyJobOutcome(j, v, t, next, retryable)
  PROVE  StoreNext
  <1>1. jobs[j].version = v /\ jobs[j].state = "running"
    BY DEF ApplyJobOutcome, HeldBy
  <1>2. v \in 1..jobs[j].version
    BY <1>1 DEF RuntimeInv, RowInv
  <1>3. next \in JobState
    BY DEF ApplyJobOutcome, ValidOutcome, TerminalState, JobState
  <1> QED
    BY <1>2, <1>3 DEF StoreNext, ClientStep

LEMMA RecordIsClientStep ==
  ASSUME RuntimeInv, NEW j \in Job, NEW t \in Token, jobs[j].version = 3,
         RecordProcessedEvent(j)
  PROVE  StoreNext
  BY AcceptedIffVersion DEF StoreNext, ClientStep

LEMMA CompleteIsClientStep ==
  ASSUME NEW j \in Job, NEW t \in Token, CompleteOutboxEvent(j, t)
  PROVE  StoreNext
  BY DEF StoreNext, ClientStep

LEMMA GateIsStoreStep ==
  ASSUME NEW t \in Token, PassGate(t) \/ MatchNothing(t) \/ ClaimOutboxBatch(t)
  PROVE  StoreNext
  BY DEF StoreNext

LEMMA NothingIsStoreStep ==
  ASSUME NEW t \in Token, NEW matches, AnswersNothing(t, matches)
  PROVE  [StoreNext]_storeVars
  BY GateIsStoreStep DEF AnswersNothing

LEMMA ConsumerIsStoreStep ==
  ASSUME RuntimeInv, NEW c \in Consumer, ConsumerStep(c)
  PROVE  [StoreNext]_storeVars
  <1>0. ConsumerInv(c)
    BY DEF RuntimeInv
  <1>1. CASE UNCHANGED storeVars
    BY <1>1
  <1>2. CASE Claim(c)
    BY <1>0, <1>2, ClaimIsClientStep, NothingIsStoreStep DEF Claim, At, ConsumerInv
  <1>3. CASE ApplyOutcome(c)
    <2>1. (consumer[c].next = "queued") \in BOOLEAN
      OBVIOUS
    <2> QED
      BY <1>0, <1>3, <2>1, ApplyIsClientStep, NothingIsStoreStep
      DEF ApplyOutcome, At, ConsumerInv
  <1>4. CASE RecordProcessed(c)
    BY <1>0, <1>4, RecordIsClientStep DEF RecordProcessed, At, ConsumerInv
  <1>5. CASE CallPassesGate(c)
    BY <1>0, <1>5, GateIsStoreStep DEF CallPassesGate, At, ConsumerInv
  <1> QED
    BY <1>1, <1>2, <1>3, <1>4, <1>5
    DEF ConsumerStep, Receive, ReadCanonicalJob, CheckDispatch, RecheckFence,
        EffectReturns, EffectNeedsReview

LEMMA SweepIsStoreStep ==
  ASSUME RuntimeInv, NEW s \in Sweeper, SweepStep(s)
  PROVE  [StoreNext]_storeVars
  <1>0. SweepInv(s) /\ (sweep[s].pc = "complete" => sweep[s].row \in Job)
    BY DEF RuntimeInv, RuntimeTypeOK, SweepInv
  <1>1. ASSUME NEW t \in FreshToken, BeginSweep(s, t) PROVE StoreNext
    BY <1>1, GateIsStoreStep DEF FreshToken, BeginSweep
  <1>2. CASE ClaimBatch(s)
    BY <1>0, <1>2, GateIsStoreStep DEF ClaimBatch, SweepInv
  <1>3. CASE CompleteRow(s)
    BY <1>0, <1>3, CompleteIsClientStep DEF CompleteRow, SweepInv
  <1> QED
    BY <1>1, <1>2, <1>3 DEF SweepStep, SendRow

LEMMA LateIsStoreStep ==
  ASSUME RuntimeInv, NEW r \in late, LateRequestPassesGate(r) \/ LateRequest(r)
  PROVE  [StoreNext]_storeVars
  <1>0. LateInv(r) /\ (r.op # "batch" => r.job \in Job) /\ r.token \in Token
    BY DEF RuntimeInv, LateInv
  <1>1. (r.next = "queued") \in BOOLEAN
    OBVIOUS
  <1>2. CASE LateRequestPassesGate(r)
    BY <1>0, <1>2, GateIsStoreStep DEF LateRequestPassesGate
  <1>3. CASE r.op = "claim" /\ ClaimJob(r.job, r.version, r.token)
    BY <1>0, <1>3, ClaimIsClientStep
  <1>4. CASE r.op = "apply" /\ ApplyJobOutcome(r.job, r.version, r.token, r.next, r.next = "queued")
    BY <1>0, <1>1, <1>4, ApplyIsClientStep
  <1>5. CASE r.op = "record" /\ RecordProcessedEvent(r.job)
    BY <1>0, <1>5, RecordIsClientStep DEF LateInv
  <1>6. CASE r.op = "complete" /\ CompleteOutboxEvent(r.job, r.token)
    BY <1>0, <1>6, CompleteIsClientStep
  <1> QED
    BY <1>0, <1>2, <1>3, <1>4, <1>5, <1>6, GateIsStoreStep DEF LateRequest

LEMMA RuntimeIsStoreStep ==
  ASSUME RuntimeInv, [RuntimeNext]_runtimeVars
  PROVE  [StoreNext]_storeVars
  <1>1. ASSUME NEW j \in Job, ClientRequest(j) \/ LeaseLapses(j) \/ LeaseOutlived(j)
        PROVE  StoreNext
    BY <1>1 DEF ClientRequest, LeaseLapses, LeaseOutlived, StoreNext
  <1>2. CASE RestoreOperator
    BY <1>2 DEF RestoreOperator, StoreNext
  <1>3. CASE UNCHANGED runtimeVars
    BY <1>3 DEF runtimeVars
  <1>4. ASSUME NEW c \in Consumer, ConsumerInterrupted(c) \/ ConsumerUnreadable(c)
        PROVE  UNCHANGED storeVars
    BY <1>4 DEF ConsumerInterrupted, ConsumerUnreadable
  <1>5. ASSUME NEW s \in Sweeper, SweepInterrupted(s) PROVE UNCHANGED storeVars
    BY <1>5 DEF SweepInterrupted
  <1> QED
    BY <1>1, <1>2, <1>3, <1>4, <1>5, ConsumerIsStoreStep, SweepIsStoreStep, LateIsStoreStep
    DEF RuntimeNext, FaultStep
-----------------------------------------------------------------------------
\* What the store's steps do to the row of one job, in versions.

\* Row j moves from one version to the next; every other row stays.
Advance(j, from, to, state) ==
  /\ jobs[j].version = from /\ jobs'[j].version = to /\ jobs'[j].state = state
  /\ \A k \in Job : k # j => jobs'[k] = jobs[k]

\* No row changes its version or its state.
Steady ==
  \A k \in Job : jobs'[k].version = jobs[k].version /\ jobs'[k].state = jobs[k].state

LEMMA AcceptAdvances ==
  ASSUME RuntimeInv, NEW j \in Job, AcceptJob(j)
  PROVE  Advance(j, 0, 1, "queued")
  <1> DEFINE row == [AbsentJob EXCEPT !.state = "queued", !.version = 1]
  <1>1. row.version = 1 /\ row.state = "queued"
    BY DEF AbsentJob
  <1>2. jobs' = [jobs EXCEPT ![j] = row] /\ jobs[j].state = "absent"
    BY DEF AcceptJob
  <1>3. jobs[j].version = 0 /\ jobs \in [Job -> JobRow]
    BY <1>2 DEF RuntimeInv, RowInv, RuntimeTypeOK, StoreTypeOK
  <1> HIDE DEF row
  <1> QED
    BY <1>1, <1>2, <1>3 DEF Advance

LEMMA ClaimAdvances ==
  ASSUME RuntimeInv, NEW j \in Job, NEW t, ClaimJob(j, 1, t)
  PROVE  Advance(j, 1, 2, "running")
  <1> DEFINE row == [jobs[j] EXCEPT !.state = "running", !.version = @ + 1,
                       !.token = t, !.lease = "live", !.attempts = @ + 1]
  <1>1. jobs \in [Job -> JobRow] /\ jobs[j] \in JobRow
    BY DEF RuntimeInv, RuntimeTypeOK, StoreTypeOK
  <1>2. jobs[j].version = 1
    BY DEF ClaimJob, Claimable
  <1>3. row.version = 2 /\ row.state = "running"
    BY <1>1, <1>2 DEF JobRow
  <1>4. jobs' = [jobs EXCEPT ![j] = row]
    BY DEF ClaimJob, UpdateJob
  <1> HIDE DEF row
  <1> QED
    BY <1>1, <1>2, <1>3, <1>4 DEF Advance

LEMMA ApplyAdvances ==
  ASSUME RuntimeInv, NEW j \in Job, NEW v, NEW t, NEW next,
         ApplyJobOutcome(j, v, t, next, next = "queued")
  PROVE  Advance(j, 2, 3, next) /\ next \in TerminalState \union {"queued"}
  <1> DEFINE row == [jobs[j] EXCEPT !.state = OutcomeTarget(next, next = "queued"),
                       !.version = @ + 1, !.token = NoToken, !.lease = "none"]
  <1>1. jobs \in [Job -> JobRow] /\ jobs[j] \in JobRow
    BY DEF RuntimeInv, RuntimeTypeOK, StoreTypeOK
  <1>2. jobs[j].version = 2
    BY DEF ApplyJobOutcome, HeldBy, RuntimeInv, RowInv
  <1>3. OutcomeTarget(next, next = "queued") = next
    BY DEF OutcomeTarget
  <1>4. row.version = 3 /\ row.state = next
    BY <1>1, <1>2, <1>3 DEF JobRow
  <1>5. jobs' = [jobs EXCEPT ![j] = row]
    BY DEF ApplyJobOutcome, UpdateJob
  <1>6. next \in TerminalState \union {"queued"}
    BY DEF ApplyJobOutcome, ValidOutcome
  <1> HIDE DEF row
  <1> QED
    BY <1>1, <1>2, <1>4, <1>5, <1>6 DEF Advance

LEMMA ExpirySteady ==
  ASSUME RuntimeInv, NEW j \in Job, JobLeaseExpires(j)
  PROVE  Steady
  <1>1. jobs \in [Job -> JobRow]
    BY DEF RuntimeInv, RuntimeTypeOK, StoreTypeOK
  <1>2. jobs' = [jobs EXCEPT ![j] = [jobs[j] EXCEPT !.lease = "expired"]]
    BY DEF JobLeaseExpires
  <1> QED
    BY <1>1, <1>2 DEF Steady, JobRow

LEMMA UnchangedSteady == UNCHANGED jobs => Steady
  BY DEF Steady

\* What every later lemma needs of the rows: the invariant of each row, and
\* that no version ever goes back.
RowsAdvance ==
  \A k \in Job : /\ RowInv(k)'
                 /\ jobs'[k].version >= jobs[k].version
                 /\ jobs[k].version \in 0..3 /\ jobs'[k].version \in 0..3

LEMMA SteadyRows ==
  ASSUME RuntimeInv, Steady
  PROVE  RowsAdvance
  BY DEF RuntimeInv, RowInv, Steady, RowsAdvance

LEMMA AdvanceRows ==
  ASSUME RuntimeInv, NEW j \in Job, NEW state,
         \/ Advance(j, 0, 1, "queued") \/ Advance(j, 1, 2, "running")
         \/ Advance(j, 2, 3, state) /\ state \in TerminalState \union {"queued"}
  PROVE  RowsAdvance
  <1>1. \A k \in Job : k # j =>
          RowInv(k)' /\ jobs'[k].version = jobs[k].version /\ jobs[k].version \in 0..3
    BY DEF RuntimeInv, RowInv, Advance
  <1>2. RowInv(j)' /\ jobs'[j].version >= jobs[j].version
        /\ jobs[j].version \in 0..3 /\ jobs'[j].version \in 0..3
    BY DEF RuntimeInv, RowInv, Advance, TerminalState
  <1> QED
    BY <1>1, <1>2 DEF RowsAdvance

-----------------------------------------------------------------------------
\* What an actor knew stays true while rows only advance and histories grow.

HistoriesGrow ==
  /\ \A k \in Job : produced[k] \subseteq produced'[k]
  /\ sent \subseteq sent'

LEMMA ConsumerStable ==
  ASSUME RuntimeInv, RowsAdvance, HistoriesGrow, NEW c \in Consumer,
         consumer'[c] = consumer[c]
  PROVE  ConsumerInv(c)'
  <1>1. ConsumerInv(c) /\ consumer[c].version \in Nat
    BY DEF RuntimeInv, RuntimeTypeOK, ConsumerRecord
  <1> QED
    BY <1>1 DEF ConsumerInv, RowsAdvance, HistoriesGrow

LEMMA SweepStable ==
  ASSUME RuntimeInv, RowsAdvance, HistoriesGrow, NEW s \in Sweeper, sweep'[s] = sweep[s]
  PROVE  SweepInv(s)'
  <1>1. SweepInv(s) /\ sweep[s].todo \subseteq Job
    BY DEF RuntimeInv, RuntimeTypeOK, SweepRecord
  <1> QED
    BY <1>1 DEF SweepInv, RowsAdvance, HistoriesGrow

LEMMA LateStable ==
  ASSUME RuntimeInv, RowsAdvance, HistoriesGrow, NEW r \in late
  PROVE  LateInv(r)'
  <1>1. LateInv(r)
    BY DEF RuntimeInv
  <1> QED
    BY <1>1 DEF LateInv, RowsAdvance, HistoriesGrow

\* The history of one job survives a step that keeps these six promises.
LEMMA HistoryStable ==
  ASSUME RuntimeInv, RowsAdvance, HistoriesGrow, NEW k \in Job,
         started'[k] = started[k],
         jobs'[k].state \in TerminalState =>
           jobs'[k].state = jobs[k].state \/ jobs'[k].state \in produced'[k],
         k \in processed' => k \in processed \/ jobs[k].version = 3,
         outbox'[k].state = "dispatched" => outbox[k].state = "dispatched" \/ k \in sent,
         k \in sent' => k \in sent \/ jobs[k].version # 0,
         (k \in sent' /\ jobs'[k].version = 1) => Carried(k)'
  PROVE  HistoryInv(k)'
  <1>1. HistoryInv(k)
    BY DEF RuntimeInv
  <1> QED
    BY <1>1 DEF HistoryInv, RowsAdvance, HistoriesGrow

\* The part of the invariant that is about the Worker.
ActorInv ==
  /\ ActorTypeOK
  /\ \A j \in Job : RowInv(j) /\ HistoryInv(j)
  /\ \A c \in Consumer : ConsumerInv(c)
  /\ \A s \in Sweeper : SweepInv(s)
  /\ \A r \in late : LateInv(r)

LEMMA InvParts == RuntimeInv <=> StoreInv /\ ActorInv
  BY TypeParts DEF RuntimeInv, StoreInv, ActorInv

-----------------------------------------------------------------------------
\* Steps of a consumer that write nothing to the store.

LEMMA QuietConsumer ==
  ASSUME RuntimeInv, NEW c \in Consumer,
         \A k \in Consumer : k # c => consumer'[k] = consumer[k],
         UNCHANGED <<jobs, outbox, processed, sweep, started, sent>>,
         \A k \in Job : produced[k] \subseteq produced'[k],
         ActorTypeOK', ConsumerInv(c)',
         \A k \in Job : (jobs[k].version = 1 /\ Carried(k)) => Carried(k)',
         \A r \in late' : r \in late \/ LateInv(r)'
  PROVE  ActorInv'
  <1>1. Steady
    BY DEF Steady
  <1>2. RowsAdvance
    BY <1>1, SteadyRows
  <1>3. HistoriesGrow
    BY DEF HistoriesGrow
  <1>4. \A k \in Job : RowInv(k)'
    BY <1>2 DEF RowsAdvance
  <1>5. ASSUME NEW k \in Job PROVE HistoryInv(k)'
    <2>1. (k \in sent' /\ jobs'[k].version = 1) => Carried(k)'
      BY DEF RuntimeInv, HistoryInv
    <2> QED
      BY <1>2, <1>3, <2>1, HistoryStable
  <1>6. \A k \in Consumer : ConsumerInv(k)'
    BY <1>2, <1>3, ConsumerStable
  <1>7. \A s \in Sweeper : SweepInv(s)'
    BY <1>2, <1>3, SweepStable
  <1>8. \A r \in late' : LateInv(r)'
    BY <1>2, <1>3, LateStable
  <1> QED
    BY <1>4, <1>5, <1>6, <1>7, <1>8 DEF ActorInv

LEMMA IdleInv ==
  ASSUME NEW c \in Consumer, consumer'[c] = IdleConsumer
  PROVE  ConsumerInv(c)'
  BY DEF ConsumerInv, IdleConsumer

LEMMA IdleType == IdleConsumer \in ConsumerRecord
  BY DEF IdleConsumer, ConsumerRecord, ConsumerPc, LeaseState

LEMMA RetryFacts ==
  ASSUME RuntimeInv, NEW c \in Consumer, ~At(c, "idle"), Retry(c)
  PROVE  /\ consumer' = [consumer EXCEPT ![c] = IdleConsumer]
         /\ consumer' \in [Consumer -> ConsumerRecord]
         /\ queue' \in [Job \X Delivery -> Nat] /\ dlq' \subseteq Job
         /\ reviewed \subseteq reviewed' =>
              \A k \in Job : Carried(k) => Carried(k)'
  <1> DEFINE j == consumer[c].job
             d == consumer[c].delivered + 1
  <1>1. /\ j \in Job /\ consumer[c].delivered \in Delivery
        /\ consumer \in [Consumer -> ConsumerRecord]
        /\ queue \in [Job \X Delivery -> Nat] /\ dlq \subseteq Job
    BY DEF RuntimeInv, RuntimeTypeOK, ConsumerInv, At
  <1>2. consumer' = [consumer EXCEPT ![c] = IdleConsumer]
    BY DEF Retry
  <1>3. consumer' \in [Consumer -> ConsumerRecord]
    BY <1>1, <1>2, IdleType
  <1>4. /\ queue' \in [Job \X Delivery -> Nat] /\ dlq' \subseteq Job
        /\ \A m \in Job \X Delivery : queue'[m] >= queue[m]
        /\ dlq \subseteq dlq'
        /\ j \in dlq' \/ (d \in Delivery /\ queue'[<<j, d>>] > 0)
    <2>1. CASE d \in Delivery /\ queue' = [queue EXCEPT ![<<j, d>>] = @ + 1] /\ UNCHANGED dlq
      <3>1. <<j, d>> \in Job \X Delivery
        BY <1>1, <2>1
      <3> HIDE DEF d, j
      <3>2. queue[<<j, d>>] \in Nat
        BY <1>1, <3>1
      <3> QED
        BY <1>1, <2>1, <3>1, <3>2
    <2>2. CASE dlq' = dlq \union {j} /\ UNCHANGED queue
      BY <1>1, <2>2
    <2> QED
      BY <2>1, <2>2 DEF Retry
  <1>5. ASSUME reviewed \subseteq reviewed', NEW k \in Job, Carried(k) PROVE Carried(k)'
    <2>1. CASE k \in dlq \union reviewed
      BY <1>4, <1>5, <2>1 DEF Carried
    <2>2. ASSUME NEW e \in Delivery, queue[<<k, e>>] > 0 PROVE Carried(k)'
      <3>1. queue[<<k, e>>] \in Nat /\ queue'[<<k, e>>] \in Nat
            /\ queue'[<<k, e>>] >= queue[<<k, e>>]
        BY <1>1, <1>4
      <3>2. queue'[<<k, e>>] > 0
        BY <2>2, <3>1
      <3> QED
        BY <3>2 DEF Carried
    <2>3. ASSUME NEW b \in Consumer, consumer[b].job = k PROVE Carried(k)'
      <3>1. CASE b = c
        BY <1>4, <2>3, <3>1 DEF Carried
      <3>2. CASE b # c
        BY <1>1, <1>2, <2>3, <3>2 DEF Carried
      <3> QED
        BY <3>1, <3>2
    <2> QED
      BY <1>5, <2>1, <2>2, <2>3 DEF Carried
  <1> QED
    BY <1>2, <1>3, <1>4, <1>5

LEMMA AckFacts ==
  ASSUME RuntimeInv, NEW c \in Consumer, Ack(c), reviewed \subseteq reviewed'
  PROVE  /\ consumer' = [consumer EXCEPT ![c] = IdleConsumer]
         /\ consumer' \in [Consumer -> ConsumerRecord]
         /\ queue' \in [Job \X Delivery -> Nat] /\ dlq' \subseteq Job
         /\ \A k \in Job : (Carried(k) /\ (k # consumer[c].job \/ k \in reviewed'))
              => Carried(k)'
  <1>1. /\ consumer \in [Consumer -> ConsumerRecord]
        /\ queue \in [Job \X Delivery -> Nat] /\ dlq \subseteq Job
    BY DEF RuntimeInv, RuntimeTypeOK
  <1>2. consumer' = [consumer EXCEPT ![c] = IdleConsumer] /\ UNCHANGED <<queue, dlq>>
    BY DEF Ack
  <1>3. consumer' \in [Consumer -> ConsumerRecord]
    BY <1>1, <1>2, IdleType
  <1> QED
    BY <1>1, <1>2, <1>3 DEF Carried

\* What QuietConsumer needs beside the step itself, when the step neither
\* touches a history nor leaves a late request.
LEMMA RetriedInv ==
  ASSUME RuntimeInv, NEW c \in Consumer, ~At(c, "idle"), Retry(c),
         UNCHANGED <<jobs, outbox, processed, sweep, late, faults, historyVars>>
  PROVE  ActorInv'
  <1>1. ActorTypeOK'
    BY RetryFacts DEF RuntimeInv, RuntimeTypeOK, ActorTypeOK, historyVars
  <1>2. ConsumerInv(c)'
    BY RetryFacts, IdleInv DEF RuntimeInv, RuntimeTypeOK
  <1>3. \A k \in Consumer : k # c => consumer'[k] = consumer[k]
    BY RetryFacts DEF RuntimeInv, RuntimeTypeOK
  <1>4. \A k \in Job : Carried(k) => Carried(k)'
    BY RetryFacts DEF historyVars
  <1> QED
    BY <1>1, <1>2, <1>3, <1>4, QuietConsumer DEF historyVars

\* An acknowledged message was not the last trace of a job nobody claimed.
LEMMA AckedInv ==
  ASSUME RuntimeInv, NEW c \in Consumer, Ack(c), jobs[consumer[c].job].version # 1,
         UNCHANGED <<storeVars, sweep, late, faults, historyVars>>
  PROVE  ActorInv'
  <1>1. ActorTypeOK'
    BY AckFacts DEF RuntimeInv, RuntimeTypeOK, ActorTypeOK, historyVars
  <1>2. ConsumerInv(c)'
    BY AckFacts, IdleInv DEF RuntimeInv, RuntimeTypeOK, historyVars
  <1>3. \A k \in Consumer : k # c => consumer'[k] = consumer[k]
    BY AckFacts DEF RuntimeInv, RuntimeTypeOK, historyVars
  <1>4. \A k \in Job : (jobs[k].version = 1 /\ Carried(k)) => Carried(k)'
    BY AckFacts DEF historyVars
  <1> QED
    BY <1>1, <1>2, <1>3, <1>4, QuietConsumer DEF historyVars, storeVars

\* A consumer that only moves on, keeping its message.
LEMMA MovedInv ==
  ASSUME RuntimeInv, NEW c \in Consumer, NEW new \in ConsumerRecord,
         consumer' = [consumer EXCEPT ![c] = new], new.job = consumer[c].job,
         UNCHANGED <<storeVars, queue, dlq, sweep, late, faults, started, sent, reviewed>>,
         produced' \in [Job -> SUBSET Outcome],
         \A k \in Job : produced[k] \subseteq produced'[k],
         ConsumerInv(c)'
  PROVE  ActorInv'
  <1>0. consumer \in [Consumer -> ConsumerRecord]
    BY DEF RuntimeInv, RuntimeTypeOK
  <1>1. ActorTypeOK'
    BY <1>0 DEF RuntimeInv, RuntimeTypeOK, ActorTypeOK
  <1>2. \A k \in Consumer : k # c => consumer'[k] = consumer[k]
    BY <1>0
  <1>3. \A k \in Consumer : consumer'[k].job = consumer[k].job
    BY <1>0
  <1>4. \A k \in Job : Carried(k) => Carried(k)'
    BY <1>3 DEF Carried
  <1> QED
    BY <1>1, <1>2, <1>4, QuietConsumer DEF storeVars

LEMMA ReceiveInv ==
  ASSUME RuntimeInv, NEW c \in Consumer, NEW j \in Job, NEW d \in Delivery,
         NEW t \in FreshToken, Receive(c, j, d, t)
  PROVE  ActorInv'
  <1> DEFINE new == [consumer[c] EXCEPT !.pc = "read", !.job = j, !.delivered = d, !.token = t]
  <1>0. /\ consumer \in [Consumer -> ConsumerRecord] /\ consumer[c] \in ConsumerRecord
        /\ queue \in [Job \X Delivery -> Nat] /\ t \in Token
        /\ d \in Nat
    BY RuntimeAssumption DEF RuntimeInv, RuntimeTypeOK, FreshToken, Delivery
  <1>1. new \in ConsumerRecord /\ new.pc = "read" /\ new.job = j /\ new.delivered = d
        /\ new.token = t
    BY <1>0 DEF ConsumerRecord, ConsumerPc
  <1>2. consumer' = [consumer EXCEPT ![c] = new]
    BY DEF Receive
  <1> HIDE DEF new
  <1>3. queue' \in [Job \X Delivery -> Nat]
        /\ \A m \in Job \X Delivery : m # <<j, d>> => queue'[m] = queue[m]
    <2>1. <<j, d>> \in Job \X Delivery /\ queue[<<j, d>>] > 0 /\ queue[<<j, d>>] \in Nat
      BY <1>0 DEF Receive
    <2>2. queue' = [queue EXCEPT ![<<j, d>>] = queue[<<j, d>>] - 1]
      BY DEF Receive
    <2> QED
      BY <1>0, <2>1, <2>2
  <1>4. ActorTypeOK'
    BY <1>0, <1>1, <1>2, <1>3 DEF RuntimeInv, RuntimeTypeOK, ActorTypeOK, Receive, historyVars
  <1>5. ConsumerInv(c)'
    BY <1>0, <1>1, <1>2 DEF ConsumerInv
  <1>6. ASSUME NEW k \in Job, Carried(k) PROVE Carried(k)'
    <2>1. CASE k = j
      BY <1>0, <1>1, <1>2, <2>1 DEF Carried
    <2>2. CASE k # j
      <3>1. \A b \in Consumer : consumer[b].job = k => consumer'[b].job = k
        BY <1>0, <1>2, <2>2, RuntimeAssumption DEF RuntimeInv, ConsumerInv, Receive, At
      <3>2. \A e \in Delivery : queue'[<<k, e>>] = queue[<<k, e>>]
        BY <1>3, <2>2
      <3> QED
        BY <1>6, <3>1, <3>2 DEF Carried, Receive, historyVars
    <2> QED
      BY <2>1, <2>2
  <1>7. \A k \in Consumer : k # c => consumer'[k] = consumer[k]
    BY <1>0, <1>2
  <1> QED
    BY <1>4, <1>5, <1>6, <1>7, QuietConsumer DEF Receive, historyVars, storeVars

LEMMA ReadCanonicalJobInv ==
  ASSUME RuntimeInv, NEW c \in Consumer, ReadCanonicalJob(c)
  PROVE  ActorInv'
  <1> DEFINE row == jobs[consumer[c].job]
             new == [consumer[c] EXCEPT !.pc = "fence", !.state = row.state,
                       !.version = row.version, !.lease = row.lease]
  <1>0. /\ consumer \in [Consumer -> ConsumerRecord] /\ consumer[c] \in ConsumerRecord
        /\ consumer[c].pc = "read" /\ ConsumerInv(c) /\ consumer[c].job \in Job
        /\ row \in JobRow
    BY DEF RuntimeInv, RuntimeTypeOK, StoreTypeOK, ReadCanonicalJob, At, ConsumerInv
  <1>1. consumer' = [consumer EXCEPT ![c] = new]
    BY DEF ReadCanonicalJob
  <1>2. RowInv(consumer[c].job)
    BY <1>0 DEF RuntimeInv
  <1>3. (row.version = 1 => row.state = "queued") /\ (row.version = 0 => row.state = "absent")
    BY <1>0, <1>2 DEF RowInv, JobRow, JobState
  <1>4. row.state \in JobState \union {"absent"} /\ row.version \in Nat
        /\ row.lease \in LeaseState
    BY <1>0 DEF JobRow
  <1>5. /\ new \in ConsumerRecord /\ new.pc = "fence" /\ new.job = consumer[c].job
        /\ new.delivered = consumer[c].delivered /\ new.token = consumer[c].token
        /\ new.version = row.version /\ new.state = row.state
    <2> HIDE DEF row
    <2> QED
      BY <1>0, <1>4 DEF ConsumerRecord, ConsumerPc
  <1> HIDE DEF new
  <1>6. ConsumerInv(c)'
    BY <1>0, <1>1, <1>3, <1>4, <1>5 DEF ConsumerInv, ReadCanonicalJob, storeVars
  <1> QED
    BY <1>1, <1>5, <1>6, MovedInv
    DEF ReadCanonicalJob, historyVars, RuntimeInv, RuntimeTypeOK

\* A step that changes only the consumer's program counter.
LEMMA GoToInv ==
  ASSUME RuntimeInv, NEW c \in Consumer, NEW pc \in {"refence", "claim"},
         ~At(c, "idle"), consumer[c].version = 1, GoTo(c, pc), UNCHANGED <<queue, dlq>>,
         UNCHANGED <<storeVars, sweep, late, faults, historyVars>>
  PROVE  ActorInv'
  <1> DEFINE new == [consumer[c] EXCEPT !.pc = pc]
  <1>0. consumer \in [Consumer -> ConsumerRecord] /\ consumer[c] \in ConsumerRecord
        /\ ConsumerInv(c)
    BY DEF RuntimeInv, RuntimeTypeOK
  <1>1. consumer' = [consumer EXCEPT ![c] = new]
    BY <1>0 DEF GoTo
  <1>2. /\ new \in ConsumerRecord /\ new.pc = pc /\ new.job = consumer[c].job
        /\ new.delivered = consumer[c].delivered /\ new.token = consumer[c].token
        /\ new.version = consumer[c].version
    BY <1>0 DEF ConsumerRecord, ConsumerPc
  <1> HIDE DEF new
  <1>3. ConsumerInv(c)'
    BY <1>0, <1>1, <1>2 DEF ConsumerInv, At
  <1> QED
    BY <1>1, <1>2, <1>3, MovedInv DEF historyVars, RuntimeInv, RuntimeTypeOK

\* Only a message for a job that has moved on, or whose row read as terminal,
\* is acknowledged here; a queued row never reads as one without its lease.
LEMMA CheckDispatchInv ==
  ASSUME RuntimeInv, NEW c \in Consumer, NEW expired \in BOOLEAN, CheckDispatch(c, expired)
  PROVE  ActorInv'
  <1> DEFINE my       == consumer[c]
             fenceOk  == CanRunExternalEffect(ReadRestoreFence)
             dispatch == DecideJobDispatch(my.state, my.version, EventVersion, fenceOk)
             lease    == DecideJobLease(my.state, my.lease, expired)
  <1>0. /\ my.pc = "fence" /\ ~At(c, "idle") /\ ConsumerInv(c) /\ my \in ConsumerRecord
        /\ my.job \in Job /\ my.version \in Nat /\ RowInv(my.job)
        /\ jobs[my.job].version \in 0..3
    BY DEF RuntimeInv, RuntimeTypeOK, CheckDispatch, At, ConsumerInv, ConsumerRecord, RowInv
  <1>1. /\ my.version <= jobs[my.job].version
        /\ my.version = 1 => my.state = "queued"
        /\ my.version = 0 => my.state = "absent"
    BY <1>0 DEF ConsumerInv
  <1>2. UNCHANGED <<storeVars, sweep, late, faults, historyVars>>
    BY DEF CheckDispatch
  <1>3. CASE Retry(c)
    BY <1>0, <1>2, <1>3, RetriedInv DEF storeVars
  <1>4. CASE dispatch # "execute" /\ Answer(c, QueueOutcome(dispatch)) /\ ~Retry(c)
    <2>1. Ack(c) /\ dispatch \in {"skip", "retry"} /\ QueueOutcome(dispatch) = "ack"
      BY <1>4 DEF Answer, DecideJobDispatch
    <2>2. dispatch = "skip"
      BY <2>1 DEF QueueOutcome
    <2>3. my.version # 1
      BY <1>1, <2>2 DEF DecideJobDispatch, TerminalState, EventVersion
    <2>4. my.version > 1 \/ my.version = 0
      BY <1>0, <2>3
    <2>5. my.version # 0
      BY <1>0, <1>1, <2>2 DEF DecideJobDispatch, EventVersion, TerminalState
    <2>6. jobs[my.job].version # 1
      BY <1>0, <1>1, <2>4, <2>5
    <2> QED
      BY <1>2, <2>1, <2>6, AckedInv
  <1>5. CASE dispatch = "execute"
    <2>1. my.version = 1
      BY <1>0, <1>5 DEF DecideJobDispatch, EventVersion
    <2>2. my.state = "queued"
      BY <1>1, <2>1
    <2>3. lease = "acquire"
      BY <2>2 DEF DecideJobLease, TerminalState
    <2>4. Retry(c) \/ (GoTo(c, "refence") /\ UNCHANGED <<queue, dlq>>)
      BY <1>5, <2>3 DEF CheckDispatch
    <2> QED
      BY <1>0, <1>2, <1>3, <2>1, <2>4, GoToInv
  <1> QED
    BY <1>3, <1>4, <1>5 DEF CheckDispatch

LEMMA RecheckFenceInv ==
  ASSUME RuntimeInv, NEW c \in Consumer, RecheckFence(c)
  PROVE  ActorInv'
  <1>1. ~At(c, "idle") /\ consumer[c].version = 1
    BY DEF RuntimeInv, RecheckFence, At, ConsumerInv
  <1> QED
    BY <1>1, RetriedInv, GoToInv DEF RecheckFence, storeVars

LEMMA EffectReturnsInv ==
  ASSUME RuntimeInv, NEW c \in Consumer, NEW next \in Outcome, EffectReturns(c, next)
  PROVE  ActorInv'
  <1> DEFINE new == [consumer[c] EXCEPT !.pc = "apply", !.next = next]
  <1>0. /\ consumer \in [Consumer -> ConsumerRecord] /\ consumer[c] \in ConsumerRecord
        /\ ConsumerInv(c) /\ consumer[c].pc = "effect" /\ consumer[c].job \in Job
        /\ produced \in [Job -> SUBSET Outcome]
    BY DEF RuntimeInv, RuntimeTypeOK, EffectReturns, At, ConsumerInv
  <1>1. consumer' = [consumer EXCEPT ![c] = new]
    BY <1>0 DEF EffectReturns
  <1>2. /\ new \in ConsumerRecord /\ new.pc = "apply" /\ new.job = consumer[c].job
        /\ new.delivered = consumer[c].delivered /\ new.token = consumer[c].token
        /\ new.version = consumer[c].version /\ new.next = next
    BY <1>0 DEF ConsumerRecord, ConsumerPc
  <1> HIDE DEF new
  <1>3. /\ produced' \in [Job -> SUBSET Outcome]
        /\ \A k \in Job : produced[k] \subseteq produced'[k]
        /\ next \in produced'[consumer[c].job]
    BY <1>0 DEF EffectReturns
  <1>4. ConsumerInv(c)'
    BY <1>0, <1>1, <1>2, <1>3 DEF ConsumerInv
  <1> QED
    BY <1>1, <1>2, <1>3, <1>4, MovedInv DEF EffectReturns

LEMMA EffectNeedsReviewInv ==
  ASSUME RuntimeInv, NEW c \in Consumer, EffectNeedsReview(c)
  PROVE  ActorInv'
  <1>0. Ack(c) /\ consumer[c].job \in Job
    BY DEF RuntimeInv, EffectNeedsReview, At, ConsumerInv, Answer, QueueOutcome
  <1>1. reviewed' = reviewed \union {consumer[c].job}
    BY DEF EffectNeedsReview
  <1>2. ActorTypeOK'
    BY <1>0, <1>1, AckFacts DEF RuntimeInv, RuntimeTypeOK, ActorTypeOK, EffectNeedsReview
  <1>3. ConsumerInv(c)'
    BY <1>0, <1>1, AckFacts, IdleInv DEF RuntimeInv, RuntimeTypeOK
  <1>4. \A k \in Consumer : k # c => consumer'[k] = consumer[k]
    BY <1>0, <1>1, AckFacts DEF RuntimeInv, RuntimeTypeOK
  <1>5. \A k \in Job : Carried(k) => Carried(k)'
    BY <1>0, <1>1, AckFacts
  <1> QED
    BY <1>2, <1>3, <1>4, <1>5, QuietConsumer DEF EffectNeedsReview, storeVars

LEMMA InterruptedRequest ==
  ASSUME RuntimeInv, NEW c \in Consumer, NEW r \in ConsumerRequest(c)
  PROVE  r \in Request /\ LateInv(r)
  <1>1. /\ consumer[c] \in ConsumerRecord /\ ConsumerInv(c)
        /\ consumer[c].pc \in {"claim", "apply", "record"}
        /\ r = [op |-> consumer[c].pc, job |-> consumer[c].job,
                version |-> consumer[c].version, token |-> consumer[c].token,
                next |-> consumer[c].next]
    BY DEF RuntimeInv, RuntimeTypeOK, ConsumerRequest, Mutation, ConsumerRecord, ConsumerPc
  <1> QED
    BY <1>1 DEF ConsumerInv, LateInv, Request, Mutation, ConsumerRecord

LEMMA ConsumerInterruptedInv ==
  ASSUME RuntimeInv, NEW c \in Consumer, ConsumerInterrupted(c)
  PROVE  ActorInv'
  <1>0. ~At(c, "idle") /\ Retry(c) /\ faults' \in 0..MaxFaults
    BY RuntimeAssumption DEF ConsumerInterrupted, Fault, RuntimeInv, RuntimeTypeOK
  <1>1. late' \subseteq late \union ConsumerRequest(c)
    BY DEF ConsumerInterrupted, Abandon
  <1>2. ActorTypeOK'
    BY <1>0, <1>1, RetryFacts, InterruptedRequest
    DEF RuntimeInv, RuntimeTypeOK, ActorTypeOK, ConsumerInterrupted, historyVars
  <1>3. ConsumerInv(c)'
    BY <1>0, RetryFacts, IdleInv DEF RuntimeInv, RuntimeTypeOK
  <1>4. \A k \in Consumer : k # c => consumer'[k] = consumer[k]
    BY <1>0, RetryFacts DEF RuntimeInv, RuntimeTypeOK
  <1>5. \A k \in Job : Carried(k) => Carried(k)'
    BY <1>0, RetryFacts DEF ConsumerInterrupted, historyVars
  <1>6. ASSUME NEW r \in late' PROVE r \in late \/ LateInv(r)'
    <2>1. CASE r \in ConsumerRequest(c)
      BY <2>1, InterruptedRequest
      DEF LateInv, ConsumerInterrupted, storeVars, historyVars
    <2> QED
      BY <1>1, <2>1
  <1> QED
    BY <1>2, <1>3, <1>4, <1>5, <1>6, QuietConsumer DEF ConsumerInterrupted, historyVars, storeVars

LEMMA ConsumerUnreadableInv ==
  ASSUME RuntimeInv, NEW c \in Consumer, ConsumerUnreadable(c)
  PROVE  ActorInv'
  <1>0. Ack(c) /\ consumer[c].job \in Job /\ faults' \in 0..MaxFaults
    BY RuntimeAssumption
    DEF ConsumerUnreadable, Fault, RuntimeInv, RuntimeTypeOK, ConsumerInv
  <1>1. reviewed' = reviewed \union {consumer[c].job}
    BY DEF ConsumerUnreadable
  <1>2. late' \subseteq late \union ConsumerRequest(c)
    BY DEF ConsumerUnreadable, Abandon
  <1>3. ActorTypeOK'
    BY <1>0, <1>1, <1>2, AckFacts, InterruptedRequest
    DEF RuntimeInv, RuntimeTypeOK, ActorTypeOK, ConsumerUnreadable
  <1>4. ConsumerInv(c)'
    BY <1>0, <1>1, AckFacts, IdleInv DEF RuntimeInv, RuntimeTypeOK
  <1>5. \A k \in Consumer : k # c => consumer'[k] = consumer[k]
    BY <1>0, <1>1, AckFacts DEF RuntimeInv, RuntimeTypeOK
  <1>6. \A k \in Job : Carried(k) => Carried(k)'
    BY <1>0, <1>1, AckFacts
  <1>7. ASSUME NEW r \in late' PROVE r \in late \/ LateInv(r)'
    <2>1. CASE r \in ConsumerRequest(c)
      BY <2>1, InterruptedRequest DEF LateInv, ConsumerUnreadable, storeVars
    <2> QED
      BY <1>2, <2>1
  <1> QED
    BY <1>3, <1>4, <1>5, <1>6, <1>7, QuietConsumer DEF ConsumerUnreadable, storeVars

-----------------------------------------------------------------------------
\* Steps that write to the store.

\* The parts of ActorInv' that any step owes.
LEMMA WritingStep ==
  ASSUME RuntimeInv, RowsAdvance, HistoriesGrow, ActorTypeOK',
         \A k \in Job : HistoryInv(k)',
         \A c \in Consumer : consumer'[c] = consumer[c] \/ ConsumerInv(c)',
         \A s \in Sweeper : sweep'[s] = sweep[s] \/ SweepInv(s)',
         \A r \in late' : r \in late \/ LateInv(r)'
  PROVE  ActorInv'
  <1>1. \A k \in Job : RowInv(k)'
    BY DEF RowsAdvance
  <1>2. \A c \in Consumer : ConsumerInv(c)'
    BY ConsumerStable
  <1>3. \A s \in Sweeper : SweepInv(s)'
    BY SweepStable
  <1>4. \A r \in late' : LateInv(r)'
    BY LateStable
  <1> QED
    BY <1>1, <1>2, <1>3, <1>4 DEF ActorInv

\* A write of a job row that starts no effect and moves no message.
LEMMA RowWrite ==
  ASSUME RuntimeInv, RowsAdvance,
         UNCHANGED <<outbox, historyVars>>,
         \A k \in Job : (jobs'[k].version = 1 /\ k \in sent) => jobs[k].version = 1,
         \A k \in Job : (jobs[k].version = 1 /\ Carried(k)) => Carried(k)' \/ jobs'[k].version # 1,
         \A k \in Job : jobs'[k].state \in TerminalState =>
           jobs'[k].state = jobs[k].state \/ jobs'[k].state \in produced[k],
         \A k \in processed' : k \in processed \/ jobs[k].version = 3
  PROVE  HistoriesGrow /\ \A k \in Job : HistoryInv(k)'
  <1>1. HistoriesGrow
    BY DEF HistoriesGrow, historyVars
  <1>2. ASSUME NEW k \in Job PROVE HistoryInv(k)'
    <2>1. (k \in sent' /\ jobs'[k].version = 1) => Carried(k)'
      BY DEF RuntimeInv, HistoryInv, historyVars
    <2> QED
      BY <1>1, <2>1, HistoryStable DEF historyVars
  <1> QED
    BY <1>1, <1>2

LEMMA NothingWritten ==
  ASSUME NEW t, NEW matches, AnswersNothing(t, matches)
  PROVE  UNCHANGED <<jobs, outbox, processed>>
  BY DEF AnswersNothing, MatchNothing, storeVars

LEMMA ClaimInv ==
  ASSUME RuntimeInv, NEW c \in Consumer, Claim(c)
  PROVE  ActorInv'
  <1> DEFINE my  == consumer[c]
             version == my.version + 1
             new == [my EXCEPT !.pc = "effect", !.version = version]
             n   == started[my.job] + 1
  <1>0. /\ consumer \in [Consumer -> ConsumerRecord] /\ my \in ConsumerRecord
        /\ ConsumerInv(c) /\ my.pc = "claim" /\ my.job \in Job /\ my.version = 1
        /\ my.token \in Token /\ started \in [Job -> Nat]
    BY DEF RuntimeInv, RuntimeTypeOK, Claim, At, ConsumerInv
  <1>1. CASE /\ AnswersNothing(my.token, Claimable(my.job, my.version))
             /\ Retry(c) /\ UNCHANGED started
    BY <1>0, <1>1, NothingWritten, RetriedInv DEF Claim, At, historyVars
  <1>2. CASE /\ ClaimJob(my.job, my.version, my.token)
             /\ consumer' = [consumer EXCEPT ![c] =
                  [my EXCEPT !.pc = "effect", !.version = my.version + 1]]
             /\ started' = [started EXCEPT ![my.job] = started[my.job] + 1]
             /\ UNCHANGED <<queue, dlq>>
    <2>1. Advance(my.job, 1, 2, "running")
      BY <1>0, <1>2, ClaimAdvances
    <2>2. RowsAdvance
      BY <1>0, <2>1, AdvanceRows
    <2>3. UNCHANGED <<fences, outbox, processed>>
      BY <1>2 DEF ClaimJob, UpdateJob
    <2>4. UNCHANGED <<sweep, late, faults, produced, sent, reviewed>>
      BY DEF Claim
    <2>5. HistoriesGrow
      BY <2>4 DEF HistoriesGrow
    <2>6. started[my.job] = 0 /\ HistoryInv(my.job)
      BY <1>0, <2>1 DEF RuntimeInv, HistoryInv, Advance
    <2>7. /\ version \in Nat /\ n = 1 /\ started' = [started EXCEPT ![my.job] = n]
          /\ consumer' = [consumer EXCEPT ![c] = new]
      BY <1>0, <1>2, <2>6
    <2> HIDE DEF version, n
    <2>8. new \in ConsumerRecord /\ new.pc = "effect" /\ new.job = my.job
          /\ new.delivered = my.delivered /\ new.token = my.token
      BY <1>0, <2>7 DEF ConsumerRecord, ConsumerPc
    <2> HIDE DEF new
    <2>9. consumer' \in [Consumer -> ConsumerRecord] /\ started' \in [Job -> Nat]
      BY <1>0, <2>7, <2>8
    <2>10. ActorTypeOK'
      BY <1>2, <2>4, <2>9 DEF RuntimeInv, RuntimeTypeOK, ActorTypeOK
    <2>11. \A k \in Consumer : k # c => consumer'[k] = consumer[k]
      BY <1>0, <2>7
    <2>12. ConsumerInv(c)'
      BY <1>0, <2>7, <2>8 DEF ConsumerInv
    <2>13. \A k \in Consumer : consumer'[k].job = consumer[k].job
      BY <1>0, <2>7, <2>8
    <2>14. \A k \in Job : Carried(k) => Carried(k)'
      BY <1>2, <2>4, <2>13 DEF Carried
    <2>15. ASSUME NEW k \in Job PROVE HistoryInv(k)'
      <3>1. CASE k = my.job
        <4>1. started'[k] = 1
          BY <1>0, <2>7, <3>1
        <4> QED
          BY <2>1, <2>3, <2>4, <2>6, <3>1, <4>1 DEF HistoryInv, Advance, TerminalState
      <3>2. CASE k # my.job
        <4>1. started'[k] = started[k] /\ jobs'[k] = jobs[k]
          BY <1>0, <2>1, <2>7, <3>2 DEF Advance
        <4>2. (k \in sent' /\ jobs'[k].version = 1) => Carried(k)'
          BY <2>4, <2>14, <4>1 DEF RuntimeInv, HistoryInv
        <4> QED
          BY <2>2, <2>3, <2>4, <2>5, <4>1, <4>2, HistoryStable
      <3> QED
        BY <3>1, <3>2
    <2> QED
      BY <2>2, <2>4, <2>5, <2>10, <2>11, <2>12, <2>15, WritingStep
  <1> QED
    BY <1>1, <1>2 DEF Claim

LEMMA ApplyOutcomeInv ==
  ASSUME RuntimeInv, NEW c \in Consumer, ApplyOutcome(c)
  PROVE  ActorInv'
  <1> DEFINE my  == consumer[c]
             new == [my EXCEPT !.pc = "record"]
  <1>0. /\ consumer \in [Consumer -> ConsumerRecord] /\ my \in ConsumerRecord
        /\ ConsumerInv(c) /\ my.pc = "apply" /\ my.job \in Job /\ my.next \in produced[my.job]
        /\ UNCHANGED <<sweep, late, faults, historyVars>>
    BY DEF RuntimeInv, RuntimeTypeOK, ApplyOutcome, At, ConsumerInv
  <1>1. CASE /\ \/ my.next = "malformed" /\ UNCHANGED storeVars
                \/ AnswersNothing(my.token, HeldBy(my.job, my.version, my.token))
             /\ Retry(c)
    BY <1>0, <1>1, NothingWritten, RetriedInv DEF At, storeVars
  <1>2. CASE /\ ApplyJobOutcome(my.job, my.version, my.token, my.next, my.next = "queued")
             /\ GoTo(c, "record") /\ UNCHANGED <<queue, dlq>>
    <2>1. Advance(my.job, 2, 3, my.next) /\ my.next \in TerminalState \union {"queued"}
      BY <1>0, <1>2, ApplyAdvances
    <2>2. RowsAdvance
      BY <1>0, <2>1, AdvanceRows
    <2>3. UNCHANGED <<fences, outbox, processed>>
      BY <1>2 DEF ApplyJobOutcome, UpdateJob
    <2>4. consumer' = [consumer EXCEPT ![c] = new]
      BY <1>0, <1>2 DEF GoTo
    <2>5. new \in ConsumerRecord /\ new.pc = "record" /\ new.job = my.job
          /\ new.delivered = my.delivered /\ new.token = my.token
      BY <1>0 DEF ConsumerRecord, ConsumerPc
    <2> HIDE DEF new
    <2>6. ActorTypeOK'
      BY <1>0, <1>2, <2>4, <2>5 DEF RuntimeInv, RuntimeTypeOK, ActorTypeOK, historyVars
    <2>7. \A k \in Consumer : k # c => consumer'[k] = consumer[k]
      BY <1>0, <2>4
    <2>8. ConsumerInv(c)'
      BY <1>0, <2>1, <2>4, <2>5 DEF ConsumerInv, Advance
    <2>9. \A k \in Consumer : consumer'[k].job = consumer[k].job
      BY <1>0, <2>4, <2>5
    <2>10. \A k \in Job : Carried(k) => Carried(k)'
      BY <1>0, <1>2, <2>9 DEF Carried, historyVars
    <2>11. \A k \in Job : k = my.job \/ jobs'[k] = jobs[k]
      BY <2>1 DEF Advance
    <2>12. HistoriesGrow /\ \A k \in Job : HistoryInv(k)'
      BY <1>0, <2>1, <2>2, <2>3, <2>10, <2>11, RowWrite DEF Advance
    <2> QED
      BY <1>0, <2>2, <2>6, <2>7, <2>8, <2>12, WritingStep
  <1> QED
    BY <1>1, <1>2 DEF ApplyOutcome

LEMMA RecordProcessedInv ==
  ASSUME RuntimeInv, NEW c \in Consumer, RecordProcessed(c)
  PROVE  ActorInv'
  <1>0. /\ consumer[c].job \in Job /\ jobs[consumer[c].job].version = 3
        /\ UNCHANGED <<sweep, late, faults, historyVars>> /\ Ack(c)
    BY DEF RuntimeInv, RecordProcessed, At, ConsumerInv, Answer, QueueOutcome
  <1>1. processed' = processed \union {consumer[c].job} /\ UNCHANGED <<fences, jobs, outbox>>
    BY DEF RecordProcessed, RecordProcessedEvent
  <1>2. RowsAdvance
    BY <1>1, UnchangedSteady, SteadyRows
  <1>3. ActorTypeOK'
    BY <1>0, AckFacts DEF RuntimeInv, RuntimeTypeOK, ActorTypeOK, historyVars
  <1>4. \A k \in Job : (jobs[k].version = 1 /\ Carried(k)) => Carried(k)'
    BY <1>0, AckFacts DEF historyVars
  <1>5. HistoriesGrow /\ \A k \in Job : HistoryInv(k)'
    BY <1>0, <1>1, <1>2, <1>4, RowWrite
  <1>6. ConsumerInv(c)'
    BY <1>0, AckFacts, IdleInv DEF RuntimeInv, RuntimeTypeOK, historyVars
  <1>7. \A k \in Consumer : k # c => consumer'[k] = consumer[k]
    BY <1>0, AckFacts DEF RuntimeInv, RuntimeTypeOK, historyVars
  <1> QED
    BY <1>0, <1>2, <1>3, <1>5, <1>6, <1>7, WritingStep

\* A step that leaves consumers, their messages and the job rows alone.
LEMMA SweepingStep ==
  ASSUME RuntimeInv, UNCHANGED <<jobs, processed, dlq, consumer, started, produced, reviewed>>,
         ActorTypeOK',
         \A m \in Job \X Delivery : queue[m] > 0 => queue'[m] > 0,
         sent \subseteq sent', \A k \in sent' : k \in sent \/ (jobs[k].version # 0 /\ Carried(k)'),
         \A k \in Job : outbox'[k].state = "dispatched" =>
           outbox[k].state = "dispatched" \/ k \in sent,
         \A s \in Sweeper : sweep'[s] = sweep[s] \/ SweepInv(s)',
         \A r \in late' : r \in late \/ LateInv(r)'
  PROVE  ActorInv'
  <1>1. RowsAdvance
    BY UnchangedSteady, SteadyRows
  <1>2. HistoriesGrow
    BY DEF HistoriesGrow
  <1>3. \A k \in Job : Carried(k) => Carried(k)'
    BY DEF Carried
  <1>4. ASSUME NEW k \in Job PROVE HistoryInv(k)'
    <2>1. (k \in sent' /\ jobs'[k].version = 1) => Carried(k)'
      BY <1>3 DEF RuntimeInv, HistoryInv
    <2> QED
      BY <1>1, <1>2, <2>1, HistoryStable
  <1> QED
    BY <1>1, <1>2, <1>4, WritingStep

LEMMA IdleSweepInv ==
  ASSUME NEW s \in Sweeper, sweep'[s] = IdleSweep
  PROVE  SweepInv(s)'
  BY DEF SweepInv, IdleSweep

LEMMA IdleSweepType == IdleSweep \in SweepRecord
  BY DEF IdleSweep, SweepRecord

LEMMA BeginSweepInv ==
  ASSUME RuntimeInv, NEW s \in Sweeper, NEW t \in FreshToken, BeginSweep(s, t)
  PROVE  ActorInv'
  <1> DEFINE new == [sweep[s] EXCEPT !.pc = "batch", !.token = t]
  <1>0. /\ sweep \in [Sweeper -> SweepRecord] /\ sweep[s] \in SweepRecord /\ t \in Token
        /\ sweep' = [sweep EXCEPT ![s] = new]
        /\ UNCHANGED <<queue, dlq, consumer, late, faults, historyVars>>
        /\ UNCHANGED <<jobs, outbox, processed>>
    BY DEF RuntimeInv, RuntimeTypeOK, BeginSweep, PassGate, FreshToken
  <1>1. new \in SweepRecord /\ new.pc = "batch" /\ new.token = t
    BY <1>0 DEF SweepRecord
  <1> HIDE DEF new
  <1>2. ActorTypeOK'
    BY <1>0, <1>1 DEF RuntimeInv, RuntimeTypeOK, ActorTypeOK, historyVars
  <1>3. SweepInv(s)'
    BY <1>0, <1>1 DEF SweepInv
  <1>4. \A k \in Sweeper : k # s => sweep'[k] = sweep[k]
    BY <1>0
  <1> QED
    BY <1>0, <1>2, <1>3, <1>4, SweepingStep DEF historyVars

LEMMA BatchFacts ==
  ASSUME RuntimeInv, NEW t, ClaimOutboxBatch(t)
  PROVE  /\ UNCHANGED <<fences, jobs, processed>>
         /\ \A k \in Job : outbox'[k].state = outbox[k].state
         /\ \A k \in OutboxBatch : k \in Job /\ jobs[k].version # 0
  <1>1. OutboxBatch \subseteq {k \in Job : outbox[k].state = "pending"}
    BY DEF OutboxBatch, OldestOf, Sweepable
  <1>2. \A k \in OutboxBatch : k \in Job /\ jobs[k].version # 0
    BY <1>1 DEF RuntimeInv, LeaseIffRunning, RowInv
  <1>3. \A k \in Job : outbox'[k].state = outbox[k].state
    BY DEF ClaimOutboxBatch, RuntimeInv, RuntimeTypeOK, StoreTypeOK, OutboxRow
  <1> QED
    BY <1>2, <1>3 DEF ClaimOutboxBatch

LEMMA ClaimBatchInv ==
  ASSUME RuntimeInv, NEW s \in Sweeper, ClaimBatch(s)
  PROVE  ActorInv'
  <1> DEFINE new == [sweep[s] EXCEPT !.pc = "send", !.todo = OutboxBatch]
  <1>0. /\ sweep \in [Sweeper -> SweepRecord] /\ sweep[s] \in SweepRecord
        /\ sweep[s].token \in Token
        /\ UNCHANGED <<queue, dlq, consumer, late, faults, historyVars>>
        /\ ClaimOutboxBatch(sweep[s].token)
    BY DEF RuntimeInv, RuntimeTypeOK, ClaimBatch, SweepInv
  <1>1. sweep' = [sweep EXCEPT ![s] = IdleSweep] \/ sweep' = [sweep EXCEPT ![s] = new]
    BY DEF ClaimBatch
  <1>2. /\ UNCHANGED <<jobs, processed>>
        /\ \A k \in Job : outbox'[k].state = outbox[k].state
        /\ \A k \in OutboxBatch : k \in Job /\ jobs[k].version # 0
    BY <1>0, BatchFacts
  <1>3. /\ new \in SweepRecord /\ new.pc = "send" /\ new.token = sweep[s].token
        /\ new.todo = OutboxBatch
    BY <1>0, <1>2 DEF SweepRecord
  <1> HIDE DEF new
  <1>4. ActorTypeOK'
    BY <1>0, <1>1, <1>3, IdleSweepType
    DEF RuntimeInv, RuntimeTypeOK, ActorTypeOK, historyVars
  <1>5. SweepInv(s)'
    <2>1. CASE sweep' = [sweep EXCEPT ![s] = IdleSweep]
      BY <1>0, <2>1, IdleSweepInv
    <2>2. CASE sweep' = [sweep EXCEPT ![s] = new]
      BY <1>0, <1>2, <1>3, <2>2 DEF SweepInv
    <2> QED
      BY <1>1, <2>1, <2>2
  <1>6. \A k \in Sweeper : k # s => sweep'[k] = sweep[k]
    BY <1>0, <1>1
  <1> QED
    BY <1>0, <1>2, <1>4, <1>5, <1>6, SweepingStep DEF historyVars

LEMMA SendRowInv ==
  ASSUME RuntimeInv, NEW s \in Sweeper, NEW j \in Job, SendRow(s, j)
  PROVE  ActorInv'
  <1> DEFINE new == [sweep[s] EXCEPT !.pc = "complete", !.row = j]
             n   == queue[<<j, 0>>] + 1
  <1>0. /\ sweep \in [Sweeper -> SweepRecord] /\ sweep[s] \in SweepRecord
        /\ queue \in [Job \X Delivery -> Nat] /\ <<j, 0>> \in Job \X Delivery
        /\ queue[<<j, 0>>] \in Nat /\ 0 \in Delivery
        /\ SweepInv(s) /\ sweep[s].token \in Token /\ jobs[j].version # 0
    BY RuntimeAssumption DEF RuntimeInv, RuntimeTypeOK, Delivery, SendRow, SweepInv
  <1>1. /\ sweep' = [sweep EXCEPT ![s] = new] /\ queue' = [queue EXCEPT ![<<j, 0>>] = n]
        /\ sent' = sent \union {j}
        /\ UNCHANGED <<storeVars, dlq, consumer, late, faults, started, produced, reviewed>>
    BY DEF SendRow
  <1>2. n \in Nat /\ n > 0
    BY <1>0
  <1>3. new \in SweepRecord /\ new.pc = "complete" /\ new.row = j
        /\ new.token = sweep[s].token /\ new.todo = sweep[s].todo
    BY <1>0 DEF SweepRecord
  <1> HIDE DEF new, n
  <1>4. /\ queue' \in [Job \X Delivery -> Nat] /\ queue'[<<j, 0>>] > 0
        /\ \A m \in Job \X Delivery : queue[m] > 0 => queue'[m] > 0
    BY <1>0, <1>1, <1>2
  <1>5. ActorTypeOK'
    BY <1>0, <1>1, <1>3, <1>4 DEF RuntimeInv, RuntimeTypeOK, ActorTypeOK
  <1>6. SweepInv(s)'
    <2>1. sweep'[s] = new /\ jobs' = jobs
      BY <1>0, <1>1 DEF storeVars
    <2> QED
      BY <1>0, <1>1, <1>3, <2>1 DEF SweepInv, SendRow
  <1>7. \A k \in Sweeper : k # s => sweep'[k] = sweep[k]
    BY <1>0, <1>1
  <1>8. Carried(j)'
    BY <1>0, <1>4 DEF Carried
  <1> QED
    BY <1>0, <1>1, <1>4, <1>5, <1>6, <1>7, <1>8, SweepingStep DEF storeVars

LEMMA CompleteRowInv ==
  ASSUME RuntimeInv, NEW s \in Sweeper, CompleteRow(s)
  PROVE  ActorInv'
  <1> DEFINE row  == sweep[s].row
             rest == sweep[s].todo \ {row}
             next == [sweep[s] EXCEPT !.pc = "send", !.todo = rest, !.row = NoJob]
  <1>0. /\ sweep \in [Sweeper -> SweepRecord] /\ sweep[s] \in SweepRecord
        /\ SweepInv(s) /\ sweep[s].pc = "complete" /\ row \in sent
        /\ UNCHANGED <<queue, dlq, consumer, late, faults, historyVars>>
        /\ sent \subseteq Job
    BY DEF RuntimeInv, RuntimeTypeOK, CompleteRow, SweepInv
  <1>1. next \in SweepRecord /\ next.pc = "send" /\ next.token = sweep[s].token
        /\ next.todo \subseteq sweep[s].todo
    BY <1>0 DEF SweepRecord
  <1>2. sweep' = [sweep EXCEPT ![s] = IdleSweep] \/ sweep' = [sweep EXCEPT ![s] = next]
    BY DEF CompleteRow
  <1> HIDE DEF next
  <1>3. /\ UNCHANGED <<jobs, processed>>
        /\ \A k \in Job : outbox'[k].state = "dispatched" =>
             outbox[k].state = "dispatched" \/ k \in sent
    <2>1. CASE UNCHANGED storeVars
      BY <2>1 DEF storeVars
    <2>2. CASE CompleteOutboxEvent(row, sweep[s].token)
      BY <1>0, <2>2 DEF CompleteOutboxEvent, RuntimeInv, RuntimeTypeOK, StoreTypeOK
    <2> QED
      BY <2>1, <2>2 DEF CompleteRow
  <1>4. ActorTypeOK'
    BY <1>0, <1>1, <1>2, IdleSweepType DEF RuntimeInv, RuntimeTypeOK, ActorTypeOK, historyVars
  <1>5. SweepInv(s)'
    <2>1. CASE sweep' = [sweep EXCEPT ![s] = IdleSweep]
      BY <1>0, <2>1, IdleSweepInv
    <2>2. CASE sweep' = [sweep EXCEPT ![s] = next]
      BY <1>0, <1>1, <1>3, <2>2 DEF SweepInv
    <2> QED
      BY <1>2, <2>1, <2>2
  <1>6. \A k \in Sweeper : k # s => sweep'[k] = sweep[k]
    BY <1>0, <1>2
  <1> QED
    BY <1>0, <1>3, <1>4, <1>5, <1>6, SweepingStep DEF historyVars

LEMMA SweepInterruptedInv ==
  ASSUME RuntimeInv, NEW s \in Sweeper, SweepInterrupted(s)
  PROVE  ActorInv'
  <1>0. /\ sweep \in [Sweeper -> SweepRecord] /\ sweep' = [sweep EXCEPT ![s] = IdleSweep]
        /\ late' \subseteq late \union SweepRequest(s)
        /\ UNCHANGED <<storeVars, queue, dlq, consumer, historyVars>>
        /\ faults' \in 0..MaxFaults
    BY RuntimeAssumption DEF RuntimeInv, RuntimeTypeOK, SweepInterrupted, Fault, Abandon
  <1>1. ASSUME NEW r \in SweepRequest(s) PROVE r \in Request /\ LateInv(r)'
    <2>1. /\ sweep[s].pc \in {"batch", "complete"} /\ sweep[s] \in SweepRecord
          /\ SweepInv(s)
          /\ r = [op |-> sweep[s].pc, job |-> sweep[s].row, version |-> 0,
                  token |-> sweep[s].token, next |-> NoOutcome]
      BY DEF RuntimeInv, RuntimeTypeOK, SweepRequest, Mutation, SweepRecord
    <2>2. /\ sweep[s].row \in Job \union {NoJob} /\ sweep[s].token \in Token
          /\ sweep[s].pc = "complete" => sweep[s].row \in sent /\ sweep[s].row \in Job
      BY <2>1 DEF SweepInv, SweepRecord, RuntimeInv, RuntimeTypeOK
    <2> QED
      BY <1>0, <2>1, <2>2 DEF LateInv, Request, Mutation, historyVars
  <1>2. ActorTypeOK'
    BY <1>0, <1>1, IdleSweepType DEF RuntimeInv, RuntimeTypeOK, ActorTypeOK, historyVars
  <1>3. SweepInv(s)'
    BY <1>0, IdleSweepInv
  <1>4. \A k \in Sweeper : k # s => sweep'[k] = sweep[k]
    BY <1>0
  <1>5. \A r \in late' : r \in late \/ LateInv(r)'
    BY <1>0, <1>1
  <1> QED
    BY <1>0, <1>2, <1>3, <1>4, <1>5, SweepingStep DEF historyVars, storeVars

\* Steps of neither consumers nor sweeps.
LEMMA LateRequestInv ==
  ASSUME RuntimeInv, NEW r \in late, LateRequest(r)
  PROVE  ActorInv'
  <1>0. /\ LateInv(r) /\ (r.op # "batch" => r.job \in Job) /\ late' \subseteq late
        /\ UNCHANGED <<queue, dlq, consumer, sweep, faults, historyVars>>
    BY DEF RuntimeInv, LateInv, LateRequest
  <1>1. ActorTypeOK'
    BY <1>0 DEF RuntimeInv, RuntimeTypeOK, ActorTypeOK, historyVars
  <1>2. \A k \in Job : Carried(k) => Carried(k)'
    BY <1>0 DEF Carried, historyVars
  <1>3. CASE r.op = "claim" /\ ClaimJob(r.job, r.version, r.token)
    <2>1. Advance(r.job, 1, 2, "running")
      BY <1>0, <1>3, ClaimAdvances DEF LateInv
    <2>2. RowsAdvance
      BY <1>0, <1>3, <2>1, AdvanceRows
    <2>3. UNCHANGED <<outbox, processed>>
      BY <1>3 DEF ClaimJob, UpdateJob
    <2>4. \A k \in Job : k = r.job \/ jobs'[k] = jobs[k]
      BY <2>1 DEF Advance
    <2>5. HistoriesGrow /\ \A k \in Job : HistoryInv(k)'
      BY <1>0, <1>2, <2>1, <2>2, <2>3, <2>4, RowWrite DEF Advance, TerminalState
    <2> QED
      BY <1>0, <1>1, <2>2, <2>5, WritingStep
  <1>4. CASE r.op = "apply" /\ ApplyJobOutcome(r.job, r.version, r.token, r.next, r.next = "queued")
    <2>1. Advance(r.job, 2, 3, r.next) /\ r.next \in TerminalState \union {"queued"}
      BY <1>0, <1>4, ApplyAdvances
    <2>2. RowsAdvance
      BY <1>0, <1>4, <2>1, AdvanceRows
    <2>3. UNCHANGED <<outbox, processed>>
      BY <1>4 DEF ApplyJobOutcome, UpdateJob
    <2>4. \A k \in Job : k = r.job \/ jobs'[k] = jobs[k]
      BY <2>1 DEF Advance
    <2>5. r.next \in produced[r.job]
      BY <1>0, <1>4 DEF LateInv
    <2>6. HistoriesGrow /\ \A k \in Job : HistoryInv(k)'
      BY <1>0, <1>2, <2>1, <2>2, <2>3, <2>4, <2>5, RowWrite DEF Advance
    <2> QED
      BY <1>0, <1>1, <2>2, <2>6, WritingStep
  <1>5. CASE r.op = "record" /\ RecordProcessedEvent(r.job)
    <2>1. UNCHANGED <<jobs, outbox>> /\ processed' = processed \union {r.job}
      BY <1>5 DEF RecordProcessedEvent
    <2>2. RowsAdvance
      BY <2>1, UnchangedSteady, SteadyRows
    <2>3. jobs[r.job].version = 3
      BY <1>0, <1>5 DEF LateInv
    <2>4. HistoriesGrow /\ \A k \in Job : HistoryInv(k)'
      BY <1>0, <1>2, <2>1, <2>2, <2>3, RowWrite
    <2> QED
      BY <1>0, <1>1, <2>2, <2>4, WritingStep
  <1>6. CASE r.op = "complete" /\ CompleteOutboxEvent(r.job, r.token)
    <2>1. UNCHANGED <<jobs, processed>>
      BY <1>6 DEF CompleteOutboxEvent
    <2>2. \A k \in Job : outbox'[k].state = "dispatched" =>
            outbox[k].state = "dispatched" \/ k \in sent
      BY <1>0, <1>6 DEF LateInv, CompleteOutboxEvent, RuntimeInv, RuntimeTypeOK, StoreTypeOK
    <2> QED
      BY <1>0, <1>1, <2>1, <2>2, SweepingStep DEF historyVars
  <1>7. CASE r.op = "batch" /\ ClaimOutboxBatch(r.token)
    BY <1>0, <1>1, <1>7, BatchFacts, SweepingStep DEF historyVars
  <1>8. CASE MatchNothing(r.token) \/ UNCHANGED storeVars
    BY <1>0, <1>1, <1>8, SweepingStep DEF historyVars, storeVars, MatchNothing
  <1> QED
    BY <1>3, <1>4, <1>5, <1>6, <1>7, <1>8 DEF LateRequest

LEMMA LeaseExpiresInv ==
  ASSUME RuntimeInv, NEW j \in Job, JobLeaseExpires(j) \/ OutboxLeaseExpires(j),
         UNCHANGED <<actorVars, historyVars>>, faults' \in 0..MaxFaults
  PROVE  ActorInv'
  <1>1. ActorTypeOK'
    BY DEF RuntimeInv, RuntimeTypeOK, ActorTypeOK, historyVars, actorVars
  <1>2. \A k \in Job : Carried(k) => Carried(k)'
    BY DEF Carried, historyVars, actorVars
  <1>3. CASE JobLeaseExpires(j)
    <2>1. Steady /\ UNCHANGED <<outbox, processed>>
      BY <1>3, ExpirySteady DEF JobLeaseExpires
    <2>2. RowsAdvance
      BY <2>1, SteadyRows
    <2>3. HistoriesGrow /\ \A k \in Job : HistoryInv(k)'
      BY <1>2, <2>1, <2>2, RowWrite DEF Steady
    <2> QED
      BY <1>1, <2>2, <2>3, WritingStep DEF actorVars
  <1>4. CASE OutboxLeaseExpires(j)
    <2>1. UNCHANGED <<jobs, processed>>
      BY <1>4 DEF OutboxLeaseExpires
    <2>2. \A k \in Job : outbox'[k].state = outbox[k].state
      BY <1>4 DEF OutboxLeaseExpires, RuntimeInv, RuntimeTypeOK, StoreTypeOK, OutboxRow
    <2> QED
      BY <1>1, <2>1, <2>2, SweepingStep DEF actorVars, historyVars
  <1> QED
    BY <1>3, <1>4

LEMMA ClientRequestInv ==
  ASSUME RuntimeInv, NEW j \in Job, ClientRequest(j)
  PROVE  ActorInv'
  <1>0. UNCHANGED <<actorVars, faults, historyVars>> /\ AcceptJob(j)
    BY DEF ClientRequest
  <1>1. ActorTypeOK'
    BY <1>0 DEF RuntimeInv, RuntimeTypeOK, ActorTypeOK, historyVars, actorVars
  <1>2. Advance(j, 0, 1, "queued") /\ UNCHANGED processed
    BY <1>0, AcceptAdvances DEF AcceptJob
  <1>3. RowsAdvance
    BY <1>2, AdvanceRows
  <1>4. HistoriesGrow
    BY <1>0 DEF HistoriesGrow, historyVars
  <1>5. ASSUME NEW k \in Job PROVE HistoryInv(k)'
    <2>1. outbox'[k].state = "dispatched" => outbox[k].state = "dispatched"
      <3> DEFINE event == [AbsentEvent EXCEPT !.state = "pending", !.rank = Cardinality(Accepted)]
      <3>1. event.state = "pending" /\ outbox' = [outbox EXCEPT ![j] = event]
        BY <1>0 DEF AcceptJob, AbsentEvent
      <3> HIDE DEF event
      <3> QED
        BY <3>1 DEF RuntimeInv, RuntimeTypeOK, StoreTypeOK
    <2>2. jobs'[k].state \in TerminalState => jobs'[k].state = jobs[k].state
      BY <1>2 DEF Advance, TerminalState
    <2>3. (k \in sent' /\ jobs'[k].version = 1) => Carried(k)'
      <3>1. k \in sent => jobs[k].version # 0
        BY DEF RuntimeInv, HistoryInv
      <3>2. Carried(k) => Carried(k)'
        BY <1>0 DEF Carried, actorVars, historyVars
      <3>3. CASE k = j
        BY <1>0, <1>2, <3>1, <3>3 DEF Advance, historyVars
      <3>4. CASE k # j
        BY <1>0, <1>2, <3>2, <3>4 DEF Advance, historyVars, RuntimeInv, HistoryInv
      <3> QED
        BY <3>3, <3>4
    <2> QED
      BY <1>0, <1>2, <1>3, <1>4, <2>1, <2>2, <2>3, HistoryStable DEF historyVars
  <1> QED
    BY <1>0, <1>1, <1>3, <1>4, <1>5, WritingStep DEF actorVars

LEMMA QuietInv ==
  ASSUME RuntimeInv, UNCHANGED <<jobs, outbox, processed, actorVars, faults, historyVars>>
  PROVE  ActorInv'
  <1>1. ActorTypeOK'
    BY DEF RuntimeInv, RuntimeTypeOK, ActorTypeOK, historyVars, actorVars
  <1> QED
    BY <1>1, SweepingStep DEF actorVars, historyVars

LEMMA GatePassedInv ==
  ASSUME RuntimeInv, \/ \E c \in Consumer : CallPassesGate(c)
                     \/ \E r \in late : LateRequestPassesGate(r)
  PROVE  ActorInv'
  BY QuietInv DEF CallPassesGate, LateRequestPassesGate, PassGate
-----------------------------------------------------------------------------
\* The invariant, action by action.

LEMMA ConsumerStepInv ==
  ASSUME RuntimeInv, NEW c \in Consumer, ConsumerStep(c)
  PROVE  ActorInv'
  BY ReceiveInv, ReadCanonicalJobInv, CheckDispatchInv, RecheckFenceInv, ClaimInv,
     EffectReturnsInv, EffectNeedsReviewInv, ApplyOutcomeInv, RecordProcessedInv,
     GatePassedInv
  DEF ConsumerStep

LEMMA SweepStepInv ==
  ASSUME RuntimeInv, NEW s \in Sweeper, SweepStep(s)
  PROVE  ActorInv'
  BY BeginSweepInv, ClaimBatchInv, SendRowInv, CompleteRowInv DEF SweepStep

LEMMA RuntimeStepInv ==
  ASSUME RuntimeInv, [RuntimeNext]_runtimeVars
  PROVE  RuntimeInv'
  <1>1. StoreInv'
    BY InvGivesStoreInv, RuntimeIsStoreStep, StoreStepInv
  <1>2. ActorInv'
    <2>1. ASSUME NEW j \in Job, LeaseLapses(j) \/ LeaseOutlived(j) PROVE ActorInv'
      <3>1. faults' \in 0..MaxFaults
        BY <2>1, RuntimeAssumption DEF LeaseLapses, LeaseOutlived, Fault, RuntimeInv, RuntimeTypeOK
      <3> QED
        BY <2>1, <3>1, LeaseExpiresInv DEF LeaseLapses, LeaseOutlived
    <2>2. CASE RestoreOperator
      BY <2>2, QuietInv DEF RestoreOperator
    <2>3. CASE UNCHANGED runtimeVars
      BY <2>3, QuietInv DEF runtimeVars, storeVars
    <2> QED
      BY <2>1, <2>2, <2>3, ClientRequestInv, ConsumerStepInv, SweepStepInv, LateRequestInv,
         GatePassedInv, ConsumerInterruptedInv, ConsumerUnreadableInv, SweepInterruptedInv
      DEF RuntimeNext, FaultStep
  <1> QED
    BY <1>1, <1>2 DEF RuntimeInv, StoreInv, ActorInv, RuntimeTypeOK, ActorTypeOK

LEMMA RuntimeInitInv == RuntimeInit => RuntimeInv
  <1> SUFFICES ASSUME RuntimeInit PROVE RuntimeInv
    OBVIOUS
  <1>1. StoreInv
    BY StoreInitInv DEF RuntimeInit
  <1>2. ActorTypeOK
    BY RuntimeAssumption, IdleType, IdleSweepType DEF RuntimeInit, ActorTypeOK
  <1>3. \A j \in Job : RowInv(j) /\ HistoryInv(j)
    BY DEF RuntimeInit, StoreInit, AbsentJob, AbsentEvent, RowInv, HistoryInv, TerminalState
  <1>4. \A c \in Consumer : ConsumerInv(c)
    BY DEF RuntimeInit, ConsumerInv, IdleConsumer
  <1>5. \A s \in Sweeper : SweepInv(s)
    BY DEF RuntimeInit, SweepInv, IdleSweep
  <1>6. \A r \in late : LateInv(r)
    BY DEF RuntimeInit
  <1> QED
    BY <1>1, <1>2, <1>3, <1>4, <1>5, <1>6, InvParts DEF ActorInv

\* The Worker keeps RuntimeInv: what every actor holds agrees with the rows.
THEOREM RuntimeInvariant == RuntimeSpec => []RuntimeInv
  <1>1. RuntimeInit => RuntimeInv
    BY RuntimeInitInv
  <1>2. RuntimeInv /\ [RuntimeNext]_runtimeVars => RuntimeInv'
    BY RuntimeStepInv
  <1> QED
    BY <1>1, <1>2, PTL DEF RuntimeSpec

\* The Worker's state stays within its types.
THEOREM RuntimeTypes == RuntimeSpec => []RuntimeTypeOK
  <1>1. RuntimeInv => RuntimeTypeOK
    BY DEF RuntimeInv
  <1> QED
    BY <1>1, RuntimeInvariant, PTL

\* Duplicated messages, concurrent consumers and late claims start the effect
\* of a job at most once.
THEOREM EffectAtMostOnce == RuntimeSpec => []AtMostOneEffect
  <1>1. RuntimeInv => AtMostOneEffect
    BY DEF RuntimeInv, HistoryInv, AtMostOneEffect
  <1> QED
    BY <1>1, RuntimeInvariant, PTL

\* A job ends only in an outcome its effect returned.
THEOREM EndsAsEffectReturned == RuntimeSpec => []OutcomeFromEffect
  <1>1. RuntimeInv => OutcomeFromEffect
    BY DEF RuntimeInv, HistoryInv, OutcomeFromEffect
  <1> QED
    BY <1>1, RuntimeInvariant, PTL

\* A processed event never stands for an outcome that was not written.
THEOREM ProcessedMeansWritten == RuntimeSpec => []ProcessedAfterOutcome
  <1>1. RuntimeInv => ProcessedAfterOutcome
    <2>1. RuntimeInv => processed \subseteq Job
      BY DEF RuntimeInv, RuntimeTypeOK, StoreTypeOK
    <2> QED
      BY <2>1 DEF RuntimeInv, RowInv, HistoryInv, ProcessedAfterOutcome
  <1> QED
    BY <1>1, RuntimeInvariant, PTL

\* A dispatched row is a message sent.
THEOREM DispatchedMeansSent == RuntimeSpec => []DispatchedWasSent
  <1>1. RuntimeInv => DispatchedWasSent
    BY DEF RuntimeInv, HistoryInv, DispatchedWasSent
  <1> QED
    BY <1>1, RuntimeInvariant, PTL

\* No job waits unclaimed with nothing left to carry it.
THEOREM NoJobForgotten == RuntimeSpec => []UnclaimedHasCarrier
  <1>1. ASSUME RuntimeInv, NEW j \in Accepted, jobs[j].version = EventVersion,
               outbox[j].state # "pending"
        PROVE  Carried(j)
    <2>1. outbox[j].state = "dispatched" /\ j \in Job
      BY <1>1 DEF Accepted, RuntimeInv, RuntimeTypeOK, StoreTypeOK, OutboxRow
    <2> QED
      BY <1>1, <2>1 DEF RuntimeInv, HistoryInv, EventVersion
  <1>2. RuntimeInv => UnclaimedHasCarrier
    BY <1>1 DEF UnclaimedHasCarrier, Carried
  <1> QED
    BY <1>2, RuntimeInvariant, PTL

\* A consumer that acts after the gate closed was admitted before it did.
THEOREM FenceStopsEffects == RuntimeSpec => NoEffectStartsDrained
  <1>1. RuntimeInv /\ [RuntimeNext]_runtimeVars
          => [~ExternalEffectsAllowed =>
                /\ admitted' \subseteq admitted
                /\ admitted' = admitted => started' = started]_runtimeVars
    <2> SUFFICES ASSUME RuntimeInv, RuntimeNext, ~ExternalEffectsAllowed
                 PROVE  /\ admitted' \subseteq admitted
                        /\ admitted' = admitted => started' = started
      OBVIOUS
    <2>1. admitted' \subseteq admitted
      BY RuntimeIsStoreStep, FencedGate
    <2>2. ASSUME NEW c \in Consumer, ConsumerStep(c), admitted' = admitted
          PROVE  started' = started
      <3>1. CASE Claim(c)
        BY <2>2, <3>1 DEF Claim, ClaimJob, EndCall
      <3> QED
        BY <2>2, <3>1
        DEF ConsumerStep, Receive, ReadCanonicalJob, CheckDispatch, RecheckFence,
            CallPassesGate, EffectReturns, EffectNeedsReview, ApplyOutcome,
            RecordProcessed, historyVars
    <2>3. ASSUME NEW s \in Sweeper, SweepStep(s) PROVE started' = started
      BY <2>3 DEF SweepStep, BeginSweep, ClaimBatch, SendRow, CompleteRow, historyVars
    <2>4. CASE FaultStep
      BY <2>1, <2>4 DEF FaultStep, ConsumerInterrupted, ConsumerUnreadable, SweepInterrupted,
                  LeaseOutlived, historyVars
    <2> QED
      BY <2>1, <2>2, <2>3, <2>4
      DEF RuntimeNext, ClientRequest, LeaseLapses, RestoreOperator, LateRequest,
          LateRequestPassesGate, historyVars
  <1> QED
    BY <1>1, RuntimeInvariant, PTL DEF RuntimeSpec, NoEffectStartsDrained

-----------------------------------------------------------------------------
\* A job is attempted once.

\* The rows no request can match any more: claims carry version 1, and an
\* outcome needs a lease that is live.
Spent(j) == jobs[j].lease = "expired" \/ jobs[j].version > 2

LEMMA SpentVersion ==
  ASSUME RuntimeInv, NEW j \in Job, Spent(j)
  PROVE  jobs[j].version \in 2..3
  <1>1. jobs[j].lease = "expired" => jobs[j].state = "running"
    BY DEF RuntimeInv, LeaseIffRunning
  <1>2. RowInv(j)
    BY DEF RuntimeInv
  <1> QED
    BY <1>1, <1>2 DEF Spent, RowInv

LEMMA ClaimSparesSpent ==
  ASSUME RuntimeInv, NEW j \in Job, NEW t, ClaimJob(j, 1, t), NEW k \in Job, Spent(k)
  PROVE  jobs'[k] = jobs[k]
  BY ClaimAdvances, SpentVersion DEF Advance

LEMMA ApplySparesSpent ==
  ASSUME RuntimeInv, NEW j \in Job, NEW v, NEW t, NEW next,
         ApplyJobOutcome(j, v, t, next, next = "queued"), NEW k \in Job, Spent(k)
  PROVE  jobs'[k] = jobs[k]
  <1>1. Advance(j, 2, 3, next) /\ jobs[j].lease = "live"
    BY ApplyAdvances DEF ApplyJobOutcome, HeldBy
  <1> QED
    BY <1>1 DEF Advance, Spent

LEMMA SpentStays ==
  ASSUME RuntimeInv, [RuntimeNext]_runtimeVars, NEW k \in Job, Spent(k)
  PROVE  jobs'[k] = jobs[k]
  <1>1. ASSUME NEW j \in Job, AcceptJob(j) PROVE jobs'[k] = jobs[k]
    BY <1>1, AcceptAdvances, SpentVersion DEF Advance
  <1>2. ASSUME NEW j \in Job, JobLeaseExpires(j) PROVE jobs'[k] = jobs[k]
    <2>1. jobs[j].lease = "live" /\ jobs' = [jobs EXCEPT ![j].lease = "expired"]
      BY <1>2 DEF JobLeaseExpires
    <2>2. jobs[j].version = 2
      BY <2>1 DEF RuntimeInv, LeaseIffRunning, RowInv
    <2> QED
      BY <2>1, <2>2 DEF Spent
  <1>3. ASSUME NEW c \in Consumer, ConsumerStep(c) PROVE jobs'[k] = jobs[k]
    <2>0. ConsumerInv(c)
      BY DEF RuntimeInv
    <2>1. CASE Claim(c)
      BY <2>0, <2>1, ClaimSparesSpent
      DEF Claim, At, ConsumerInv, AnswersNothing, MatchNothing, storeVars
    <2>2. CASE ApplyOutcome(c)
      BY <2>0, <2>2, ApplySparesSpent
      DEF ApplyOutcome, At, ConsumerInv, AnswersNothing, MatchNothing, storeVars
    <2> QED
      BY <1>3, <2>1, <2>2
      DEF ConsumerStep, Receive, ReadCanonicalJob, CheckDispatch, RecheckFence, CallPassesGate,
          PassGate, EffectReturns, EffectNeedsReview, RecordProcessed, RecordProcessedEvent,
          storeVars
  <1>4. ASSUME NEW s \in Sweeper, SweepStep(s) PROVE jobs'[k] = jobs[k]
    BY <1>4
    DEF SweepStep, BeginSweep, PassGate, ClaimBatch, ClaimOutboxBatch, SendRow, CompleteRow,
        CompleteOutboxEvent, storeVars
  <1>5. ASSUME NEW r \in late, LateRequest(r) \/ LateRequestPassesGate(r)
        PROVE  jobs'[k] = jobs[k]
    <2>0. LateInv(r)
      BY DEF RuntimeInv
    <2>1. CASE r.op = "claim" /\ ClaimJob(r.job, r.version, r.token)
      BY <2>0, <2>1, ClaimSparesSpent DEF LateInv
    <2>2. CASE r.op = "apply" /\ ApplyJobOutcome(r.job, r.version, r.token, r.next, r.next = "queued")
      BY <2>0, <2>2, ApplySparesSpent DEF LateInv
    <2> QED
      BY <1>5, <2>1, <2>2
      DEF LateRequest, LateRequestPassesGate, PassGate, MatchNothing, RecordProcessedEvent,
          ClaimOutboxBatch, CompleteOutboxEvent, storeVars
  <1>6. CASE FaultStep
    BY <1>2, <1>6
    DEF FaultStep, ConsumerInterrupted, ConsumerUnreadable, SweepInterrupted, LeaseOutlived,
        OutboxLeaseExpires, storeVars
  <1>7. ASSUME NEW j \in Job, ClientRequest(j) \/ LeaseLapses(j) PROVE jobs'[k] = jobs[k]
    BY <1>1, <1>2, <1>7 DEF ClientRequest, LeaseLapses, OutboxLeaseExpires
  <1> QED
    BY <1>3, <1>4, <1>5, <1>6, <1>7 DEF RuntimeNext, RestoreOperator, runtimeVars, storeVars

\* Whatever is redelivered or late, a row whose lease ran out, or whose outcome
\* is written, is never written again: no job is ever attempted twice.
THEOREM NoSecondAttempt == RuntimeSpec => AttemptedOnce
  <1>1. RuntimeInv /\ [RuntimeNext]_runtimeVars =>
          [\A j \in Job : jobs[j].lease = "expired" \/ jobs[j].version > 2
             => jobs'[j] = jobs[j]]_runtimeVars
    BY SpentStays DEF Spent
  <1> QED
    BY <1>1, RuntimeInvariant, PTL DEF RuntimeSpec, AttemptedOnce

-----------------------------------------------------------------------------
\* Whose token it is.

LEMMA TokensHeld ==
  ASSUME RuntimeInv, NEW c \in Consumer, consumer[c].pc # "idle"
  PROVE  consumer[c].token \in Token /\ consumer[c].token # NoToken
  BY StoreAssumption DEF RuntimeInv, ConsumerInv

\* Nobody takes up a token: invocations keep theirs or end.
LEMMA TokensKept ==
  ASSUME RuntimeInv, TokensUnique,
         \A c \in Consumer : \/ consumer'[c] = IdleConsumer
                             \/ /\ consumer[c].pc # "idle" \/ consumer'[c] = consumer[c]
                                /\ consumer'[c].token = consumer[c].token,
         \A s \in Sweeper : \/ sweep'[s] = IdleSweep
                            \/ sweep'[s].token = sweep[s].token,
         \A r \in late' : \/ r \in late
                          \/ \E c \in Consumer : /\ consumer'[c] = IdleConsumer
                                                 /\ consumer[c].pc # "idle"
                                                 /\ r.token = consumer[c].token
                          \/ \E s \in Sweeper : r.token = sweep[s].token
  PROVE  TokensUnique'
  <1> SUFFICES ASSUME NEW c \in Consumer, consumer'[c].pc # "idle"
               PROVE  /\ \A d \in Consumer : consumer'[d].token = consumer'[c].token => d = c
                      /\ \A s \in Sweeper : sweep'[s].token # consumer'[c].token
                      /\ \A r \in late' : r.token # consumer'[c].token
    BY DEF TokensUnique
  <1>1. IdleConsumer.pc = "idle" /\ IdleConsumer.token = NoToken /\ IdleSweep.token = NoToken
    BY DEF IdleConsumer, IdleSweep
  <1>2. consumer[c].pc # "idle" /\ consumer'[c].token = consumer[c].token
    BY <1>1
  <1>3. consumer[c].token # NoToken
    BY <1>2, TokensHeld
  <1>4. /\ \A d \in Consumer : consumer[d].token = consumer[c].token => d = c
        /\ \A s \in Sweeper : sweep[s].token # consumer[c].token
        /\ \A r \in late : r.token # consumer[c].token
    BY <1>2 DEF TokensUnique
  <1>5. ASSUME NEW d \in Consumer, consumer'[d].token = consumer'[c].token PROVE d = c
    BY <1>1, <1>2, <1>3, <1>4, <1>5
  <1>6. ASSUME NEW s \in Sweeper PROVE sweep'[s].token # consumer'[c].token
    BY <1>1, <1>2, <1>3, <1>4
  <1>7. ASSUME NEW r \in late' PROVE r.token # consumer'[c].token
    BY <1>1, <1>2, <1>4
  <1> QED
    BY <1>5, <1>6, <1>7

LEMMA AnswerKeeps ==
  ASSUME RuntimeInv, NEW c \in Consumer, NEW outcome,
         Answer(c, outcome) \/ Retry(c) \/ Ack(c)
  PROVE  consumer' = [consumer EXCEPT ![c] = IdleConsumer]
  BY DEF Answer, Retry, Ack

\* A step of an invocation at work leaves it its token, or ends it.
LEMMA ConsumerKeepsToken ==
  ASSUME RuntimeInv, NEW c \in Consumer,
         \/ ReadCanonicalJob(c) \/ (\E expired \in BOOLEAN : CheckDispatch(c, expired))
         \/ RecheckFence(c) \/ CallPassesGate(c) \/ Claim(c)
         \/ (\E next \in Outcome : EffectReturns(c, next))
         \/ EffectNeedsReview(c) \/ ApplyOutcome(c) \/ RecordProcessed(c)
  PROVE  /\ consumer[c].pc # "idle"
         /\ \A d \in Consumer : d # c => consumer'[d] = consumer[d]
         /\ consumer'[c] = IdleConsumer \/ consumer'[c].token = consumer[c].token
         /\ UNCHANGED <<sweep, late>>
  <1>1. consumer \in [Consumer -> ConsumerRecord] /\ consumer[c] \in ConsumerRecord
    BY DEF RuntimeInv, RuntimeTypeOK
  <1>2. consumer[c].pc # "idle" /\ UNCHANGED <<sweep, late>>
    BY DEF ReadCanonicalJob, CheckDispatch, RecheckFence, CallPassesGate, Claim, EffectReturns,
           EffectNeedsReview, ApplyOutcome, RecordProcessed, At, actorVars
  <1> DEFINE Kept == /\ \A d \in Consumer : d # c => consumer'[d] = consumer[d]
                     /\ consumer'[c] = IdleConsumer \/ consumer'[c].token = consumer[c].token
  <1> SUFFICES Kept
    BY <1>2
  <1>3. ASSUME NEW next \in ConsumerRecord, consumer' = [consumer EXCEPT ![c] = next],
               next = IdleConsumer \/ next.token = consumer[c].token
        PROVE  Kept
    BY <1>1, <1>3
  <1>4. CASE consumer' = [consumer EXCEPT ![c] = IdleConsumer]
    BY <1>3, <1>4, IdleType
  <1>5. ASSUME NEW pc \in ConsumerPc, GoTo(c, pc)
        PROVE  Kept
    BY <1>1, <1>5 DEF GoTo, ConsumerRecord
  <1>6. CASE ReadCanonicalJob(c)
    BY <1>1, <1>6 DEF ReadCanonicalJob, ConsumerRecord
  <1>7. CASE \E expired \in BOOLEAN : CheckDispatch(c, expired)
    BY <1>4, <1>5, <1>7, AnswerKeeps DEF CheckDispatch, ConsumerPc
  <1>8. CASE RecheckFence(c)
    BY <1>4, <1>5, <1>8, AnswerKeeps DEF RecheckFence, ConsumerPc
  <1>9. CASE CallPassesGate(c)
    BY <1>9 DEF CallPassesGate, actorVars
  <1>10. CASE Claim(c)
    <2>1. CASE consumer' = [consumer EXCEPT ![c] =
                 [consumer[c] EXCEPT !.pc = "effect", !.version = consumer[c].version + 1]]
      BY <1>1, <2>1 DEF ConsumerRecord
    <2> QED
      BY <1>4, <1>10, <2>1, AnswerKeeps DEF Claim
  <1>11. ASSUME NEW next \in Outcome, EffectReturns(c, next)
         PROVE  Kept
    BY <1>1, <1>11 DEF EffectReturns, ConsumerRecord
  <1>12. CASE EffectNeedsReview(c)
    BY <1>4, <1>12, AnswerKeeps DEF EffectNeedsReview
  <1>13. CASE ApplyOutcome(c)
    BY <1>4, <1>5, <1>13, AnswerKeeps DEF ApplyOutcome, ConsumerPc
  <1>14. CASE RecordProcessed(c)
    BY <1>4, <1>14, AnswerKeeps DEF RecordProcessed
  <1> QED
    BY <1>6, <1>7, <1>8, <1>9, <1>10, <1>11, <1>12, <1>13, <1>14

LEMMA ReceiveUnique ==
  ASSUME RuntimeInv, TokensUnique, NEW c \in Consumer, NEW j \in Job, NEW d \in Delivery,
         NEW t \in FreshToken, Receive(c, j, d, t)
  PROVE  TokensUnique'
  <1>1. /\ consumer \in [Consumer -> ConsumerRecord]
        /\ consumer[c].pc = "idle" /\ UNCHANGED <<sweep, late>>
        /\ \A k \in Consumer : k # c => consumer'[k] = consumer[k]
        /\ consumer'[c].token = t
    BY DEF Receive, At, RuntimeInv, RuntimeTypeOK, ConsumerRecord
  <1>2. /\ \A k \in Consumer : consumer[k].token # t
        /\ \A s \in Sweeper : sweep[s].token # t
        /\ \A r \in late : r.token # t
    BY DEF FreshToken
  <1> SUFFICES ASSUME NEW k \in Consumer, consumer'[k].pc # "idle"
               PROVE  /\ \A e \in Consumer : consumer'[e].token = consumer'[k].token => e = k
                      /\ \A s \in Sweeper : sweep'[s].token # consumer'[k].token
                      /\ \A r \in late' : r.token # consumer'[k].token
    BY DEF TokensUnique
  <1>3. CASE k = c
    BY <1>1, <1>2, <1>3
  <1>4. CASE k # c
    <2>1. /\ \A e \in Consumer : consumer[e].token = consumer[k].token => e = k
          /\ \A s \in Sweeper : sweep[s].token # consumer[k].token
          /\ \A r \in late : r.token # consumer[k].token
      BY <1>1, <1>4 DEF TokensUnique
    <2> QED
      BY <1>1, <1>2, <1>4, <2>1
  <1> QED
    BY <1>3, <1>4

LEMMA BeginSweepUnique ==
  ASSUME RuntimeInv, TokensUnique, NEW s \in Sweeper, NEW t \in FreshToken, BeginSweep(s, t)
  PROVE  TokensUnique'
  <1>1. /\ UNCHANGED <<consumer, late>>
        /\ \A k \in Sweeper : sweep'[k] = sweep[k] \/ sweep'[k].token = t
    BY DEF BeginSweep, RuntimeInv, RuntimeTypeOK, SweepRecord
  <1>2. \A c \in Consumer : consumer[c].token # t
    BY DEF FreshToken
  <1> QED
    BY <1>1, <1>2 DEF TokensUnique

LEMMA SweepUnique ==
  ASSUME RuntimeInv, TokensUnique, NEW s \in Sweeper, SweepStep(s)
  PROVE  TokensUnique'
  <1>1. CASE \E t \in FreshToken : BeginSweep(s, t)
    BY <1>1, BeginSweepUnique
  <1>2. CASE ClaimBatch(s) \/ (\E j \in Job : SendRow(s, j)) \/ CompleteRow(s)
    <2>1. sweep \in [Sweeper -> SweepRecord] /\ UNCHANGED <<consumer, late>>
      BY <1>2 DEF RuntimeInv, RuntimeTypeOK, ClaimBatch, SendRow, CompleteRow
    <2> DEFINE Kept == \A k \in Sweeper :
                         sweep'[k] = IdleSweep \/ sweep'[k].token = sweep[k].token
    <2> SUFFICES Kept
      BY <2>1, TokensKept
    <2>2. CASE sweep' = [sweep EXCEPT ![s] = IdleSweep]
      BY <2>1, <2>2
    <2>3. ASSUME NEW pc, NEW todo, NEW row,
                 sweep' = [sweep EXCEPT ![s] = [sweep[s] EXCEPT !.pc = pc, !.todo = todo, !.row = row]]
          PROVE  Kept
      BY <2>1, <2>3 DEF SweepRecord
    <2>4. CASE ClaimBatch(s)
      <3>1. PICK batch : batch = OutboxBatch
        OBVIOUS
      <3>2. \/ sweep' = [sweep EXCEPT ![s] = IdleSweep]
            \/ sweep' = [sweep EXCEPT ![s] = [@ EXCEPT !.pc = "send", !.todo = batch]]
        BY <2>4, <3>1 DEF ClaimBatch
      <3>3. CASE sweep' = [sweep EXCEPT ![s] = [@ EXCEPT !.pc = "send", !.todo = batch]]
        BY <2>1, <3>3 DEF SweepRecord
      <3> QED
        BY <2>2, <3>2, <3>3
    <2>5. ASSUME NEW j \in Job, SendRow(s, j) PROVE Kept
      <3>1. [sweep[s] EXCEPT !.pc = "complete", !.row = j] =
              [sweep[s] EXCEPT !.pc = "complete", !.todo = sweep[s].todo, !.row = j]
        BY <2>1 DEF SweepRecord
      <3> QED
        BY <2>3, <2>5, <3>1 DEF SendRow
    <2>6. CASE CompleteRow(s)
      <3> DEFINE rest == sweep[s].todo \ {sweep[s].row}
      <3>1. \/ sweep' = [sweep EXCEPT ![s] = IdleSweep]
            \/ sweep' = [sweep EXCEPT ![s] = [@ EXCEPT !.pc = "send", !.todo = rest, !.row = NoJob]]
        BY <2>6 DEF CompleteRow
      <3> HIDE DEF rest
      <3> QED
        BY <2>2, <2>3, <3>1
    <2> QED
      BY <1>2, <2>4, <2>5, <2>6
  <1> QED
    BY <1>1, <1>2 DEF SweepStep

LEMMA ConsumerUnique ==
  ASSUME RuntimeInv, TokensUnique, NEW c \in Consumer, ConsumerStep(c)
  PROVE  TokensUnique'
  <1>1. CASE \E j \in Job, d \in Delivery, t \in FreshToken : Receive(c, j, d, t)
    BY <1>1, ReceiveUnique
  <1>2. CASE ~\E j \in Job, d \in Delivery, t \in FreshToken : Receive(c, j, d, t)
    <2>1. /\ consumer[c].pc # "idle"
          /\ \A d \in Consumer : d # c => consumer'[d] = consumer[d]
          /\ consumer'[c] = IdleConsumer \/ consumer'[c].token = consumer[c].token
          /\ UNCHANGED <<sweep, late>>
      BY <1>2, ConsumerKeepsToken DEF ConsumerStep
    <2>2. \A d \in Consumer : \/ consumer'[d] = IdleConsumer
                              \/ /\ consumer[d].pc # "idle" \/ consumer'[d] = consumer[d]
                                 /\ consumer'[d].token = consumer[d].token
      BY <2>1
    <2> QED
      BY <2>1, <2>2, TokensKept
  <1> QED
    BY <1>1, <1>2

LEMMA FaultUnique ==
  ASSUME RuntimeInv, TokensUnique, FaultStep
  PROVE  TokensUnique'
  <1>1. ASSUME NEW c \in Consumer, ConsumerInterrupted(c) \/ ConsumerUnreadable(c)
        PROVE  TokensUnique'
    <2>1. /\ consumer' = [consumer EXCEPT ![c] = IdleConsumer]
          /\ consumer[c].pc # "idle" /\ UNCHANGED sweep
          /\ late' \subseteq late \union ConsumerRequest(c)
      BY <1>1, AnswerKeeps DEF ConsumerInterrupted, ConsumerUnreadable, Abandon, At
    <2>2. consumer \in [Consumer -> ConsumerRecord]
      BY DEF RuntimeInv, RuntimeTypeOK
    <2>3. /\ consumer'[c] = IdleConsumer
          /\ \A d \in Consumer : d # c => consumer'[d] = consumer[d]
      BY <2>1, <2>2
    <2>4. \A r \in ConsumerRequest(c) : r.token = consumer[c].token
      BY DEF ConsumerRequest
    <2> QED
      BY <2>1, <2>3, <2>4, TokensKept
  <1>2. ASSUME NEW s \in Sweeper, SweepInterrupted(s) PROVE TokensUnique'
    <2>1. /\ sweep' = [sweep EXCEPT ![s] = IdleSweep] /\ UNCHANGED consumer
          /\ late' \subseteq late \union SweepRequest(s)
      BY <1>2 DEF SweepInterrupted, Abandon
    <2>2. sweep \in [Sweeper -> SweepRecord]
      BY DEF RuntimeInv, RuntimeTypeOK
    <2>3. \A k \in Sweeper : sweep'[k] = IdleSweep \/ sweep'[k] = sweep[k]
      BY <2>1, <2>2
    <2>4. \A r \in SweepRequest(s) : r.token = sweep[s].token
      BY DEF SweepRequest
    <2> QED
      BY <2>1, <2>3, <2>4, TokensKept
  <1>3. ASSUME NEW j \in Job, LeaseOutlived(j) PROVE TokensUnique'
    BY <1>3 DEF LeaseOutlived, actorVars, TokensUnique
  <1> QED
    BY <1>1, <1>2, <1>3 DEF FaultStep

LEMMA TokensStep ==
  ASSUME RuntimeInv, TokensUnique, [RuntimeNext]_runtimeVars
  PROVE  TokensUnique'
  <1>1. CASE UNCHANGED actorVars
    BY <1>1 DEF actorVars, TokensUnique
  <1>2. ASSUME NEW r \in late, LateRequest(r) PROVE TokensUnique'
    BY <1>2 DEF LateRequest, TokensUnique
  <1> QED
    BY <1>1, <1>2, ConsumerUnique, SweepUnique, FaultUnique
    DEF RuntimeNext, ClientRequest, LeaseLapses, RestoreOperator, LateRequestPassesGate,
        runtimeVars, actorVars

-----------------------------------------------------------------------------
\* A running effect and its row.

Owns(c) ==
  consumer[c].pc \in {"effect", "apply"} =>
    LET row == jobs[consumer[c].job]
    IN  row.state = "running" /\ row.version = consumer[c].version
        /\ row.token = consumer[c].token

LEMMA OwnsParts == EffectOwnsRow <=> \A c \in Consumer : Owns(c)
  BY DEF EffectOwnsRow, Owns

\* What a lease says of its holder is unchanged; the lease itself may expire.
SameHolder(k) ==
  jobs'[k].state = jobs[k].state /\ jobs'[k].version = jobs[k].version
  /\ jobs'[k].token = jobs[k].token

\* A consumer owns its row after a step that left the row's holder alone, and
\* left the consumer where it was, or moved it on from its effect.
LEMMA OwnsStable ==
  ASSUME RuntimeInv, NEW c \in Consumer, Owns(c),
         \/ consumer'[c] = consumer[c]
         \/ /\ consumer[c].pc \in {"effect", "apply"}
            /\ consumer'[c].job = consumer[c].job
            /\ consumer'[c].version = consumer[c].version
            /\ consumer'[c].token = consumer[c].token
         \/ consumer'[c].pc \notin {"effect", "apply"},
         consumer[c].pc \in {"effect", "apply"} => SameHolder(consumer[c].job)
  PROVE  Owns(c)'
  BY DEF Owns, SameHolder

LEMMA OwnedRow ==
  ASSUME RuntimeInv, NEW c \in Consumer, Owns(c), consumer[c].pc \in {"effect", "apply"}
  PROVE  /\ consumer[c].job \in Job /\ jobs[consumer[c].job].version = 2
         /\ jobs[consumer[c].job].token = consumer[c].token
  <1>1. ConsumerInv(c) /\ consumer[c].pc # "idle"
    BY DEF RuntimeInv
  <1>2. consumer[c].job \in Job
    BY <1>1 DEF ConsumerInv
  <1>3. RowInv(consumer[c].job)
    BY <1>2 DEF RuntimeInv
  <1> QED
    BY <1>2, <1>3 DEF RowInv, Owns

LEMMA ClaimSparesOwned ==
  ASSUME RuntimeInv, NEW j \in Job, NEW t, ClaimJob(j, 1, t),
         NEW c \in Consumer, Owns(c), consumer[c].pc \in {"effect", "apply"}
  PROVE  SameHolder(consumer[c].job)
  BY ClaimAdvances, OwnedRow DEF Advance, SameHolder

LEMMA ApplySparesOwned ==
  ASSUME RuntimeInv, NEW j \in Job, NEW v, NEW t, NEW next,
         ApplyJobOutcome(j, v, t, next, next = "queued"),
         NEW c \in Consumer, Owns(c), consumer[c].pc \in {"effect", "apply"},
         consumer[c].token # t
  PROVE  SameHolder(consumer[c].job)
  <1>1. jobs[j].token = t
    BY DEF ApplyJobOutcome, HeldBy
  <1> QED
    BY <1>1, ApplyAdvances, OwnedRow DEF Advance, SameHolder

\* Steps that leave every holder alone.
LEMMA HoldersKept ==
  ASSUME RuntimeInv, EffectOwnsRow, UNCHANGED consumer, \A k \in Job : SameHolder(k)
  PROVE  EffectOwnsRow'
  BY OwnedRow, OwnsStable, OwnsParts DEF EffectOwnsRow, Owns

LEMMA ClaimOwns ==
  ASSUME RuntimeInv, TokensUnique, EffectOwnsRow, NEW c \in Consumer, Claim(c)
  PROVE  EffectOwnsRow'
  <1>0. /\ consumer \in [Consumer -> ConsumerRecord] /\ jobs \in [Job -> JobRow]
        /\ consumer[c].pc = "claim" /\ consumer[c].version = 1 /\ consumer[c].job \in Job
        /\ \A d \in Consumer : Owns(d)
    BY OwnsParts DEF RuntimeInv, RuntimeTypeOK, StoreTypeOK, ConsumerInv, Claim, At
  <1>1. CASE Retry(c) /\ UNCHANGED jobs
    <2>1. consumer' = [consumer EXCEPT ![c] = IdleConsumer]
      BY <1>1, AnswerKeeps
    <2>2. ASSUME NEW d \in Consumer PROVE Owns(d)'
      BY <1>0, <1>1, <2>1 DEF Owns, IdleConsumer
    <2> QED
      BY <2>2 DEF EffectOwnsRow, Owns
  <1>2. CASE /\ ClaimJob(consumer[c].job, consumer[c].version, consumer[c].token)
             /\ consumer' = [consumer EXCEPT ![c] =
                  [consumer[c] EXCEPT !.pc = "effect", !.version = consumer[c].version + 1]]
    <2>1. ASSUME NEW d \in Consumer, d # c PROVE Owns(d)'
      BY <1>0, <1>2, <2>1, ClaimSparesOwned, OwnsStable
    <2>2. Owns(c)'
      <3>1. /\ consumer'[c].job = consumer[c].job /\ consumer'[c].token = consumer[c].token
            /\ consumer'[c].version = 2
        BY <1>0, <1>2 DEF ConsumerRecord
      <3>2. PICK row : /\ row = [jobs[consumer[c].job] EXCEPT !.state = "running", !.version = @ + 1,
                                   !.token = consumer[c].token, !.lease = "live", !.attempts = @ + 1]
                       /\ jobs' = [jobs EXCEPT ![consumer[c].job] = row]
        BY <1>2 DEF ClaimJob, UpdateJob
      <3>3. jobs[consumer[c].job].version = 1 /\ jobs[consumer[c].job] \in JobRow
        BY <1>0, <1>2 DEF ClaimJob, Claimable
      <3>4. row.state = "running" /\ row.version = 2 /\ row.token = consumer[c].token
        BY <3>2, <3>3 DEF JobRow
      <3>5. jobs'[consumer[c].job] = row
        BY <1>0, <3>2
      <3> QED
        BY <3>1, <3>4, <3>5 DEF Owns
    <2> QED
      BY <2>1, <2>2 DEF EffectOwnsRow, Owns
  <1> QED
    BY <1>1, <1>2 DEF Claim, AnswersNothing, MatchNothing, storeVars

LEMMA ApplyOwns ==
  ASSUME RuntimeInv, TokensUnique, EffectOwnsRow, NEW c \in Consumer, ApplyOutcome(c)
  PROVE  EffectOwnsRow'
  <1>0. /\ consumer \in [Consumer -> ConsumerRecord]
        /\ consumer[c].pc = "apply" /\ consumer[c].job \in Job
        /\ \A d \in Consumer : Owns(d)
        /\ \A d \in Consumer : d # c => consumer[d].token # consumer[c].token
    BY OwnsParts
    DEF RuntimeInv, RuntimeTypeOK, ConsumerInv, ApplyOutcome, At, TokensUnique
  <1>1. CASE Retry(c) /\ UNCHANGED jobs
    <2>1. consumer' = [consumer EXCEPT ![c] = IdleConsumer]
      BY <1>1, AnswerKeeps
    <2>2. ASSUME NEW d \in Consumer PROVE Owns(d)'
      BY <1>0, <1>1, <2>1 DEF Owns, IdleConsumer
    <2> QED
      BY <2>2 DEF EffectOwnsRow, Owns
  <1>2. CASE /\ ApplyJobOutcome(consumer[c].job, consumer[c].version, consumer[c].token,
                                consumer[c].next, consumer[c].next = "queued")
             /\ GoTo(c, "record")
    <2>1. ASSUME NEW d \in Consumer, d # c PROVE Owns(d)'
      <3>1. consumer'[d] = consumer[d]
        BY <1>0, <1>2, <2>1 DEF GoTo
      <3>2. consumer[d].pc \in {"effect", "apply"} => SameHolder(consumer[d].job)
        <4> SUFFICES ASSUME consumer[d].pc \in {"effect", "apply"}
                     PROVE  SameHolder(consumer[d].job)
          OBVIOUS
        <4>1. consumer[d].token # consumer[c].token /\ Owns(d) /\ consumer[c].job \in Job
          BY <1>0, <2>1
        <4>2. ASSUME NEW j, NEW v, NEW t, NEW next, j \in Job, consumer[d].token # t,
                     ApplyJobOutcome(j, v, t, next, next = "queued")
              PROVE  SameHolder(consumer[d].job)
          BY <4>1, <4>2, ApplySparesOwned
        <4> QED
          BY <1>2, <4>1, <4>2
      <3> QED
        BY <1>0, <2>1, <3>1, <3>2, OwnsStable
    <2>2. consumer'[c].pc = "record"
      BY <1>0, <1>2 DEF GoTo, ConsumerRecord
    <2> QED
      BY <2>1, <2>2 DEF EffectOwnsRow, Owns
  <1> QED
    BY <1>1, <1>2 DEF ApplyOutcome, AnswersNothing, MatchNothing, storeVars

\* The other steps of a consumer write no row.
LEMMA QuietOwns ==
  ASSUME RuntimeInv, EffectOwnsRow, NEW c \in Consumer, ConsumerStep(c),
         ~Claim(c), ~ApplyOutcome(c)
  PROVE  EffectOwnsRow'
  <1>0. consumer \in [Consumer -> ConsumerRecord] /\ consumer[c] \in ConsumerRecord
    BY DEF RuntimeInv, RuntimeTypeOK
  <1>1. UNCHANGED jobs
    BY DEF ConsumerStep, Receive, ReadCanonicalJob, CheckDispatch, RecheckFence, CallPassesGate,
           PassGate, EffectReturns, EffectNeedsReview, RecordProcessed, RecordProcessedEvent,
           storeVars
  <1> DEFINE Moves == /\ \A d \in Consumer : d # c => consumer'[d] = consumer[d]
                      /\ \/ consumer'[c] = consumer[c]
                         \/ consumer'[c].pc \notin {"effect", "apply"}
                         \/ /\ consumer[c].pc \in {"effect", "apply"}
                            /\ consumer'[c].job = consumer[c].job
                            /\ consumer'[c].version = consumer[c].version
                            /\ consumer'[c].token = consumer[c].token
  <1> SUFFICES Moves
    <2>1. ASSUME Moves, NEW d \in Consumer PROVE Owns(d)'
      BY <1>1, <2>1, OwnsStable, OwnsParts DEF SameHolder
    <2> QED
      BY <2>1 DEF EffectOwnsRow, Owns
  <1>2. CASE consumer' = [consumer EXCEPT ![c] = IdleConsumer]
    BY <1>0, <1>2 DEF IdleConsumer
  <1>3. ASSUME NEW pc \in ConsumerPc \ {"effect", "apply"}, GoTo(c, pc) PROVE Moves
    BY <1>0, <1>3 DEF GoTo, ConsumerRecord
  <1>4. ASSUME NEW j \in Job, NEW d \in Delivery, NEW t \in FreshToken, Receive(c, j, d, t)
        PROVE  Moves
    BY <1>0, <1>4 DEF Receive, ConsumerRecord
  <1>5. CASE ReadCanonicalJob(c)
    BY <1>0, <1>5 DEF ReadCanonicalJob, ConsumerRecord
  <1>6. CASE \E expired \in BOOLEAN : CheckDispatch(c, expired)
    BY <1>2, <1>3, <1>6, AnswerKeeps DEF CheckDispatch, ConsumerPc
  <1>7. CASE RecheckFence(c)
    BY <1>2, <1>3, <1>7, AnswerKeeps DEF RecheckFence, ConsumerPc
  <1>8. CASE CallPassesGate(c)
    BY <1>8 DEF CallPassesGate, actorVars
  <1>9. ASSUME NEW next \in Outcome, EffectReturns(c, next) PROVE Moves
    BY <1>0, <1>9 DEF EffectReturns, At, ConsumerRecord
  <1>10. CASE EffectNeedsReview(c) \/ RecordProcessed(c)
    BY <1>2, <1>10, AnswerKeeps DEF EffectNeedsReview, RecordProcessed
  <1> QED
    BY <1>4, <1>5, <1>6, <1>7, <1>8, <1>9, <1>10 DEF ConsumerStep

LEMMA LateOwns ==
  ASSUME RuntimeInv, TokensUnique, EffectOwnsRow, NEW r \in late, LateRequest(r)
  PROVE  EffectOwnsRow'
  <1>0. /\ LateInv(r) /\ UNCHANGED consumer
        /\ \A c \in Consumer : Owns(c)
        /\ \A c \in Consumer : consumer[c].pc # "idle" => consumer[c].token # r.token
    BY OwnsParts DEF RuntimeInv, LateRequest, TokensUnique
  <1>1. CASE \A k \in Job : SameHolder(k)
    BY <1>0, <1>1, HoldersKept
  <1>2. CASE r.op = "claim" /\ ClaimJob(r.job, r.version, r.token)
    <2>1. ASSUME NEW c \in Consumer PROVE Owns(c)'
      <3>1. consumer[c].pc \in {"effect", "apply"} => SameHolder(consumer[c].job)
        BY <1>0, <1>2, ClaimSparesOwned DEF LateInv
      <3> QED
        BY <1>0, <3>1, OwnsStable
    <2> QED
      BY <2>1 DEF EffectOwnsRow, Owns
  <1>3. CASE r.op = "apply" /\ ApplyJobOutcome(r.job, r.version, r.token, r.next, r.next = "queued")
    <2>1. ASSUME NEW c \in Consumer PROVE Owns(c)'
      <3>1. consumer[c].pc \in {"effect", "apply"} => SameHolder(consumer[c].job)
        <4> SUFFICES ASSUME consumer[c].pc \in {"effect", "apply"}
                     PROVE  SameHolder(consumer[c].job)
          OBVIOUS
        <4>1. consumer[c].token # r.token /\ Owns(c) /\ r.job \in Job
          BY <1>0, <1>3 DEF LateInv
        <4> QED
          BY <1>3, <4>1, ApplySparesOwned
      <3> QED
        BY <1>0, <3>1, OwnsStable
    <2> QED
      BY <2>1 DEF EffectOwnsRow, Owns
  <1>4. CASE UNCHANGED jobs
    BY <1>1, <1>4 DEF SameHolder
  <1> QED
    BY <1>2, <1>3, <1>4
    DEF LateRequest, RecordProcessedEvent, ClaimOutboxBatch, CompleteOutboxEvent, MatchNothing,
        storeVars

LEMMA ExpiryKeepsHolders ==
  ASSUME RuntimeInv, NEW j \in Job, JobLeaseExpires(j)
  PROVE  \A k \in Job : SameHolder(k)
  BY DEF JobLeaseExpires, SameHolder, RuntimeInv, RuntimeTypeOK, StoreTypeOK, JobRow

LEMMA FaultOwns ==
  ASSUME RuntimeInv, EffectOwnsRow, FaultStep
  PROVE  EffectOwnsRow'
  <1>1. ASSUME NEW c \in Consumer, ConsumerInterrupted(c) \/ ConsumerUnreadable(c)
        PROVE  EffectOwnsRow'
    <2>1. consumer' = [consumer EXCEPT ![c] = IdleConsumer] /\ UNCHANGED jobs
      BY <1>1, AnswerKeeps DEF ConsumerInterrupted, ConsumerUnreadable, storeVars
    <2>2. \A d \in Consumer : consumer'[d] = consumer[d] \/ consumer'[d].pc = "idle"
      BY <2>1 DEF RuntimeInv, RuntimeTypeOK, IdleConsumer
    <2> QED
      BY <2>1, <2>2 DEF EffectOwnsRow
  <1>2. ASSUME NEW s \in Sweeper, SweepInterrupted(s) PROVE EffectOwnsRow'
    BY <1>2 DEF SweepInterrupted, storeVars, EffectOwnsRow
  <1>3. ASSUME NEW j \in Job, LeaseOutlived(j) PROVE EffectOwnsRow'
    <2>1. UNCHANGED consumer
      BY <1>3 DEF LeaseOutlived, actorVars
    <2>2. \A k \in Job : SameHolder(k)
      BY <1>3, ExpiryKeepsHolders DEF LeaseOutlived, OutboxLeaseExpires, SameHolder
    <2> QED
      BY <2>1, <2>2, HoldersKept
  <1> QED
    BY <1>1, <1>2, <1>3 DEF FaultStep

LEMMA ClientOwns ==
  ASSUME RuntimeInv, EffectOwnsRow, NEW j \in Job, ClientRequest(j) \/ LeaseLapses(j)
  PROVE  EffectOwnsRow'
  <1>1. CASE LeaseLapses(j)
    <2>1. UNCHANGED consumer /\ \A k \in Job : SameHolder(k)
      BY <1>1, ExpiryKeepsHolders DEF LeaseLapses, OutboxLeaseExpires, SameHolder, actorVars
    <2> QED
      BY <2>1, HoldersKept
  <1>2. CASE ClientRequest(j)
    <2>1. Advance(j, 0, 1, "queued") /\ UNCHANGED consumer
      BY <1>2, AcceptAdvances DEF ClientRequest, actorVars
    <2>2. ASSUME NEW c \in Consumer PROVE Owns(c)'
      <3>1. consumer[c].pc \in {"effect", "apply"} => SameHolder(consumer[c].job)
        BY <2>1, OwnedRow, OwnsParts DEF Advance, SameHolder
      <3> QED
        BY <2>1, <3>1, OwnsStable, OwnsParts
    <2> QED
      BY <2>2 DEF EffectOwnsRow, Owns
  <1> QED
    BY <1>1, <1>2

LEMMA OwnsStep ==
  ASSUME RuntimeInv, TokensUnique, EffectOwnsRow, [RuntimeNext]_runtimeVars
  PROVE  EffectOwnsRow'
  <1>1. CASE UNCHANGED <<jobs, consumer>>
    BY <1>1 DEF EffectOwnsRow
  <1>2. ASSUME NEW s \in Sweeper, SweepStep(s) PROVE UNCHANGED <<jobs, consumer>>
    BY <1>2
    DEF SweepStep, BeginSweep, PassGate, ClaimBatch, ClaimOutboxBatch, SendRow, CompleteRow,
        CompleteOutboxEvent, storeVars
  <1> QED
    BY <1>1, <1>2, ClientOwns, ClaimOwns, ApplyOwns, QuietOwns, LateOwns, FaultOwns
    DEF RuntimeNext, RestoreOperator, LateRequestPassesGate, PassGate, runtimeVars, storeVars,
        actorVars

\* A running effect owns its row: the outcome of the attempt that holds the job
\* may be refused because of the clock or of a restore, but no redelivery, no
\* second consumer and no late request ever takes the row from under it.
THEOREM EffectKeepsRow == RuntimeSpec => []EffectOwnsRow
  <1>1. RuntimeInit => TokensUnique /\ EffectOwnsRow
    BY DEF RuntimeInit, TokensUnique, EffectOwnsRow, IdleConsumer
  <1>2. RuntimeInv /\ TokensUnique /\ EffectOwnsRow /\ [RuntimeNext]_runtimeVars
          => (TokensUnique /\ EffectOwnsRow)'
    BY TokensStep, OwnsStep
  <1> QED
    BY <1>1, <1>2, RuntimeInvariant, PTL DEF RuntimeSpec

-----------------------------------------------------------------------------
\* The Worker, the queue and their faults implement the store's specification.
THEOREM RuntimeImplementsStore == RuntimeSpec => ImplementsStore
  <1>1. RuntimeInit => StoreInit
    BY DEF RuntimeInit
  <1>2. RuntimeInv /\ [RuntimeNext]_runtimeVars => [StoreNext]_storeVars
    BY RuntimeIsStoreStep
  <1> QED
    BY <1>1, <1>2, RuntimeInvariant, PTL DEF RuntimeSpec, ImplementsStore, StoreSpec

\* Seen through rows and leases alone, the Worker with its queue, its faults
\* and its late requests keeps the promise of the abstract job contract.
THEOREM RuntimeKeepsContract == RuntimeSpec => ImplementsContract
  BY RuntimeImplementsStore, StoreImplementsContract DEF ImplementsStore
=============================================================================
