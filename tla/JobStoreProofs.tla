---------------------------- MODULE JobStoreProofs ----------------------------
(***************************************************************************)
(* Theorems about JobStore: what the SQL functions guarantee whatever the  *)
(* clients call, for every number of jobs, tokens, epochs and versions.    *)
(***************************************************************************)
EXTENDS JobStore, FiniteSetTheorems, TLAPS

\* The inductive invariant: the types, and the lease a row carries while it
\* runs, without which a step on a running row could not keep the types apart.
StoreInv == StoreTypeOK /\ LeaseIffRunning

\* A step that changes jobs changes one row, and what is left of the proof is
\* about that row alone.
LEMMA OneRow ==
  ASSUME StoreInv, NEW j \in Job, NEW new \in JobRow,
         jobs' = [jobs EXCEPT ![j] = new], UNCHANGED <<fences, outbox, processed>>,
         admitted' \subseteq admitted, new.state # "absent", jobs[j].state # "absent",
         (new.state = "running") <=> (new.lease # "none"),
         (new.state = "running") <=> (new.token # NoToken)
  PROVE  StoreInv'
  BY DEF StoreInv, StoreTypeOK, FenceTypeOK, LeaseIffRunning, Epoch

LEMMA OneEvent ==
  ASSUME StoreInv, NEW j \in Job, NEW new \in OutboxRow,
         outbox' = [outbox EXCEPT ![j] = new], UNCHANGED <<fences, jobs, processed>>,
         admitted' \subseteq admitted, new.state # "absent", outbox[j].state # "absent"
  PROVE  StoreInv'
  BY DEF StoreInv, StoreTypeOK, FenceTypeOK, LeaseIffRunning, Epoch

LEMMA StoreInitInv == StoreInit => StoreInv
  <1> SUFFICES ASSUME StoreInit PROVE StoreInv
    OBVIOUS
  <1>1. StoreTypeOK
    BY DEF StoreInit, StoreTypeOK, FenceInit, FenceTypeOK, FenceState, AbsentJob,
           AbsentEvent, JobRow, OutboxRow, LeaseState, JobState
  <1>2. LeaseIffRunning
    BY DEF StoreInit, LeaseIffRunning, AbsentJob, AbsentEvent
  <1> QED
    BY <1>1, <1>2 DEF StoreInv

LEMMA AcceptJobInv ==
  ASSUME StoreInv, NEW j \in Job, AcceptJob(j)
  PROVE  StoreInv'
  <1> DEFINE row == [AbsentJob EXCEPT !.state = "queued", !.version = 1]
             event == [AbsentEvent EXCEPT !.state = "pending", !.rank = Cardinality(Accepted)]
  <1>1. Cardinality(Accepted) \in Nat
    BY StoreAssumption, FS_Subset, FS_CardinalityType DEF Accepted
  <1>2. row \in JobRow /\ row.state = "queued" /\ row.lease = "none" /\ row.token = NoToken
    BY DEF AbsentJob, JobRow, JobState, LeaseState
  <1>3. event \in OutboxRow /\ event.state = "pending"
    BY <1>1 DEF AbsentEvent, OutboxRow, LeaseState
  <1>4. /\ jobs' = [jobs EXCEPT ![j] = row]
        /\ outbox' = [outbox EXCEPT ![j] = event]
        /\ UNCHANGED <<fences, processed, admitted>>
    BY DEF AcceptJob
  <1> HIDE DEF row, event
  <1> QED
    BY <1>2, <1>3, <1>4
    DEF StoreInv, StoreTypeOK, FenceTypeOK, LeaseIffRunning, Epoch

LEMMA ClaimJobInv ==
  ASSUME StoreInv, NEW j \in Job, NEW v, NEW t \in Token, ClaimJob(j, v, t)
  PROVE  StoreInv'
  <1> DEFINE version == jobs[j].version + 1
             attempts == jobs[j].attempts + 1
             row == [jobs[j] EXCEPT !.state = "running", !.version = version,
                       !.token = t, !.lease = "live", !.attempts = attempts]
  <1>1. jobs[j] \in JobRow /\ jobs[j].state \in {"queued", "running"}
    BY DEF StoreInv, StoreTypeOK, ClaimJob, Claimable
  <1>2. row \in JobRow /\ row.state = "running" /\ row.lease = "live" /\ row.token = t
    <2>1. version \in Nat /\ attempts \in Nat
      BY <1>1 DEF JobRow
    <2> HIDE DEF version, attempts
    <2> QED
      BY <1>1, <2>1 DEF JobRow, JobState, LeaseState
  <1>3. /\ jobs' = [jobs EXCEPT ![j] = row] /\ UNCHANGED <<fences, outbox, processed>>
        /\ admitted' \subseteq admitted
    BY DEF ClaimJob, UpdateJob, EndCall
  <1>4. t # NoToken
    BY StoreAssumption
  <1> HIDE DEF row
  <1> QED
    BY <1>1, <1>2, <1>3, <1>4, OneRow

LEMMA HeartbeatInv ==
  ASSUME StoreInv, NEW j \in Job, NEW v, NEW t, HeartbeatJobLease(j, v, t)
  PROVE  StoreInv'
  <1> DEFINE row == [jobs[j] EXCEPT !.version = @ + 1]
  <1>1. jobs[j] \in JobRow /\ jobs[j].state = "running"
    BY DEF StoreInv, StoreTypeOK, HeartbeatJobLease, HeldBy
  <1>2. /\ row \in JobRow
        /\ row.state = "running" /\ row.lease = jobs[j].lease /\ row.token = jobs[j].token
    BY <1>1 DEF JobRow
  <1>3. /\ jobs' = [jobs EXCEPT ![j] = row] /\ UNCHANGED <<fences, outbox, processed>>
        /\ admitted' \subseteq admitted
    BY DEF HeartbeatJobLease, UpdateJob, EndCall
  <1>4. jobs[j].lease # "none" /\ jobs[j].token # NoToken
    BY <1>1 DEF StoreInv, LeaseIffRunning
  <1> HIDE DEF row
  <1> QED
    BY <1>1, <1>2, <1>3, <1>4, OneRow

LEMMA ApplyJobOutcomeInv ==
  ASSUME StoreInv, NEW j \in Job, NEW v, NEW t, NEW next, NEW retryable \in BOOLEAN,
         ApplyJobOutcome(j, v, t, next, retryable)
  PROVE  StoreInv'
  <1> DEFINE target == OutcomeTarget(next, retryable)
             version == jobs[j].version + 1
             row == [jobs[j] EXCEPT !.state = target, !.version = version,
                       !.token = NoToken, !.lease = "none"]
  <1>1. jobs[j] \in JobRow /\ jobs[j].state = "running"
    BY DEF StoreInv, StoreTypeOK, ApplyJobOutcome, HeldBy
  <1>2. target \in TerminalState \union {"queued"}
    BY DEF ApplyJobOutcome, ValidOutcome, OutcomeTarget
  <1>3. target \in JobState /\ target # "running" /\ target # "absent"
    BY <1>2 DEF TerminalState, JobState
  <1> HIDE DEF target
  <1>4. row \in JobRow /\ row.state = target /\ row.lease = "none" /\ row.token = NoToken
    <2>1. version \in Nat
      BY <1>1 DEF JobRow
    <2> HIDE DEF version
    <2> QED
      BY <1>1, <1>3, <2>1 DEF JobRow, LeaseState
  <1>5. /\ jobs' = [jobs EXCEPT ![j] = row] /\ UNCHANGED <<fences, outbox, processed>>
        /\ admitted' \subseteq admitted
    BY DEF ApplyJobOutcome, UpdateJob, EndCall, target
  <1> HIDE DEF row
  <1> QED
    BY <1>1, <1>3, <1>4, <1>5, OneRow

LEMMA JobLeaseExpiresInv ==
  ASSUME StoreInv, NEW j \in Job, JobLeaseExpires(j)
  PROVE  StoreInv'
  <1> DEFINE row == [jobs[j] EXCEPT !.lease = "expired"]
  <1>1. jobs[j] \in JobRow /\ jobs[j].state = "running" /\ jobs[j].token # NoToken
    BY DEF StoreInv, StoreTypeOK, LeaseIffRunning, JobLeaseExpires
  <1>2. /\ row \in JobRow
        /\ row.state = "running" /\ row.lease = "expired" /\ row.token = jobs[j].token
    BY <1>1 DEF JobRow, LeaseState
  <1>3. /\ jobs' = [jobs EXCEPT ![j] = row] /\ UNCHANGED <<fences, outbox, processed>>
        /\ admitted' \subseteq admitted
    BY DEF JobLeaseExpires
  <1> HIDE DEF row
  <1> QED
    BY <1>1, <1>2, <1>3, OneRow

LEMMA OutboxLeaseExpiresInv ==
  ASSUME StoreInv, NEW j \in Job, OutboxLeaseExpires(j)
  PROVE  StoreInv'
  <1>1. outbox' = [outbox EXCEPT ![j] = [outbox[j] EXCEPT !.lease = "expired"]]
    BY DEF OutboxLeaseExpires
  <1>2. [outbox[j] EXCEPT !.lease = "expired"] \in OutboxRow
    BY DEF StoreInv, StoreTypeOK, OutboxRow, LeaseState
  <1> QED
    BY <1>1, <1>2
    DEF OutboxLeaseExpires, OutboxRow, StoreInv, StoreTypeOK, FenceTypeOK,
        LeaseIffRunning, Epoch

\* The three functions on the outbox: a batch claim, a single claim and a
\* completion leave every row a row, and every accepted row accepted.
LEMMA OutboxInv ==
  ASSUME StoreInv, NEW t \in Token,
         ClaimOutboxBatch(t)
           \/ \E j \in Job : ClaimOutboxEvent(j, t) \/ CompleteOutboxEvent(j, t)
  PROVE  StoreInv'
  <1>0. \A k \in Job : outbox[k] \in OutboxRow
    BY DEF StoreInv, StoreTypeOK
  <1>1. CASE ClaimOutboxBatch(t)
    <2>1. /\ outbox' = [k \in Job |->
               IF k \in OutboxBatch THEN [outbox[k] EXCEPT !.token = t, !.lease = "live"]
                                    ELSE outbox[k]]
          /\ UNCHANGED <<fences, jobs, processed>>
          /\ admitted' \subseteq admitted
      BY <1>1 DEF ClaimOutboxBatch, EndCall
    <2>2. \A k \in Job : [outbox[k] EXCEPT !.token = t, !.lease = "live"] \in OutboxRow
      BY <1>0 DEF OutboxRow, LeaseState
    <2>3. \A k \in Job : outbox'[k].state = outbox[k].state
      BY <1>0, <2>1 DEF OutboxRow
    <2>4. outbox' \in [Job -> OutboxRow]
      BY <1>0, <2>1, <2>2
    <2> QED
      BY <2>1, <2>3, <2>4 DEF StoreInv, StoreTypeOK, FenceTypeOK, LeaseIffRunning, Epoch
  <1>2. ASSUME NEW j \in Job, ClaimOutboxEvent(j, t) PROVE StoreInv'
    <2>1. [outbox[j] EXCEPT !.token = t, !.lease = "live"] \in OutboxRow
      BY <1>0 DEF OutboxRow, LeaseState
    <2> QED
      BY <1>0, <1>2, <2>1, OneEvent DEF ClaimOutboxEvent, EndCall, Sweepable, OutboxRow
  <1>3. ASSUME NEW j \in Job, CompleteOutboxEvent(j, t) PROVE StoreInv'
    <2>1. [outbox[j] EXCEPT !.state = "dispatched", !.token = NoToken, !.lease = "none"]
            \in OutboxRow
      BY <1>0 DEF OutboxRow, LeaseState
    <2> QED
      BY <1>0, <1>3, <2>1, OneEvent DEF CompleteOutboxEvent, Completable, OutboxRow
  <1> QED
    BY <1>1, <1>2, <1>3

LEMMA FenceStepInv ==
  ASSUME StoreInv, FenceStep, UNCHANGED <<jobs, outbox, processed, admitted>>
  PROVE  StoreInv'
  <1>1. FenceTypeOK'
    BY DEF StoreInv, StoreTypeOK, FenceTypeOK, FenceStep, BeginRestoreFence,
           CompleteRestoreFence, FenceState, Epoch
  <1> QED
    BY <1>1 DEF StoreInv, StoreTypeOK, LeaseIffRunning

LEMMA RecordInv ==
  ASSUME StoreInv, NEW j \in Job, RecordProcessedEvent(j)
  PROVE  StoreInv'
  BY DEF StoreInv, StoreTypeOK, FenceTypeOK, LeaseIffRunning, RecordProcessedEvent, Epoch

LEMMA GateInv ==
  ASSUME StoreInv, NEW t \in Token, PassGate(t) \/ MatchNothing(t)
  PROVE  StoreInv'
  BY DEF StoreInv, StoreTypeOK, FenceTypeOK, LeaseIffRunning, PassGate, MatchNothing, EndCall, Epoch

\* Every step of the store, one lemma each.
LEMMA StoreStepInv ==
  ASSUME StoreInv, [StoreNext]_storeVars
  PROVE  StoreInv'
  <1>1. CASE FenceStep /\ UNCHANGED <<jobs, outbox, processed, admitted>>
    BY <1>1, FenceStepInv
  <1>2. ASSUME NEW j \in Job, AcceptJob(j) PROVE StoreInv'
    BY <1>2, AcceptJobInv
  <1>3. ASSUME NEW j \in Job, JobLeaseExpires(j) PROVE StoreInv'
    BY <1>3, JobLeaseExpiresInv
  <1>4. ASSUME NEW j \in Job, OutboxLeaseExpires(j) PROVE StoreInv'
    BY <1>4, OutboxLeaseExpiresInv
  <1>5. ASSUME NEW j \in Job, NEW t \in Token, ClientStep(j, t) PROVE StoreInv'
    BY <1>5, ClaimJobInv, HeartbeatInv, ApplyJobOutcomeInv, OutboxInv, RecordInv
    DEF ClientStep
  <1>6. CASE UNCHANGED storeVars
    BY <1>6 DEF storeVars, StoreInv, StoreTypeOK, FenceTypeOK, LeaseIffRunning
  <1>7. ASSUME NEW t \in Token, PassGate(t) \/ MatchNothing(t) \/ ClaimOutboxBatch(t)
        PROVE  StoreInv'
    BY <1>7, GateInv, OutboxInv
  <1> QED
    BY <1>1, <1>2, <1>3, <1>4, <1>5, <1>6, <1>7 DEF StoreNext

\* StoreInv is inductive.
LEMMA StoreAlwaysInv == StoreSpec => []StoreInv
  <1>1. StoreInit => StoreInv
    BY StoreInitInv
  <1>2. StoreInv /\ [StoreNext]_storeVars => StoreInv'
    BY StoreStepInv
  <1> QED
    BY <1>1, <1>2, PTL DEF StoreSpec

\* The tables keep their types, and a row carries a lease exactly while it is
\* running, whatever functions the service clients call and in what order.
THEOREM StoreInvariant == StoreSpec => [](StoreTypeOK /\ LeaseIffRunning)
  <1>1. StoreInv => StoreTypeOK /\ LeaseIffRunning
    BY DEF StoreInv
  <1> QED
    BY <1>1, StoreAlwaysInv, PTL
-----------------------------------------------------------------------------
\* The refinement: each function on jobs is a step of JobContract, every other
\* function leaves the contract's state alone.

LEMMA MapOneRow ==
  ASSUME NEW j \in Job, NEW new, jobs' = [jobs EXCEPT ![j] = new],
         jobs \in [Job -> JobRow]
  PROVE  /\ JobPhase' = [JobPhase EXCEPT ![j] = PhaseOf(new)]
         /\ LeaseHolder' = [LeaseHolder EXCEPT ![j] = HolderOf(new)]
         /\ JobPhase[j] = PhaseOf(jobs[j]) /\ LeaseHolder[j] = HolderOf(jobs[j])
  <1>1. \A k \in Job : jobs'[k] = IF k = j THEN new ELSE jobs[k]
    OBVIOUS
  <1>2. JobPhase' = [k \in Job |-> PhaseOf(jobs'[k])]
    BY DEF JobPhase, PhaseOf
  <1>3. LeaseHolder' = [k \in Job |-> HolderOf(jobs'[k])]
    BY DEF LeaseHolder, HolderOf
  <1> QED
    BY <1>1, <1>2, <1>3 DEF JobPhase, LeaseHolder

LEMMA MapUnchanged ==
  ASSUME UNCHANGED jobs
  PROVE  UNCHANGED <<JobPhase, LeaseHolder>>
  BY DEF JobPhase, LeaseHolder, PhaseOf, HolderOf

LEMMA AcceptJobMaps ==
  ASSUME StoreInv, NEW j \in Job, AcceptJob(j)
  PROVE  Contract!Submit(j)
  <1> DEFINE row == [AbsentJob EXCEPT !.state = "queued", !.version = 1]
  <1>1. row.state = "queued" /\ row.lease = "none"
    BY DEF AbsentJob
  <1>2. jobs' = [jobs EXCEPT ![j] = row] /\ jobs[j].state = "absent" /\ jobs[j].lease = "none"
    BY DEF AcceptJob, StoreInv, LeaseIffRunning
  <1> HIDE DEF row
  <1>3. PhaseOf(row) = "waiting" /\ HolderOf(row) = NoToken
    BY <1>1 DEF PhaseOf, HolderOf
  <1>4. PhaseOf(jobs[j]) = "absent" /\ HolderOf(jobs[j]) = NoToken
    BY <1>2 DEF PhaseOf, HolderOf
  <1>5. LeaseHolder \in [Job -> {HolderOf(jobs[k]) : k \in Job}]
    BY DEF LeaseHolder
  <1>6. /\ JobPhase' = [JobPhase EXCEPT ![j] = PhaseOf(row)]
        /\ LeaseHolder' = [LeaseHolder EXCEPT ![j] = HolderOf(row)]
        /\ JobPhase[j] = PhaseOf(jobs[j]) /\ LeaseHolder[j] = HolderOf(jobs[j])
    BY <1>2, MapOneRow DEF StoreInv, StoreTypeOK
  <1> QED
    BY <1>3, <1>4, <1>5, <1>6 DEF Contract!Submit

LEMMA ClaimJobMaps ==
  ASSUME StoreInv, NEW j \in Job, NEW v, NEW t \in Token, ClaimJob(j, v, t)
  PROVE  Contract!Attempt(j, t)
  <1> DEFINE row == [jobs[j] EXCEPT !.state = "running", !.version = @ + 1,
                       !.token = t, !.lease = "live", !.attempts = @ + 1]
  <1>1. jobs[j] \in JobRow /\ jobs[j].state \in {"queued", "running"} /\ jobs[j].lease # "live"
    BY DEF StoreInv, StoreTypeOK, LeaseIffRunning, ClaimJob, Claimable
  <1>2. row.state = "running" /\ row.lease = "live" /\ row.token = t
    BY <1>1 DEF JobRow
  <1>3. jobs' = [jobs EXCEPT ![j] = row]
    BY DEF ClaimJob, UpdateJob
  <1> HIDE DEF row
  <1>4. PhaseOf(row) = "attempting" /\ HolderOf(row) = t
    BY <1>2 DEF PhaseOf, HolderOf
  <1>5. PhaseOf(jobs[j]) \in {"waiting", "attempting"} /\ HolderOf(jobs[j]) = NoToken
    BY <1>1 DEF PhaseOf, HolderOf
  <1>6. /\ JobPhase' = [JobPhase EXCEPT ![j] = PhaseOf(row)]
        /\ LeaseHolder' = [LeaseHolder EXCEPT ![j] = HolderOf(row)]
        /\ JobPhase[j] = PhaseOf(jobs[j]) /\ LeaseHolder[j] = HolderOf(jobs[j])
    BY <1>3, MapOneRow DEF StoreInv, StoreTypeOK
  <1> QED
    BY <1>4, <1>5, <1>6 DEF Contract!Attempt

\* A heartbeat moves a version and a deadline: nothing the contract can see.
LEMMA HeartbeatMaps ==
  ASSUME StoreInv, NEW j \in Job, NEW v, NEW t, HeartbeatJobLease(j, v, t)
  PROVE  UNCHANGED <<JobPhase, LeaseHolder>>
  <1> DEFINE row == [jobs[j] EXCEPT !.version = @ + 1]
  <1>1. jobs[j] \in JobRow
    BY DEF StoreInv, StoreTypeOK
  <1>2. row.state = jobs[j].state /\ row.lease = jobs[j].lease /\ row.token = jobs[j].token
    BY <1>1 DEF JobRow
  <1>3. jobs' = [jobs EXCEPT ![j] = row]
    BY DEF HeartbeatJobLease, UpdateJob
  <1> HIDE DEF row
  <1>4. PhaseOf(row) = PhaseOf(jobs[j]) /\ HolderOf(row) = HolderOf(jobs[j])
    BY <1>2 DEF PhaseOf, HolderOf
  <1> QED
    BY <1>3, <1>4, MapOneRow DEF StoreInv, StoreTypeOK, JobPhase, LeaseHolder

LEMMA ApplyJobOutcomeMaps ==
  ASSUME StoreInv, NEW j \in Job, NEW v, NEW t, NEW next, NEW retryable \in BOOLEAN,
         ApplyJobOutcome(j, v, t, next, retryable)
  PROVE  \E p \in Contract!Ended \union {"waiting"} : Contract!Finish(j, p)
  <1> DEFINE target == OutcomeTarget(next, retryable)
             row == [jobs[j] EXCEPT !.state = target, !.version = @ + 1,
                       !.token = NoToken, !.lease = "none"]
             p == IF target = "queued" THEN "waiting" ELSE target
  <1>1. jobs[j] \in JobRow /\ jobs[j].state = "running" /\ jobs[j].lease = "live"
        /\ jobs[j].token # NoToken
    BY DEF StoreInv, StoreTypeOK, LeaseIffRunning, ApplyJobOutcome, HeldBy
  <1>2. target \in {"succeeded", "failed", "cancelled", "queued"}
    BY DEF ApplyJobOutcome, ValidOutcome, OutcomeTarget, TerminalState
  <1>3. jobs' = [jobs EXCEPT ![j] = row]
    BY DEF ApplyJobOutcome, UpdateJob
  <1> HIDE DEF target
  <1>4. row.state = target /\ row.lease = "none"
    BY <1>1 DEF JobRow
  <1> HIDE DEF row
  <1>5. PhaseOf(row) = p /\ HolderOf(row) = NoToken
    BY <1>2, <1>4 DEF PhaseOf, HolderOf
  <1>6. PhaseOf(jobs[j]) = "attempting" /\ HolderOf(jobs[j]) # NoToken
    BY <1>1 DEF PhaseOf, HolderOf
  <1>7. p \in Contract!Ended \union {"waiting"}
    BY <1>2 DEF Contract!Ended
  <1>8. /\ JobPhase' = [JobPhase EXCEPT ![j] = PhaseOf(row)]
        /\ LeaseHolder' = [LeaseHolder EXCEPT ![j] = HolderOf(row)]
        /\ JobPhase[j] = PhaseOf(jobs[j]) /\ LeaseHolder[j] = HolderOf(jobs[j])
    BY <1>3, MapOneRow DEF StoreInv, StoreTypeOK
  <1>9. Contract!Finish(j, p)
    BY <1>5, <1>6, <1>8 DEF Contract!Finish
  <1> QED
    BY <1>7, <1>9

LEMMA JobLeaseExpiresMaps ==
  ASSUME StoreInv, NEW j \in Job, JobLeaseExpires(j)
  PROVE  Contract!Lapse(j)
  <1> DEFINE row == [jobs[j] EXCEPT !.lease = "expired"]
  <1>1. jobs[j] \in JobRow /\ jobs[j].lease = "live" /\ jobs[j].token # NoToken
    BY DEF StoreInv, StoreTypeOK, LeaseIffRunning, JobLeaseExpires
  <1>2. row.state = jobs[j].state /\ row.lease = "expired"
    BY <1>1 DEF JobRow
  <1>3. jobs' = [jobs EXCEPT ![j] = row]
    BY DEF JobLeaseExpires
  <1> HIDE DEF row
  <1>4. PhaseOf(row) = PhaseOf(jobs[j]) /\ HolderOf(row) = NoToken
    BY <1>2 DEF PhaseOf, HolderOf
  <1>5. HolderOf(jobs[j]) # NoToken
    BY <1>1 DEF HolderOf
  <1>6. JobPhase \in [Job -> {PhaseOf(jobs[k]) : k \in Job}]
    BY DEF JobPhase
  <1>7. /\ JobPhase' = [JobPhase EXCEPT ![j] = PhaseOf(row)]
        /\ LeaseHolder' = [LeaseHolder EXCEPT ![j] = HolderOf(row)]
        /\ JobPhase[j] = PhaseOf(jobs[j]) /\ LeaseHolder[j] = HolderOf(jobs[j])
    BY <1>3, MapOneRow DEF StoreInv, StoreTypeOK
  <1> QED
    BY <1>4, <1>5, <1>6, <1>7 DEF Contract!Lapse

LEMMA StoreStepMaps ==
  ASSUME StoreInv, [StoreNext]_storeVars
  PROVE  [Contract!ContractNext]_(Contract!contractVars)
  <1> USE DEF Contract!ContractNext, Contract!contractVars
  <1>1. CASE UNCHANGED jobs
    BY <1>1, MapUnchanged
  <1>2. ASSUME NEW j \in Job, AcceptJob(j) PROVE Contract!ContractNext
    BY <1>2, AcceptJobMaps
  <1>3. ASSUME NEW j \in Job, JobLeaseExpires(j) PROVE Contract!ContractNext
    BY <1>3, JobLeaseExpiresMaps
  <1>4. ASSUME NEW j \in Job, OutboxLeaseExpires(j)
        PROVE  UNCHANGED <<JobPhase, LeaseHolder>>
    BY <1>4, MapUnchanged DEF OutboxLeaseExpires
  <1>5. ASSUME NEW j \in Job, NEW t \in Token, ClientStep(j, t)
        PROVE  [Contract!ContractNext]_(Contract!contractVars)
    <2>1. CASE UNCHANGED jobs
      BY <2>1, MapUnchanged
    <2>2. ASSUME NEW v, ClaimJob(j, v, t) PROVE Contract!ContractNext
      BY <2>2, ClaimJobMaps
    <2>3. ASSUME NEW v, HeartbeatJobLease(j, v, t) PROVE UNCHANGED <<JobPhase, LeaseHolder>>
      BY <2>3, HeartbeatMaps
    <2>4. ASSUME NEW v, NEW next, NEW retryable \in BOOLEAN,
                 ApplyJobOutcome(j, v, t, next, retryable)
          PROVE  Contract!ContractNext
      BY <2>4, ApplyJobOutcomeMaps
    <2> QED
      BY <1>5, <2>1, <2>2, <2>3, <2>4
      DEF ClientStep, ClaimOutboxEvent, CompleteOutboxEvent, RecordProcessedEvent
  <1> QED
    BY <1>1, <1>2, <1>3, <1>4, <1>5
    DEF StoreNext, storeVars, PassGate, MatchNothing, ClaimOutboxBatch

LEMMA StoreInitMaps == StoreInit => Contract!ContractInit
  <1> SUFFICES ASSUME StoreInit PROVE Contract!ContractInit
    OBVIOUS
  <1>1. \A j \in Job : PhaseOf(jobs[j]) = "absent" /\ HolderOf(jobs[j]) = NoToken
    BY DEF StoreInit, AbsentJob, PhaseOf, HolderOf
  <1> QED
    BY <1>1 DEF JobPhase, LeaseHolder, Contract!ContractInit

\* Every history of the tables, under any clients, is a history of JobContract:
\* one holder at a time, taken over only after its lease lapsed, and only the
\* holder's outcome counts.
THEOREM StoreImplementsContract == StoreSpec => ImplementsContract
  <1>1. StoreInit => Contract!ContractInit
    BY StoreInitMaps
  <1>2. StoreInv /\ [StoreNext]_storeVars => [Contract!ContractNext]_(Contract!contractVars)
    BY StoreStepMaps
  <1> QED
    BY <1>1, <1>2, StoreAlwaysInv, PTL DEF StoreSpec, ImplementsContract, Contract!ContractSpec
-----------------------------------------------------------------------------
\* Two properties of every step.

\* Behind a closed fence calls end and none begins.
LEMMA FencedGate ==
  ASSUME [StoreNext]_storeVars, ~ExternalEffectsAllowed
  PROVE  admitted' \subseteq admitted
  <1>1. CASE UNCHANGED admitted
    BY <1>1
  <1>2. ASSUME NEW t \in Token, EndCall(t) PROVE admitted' \subseteq admitted
    BY <1>2 DEF EndCall
  <1>3. ASSUME NEW j \in Job, NEW t \in Token, ClientStep(j, t)
        PROVE  EndCall(t) \/ UNCHANGED admitted
    BY <1>3 DEF ClientStep, ClaimJob, HeartbeatJobLease, ApplyJobOutcome, ClaimOutboxEvent,
                CompleteOutboxEvent, RecordProcessedEvent
  <1> QED
    BY <1>1, <1>2, <1>3
    DEF StoreNext, storeVars, AcceptJob, JobLeaseExpires, OutboxLeaseExpires, PassGate,
        MatchNothing, ClaimOutboxBatch

\* Only the end of an admitted call claims, extends or closes a row, or leases
\* an event.
LEMMA FrozenStep ==
  ASSUME StoreInv, [StoreNext]_storeVars, admitted' = admitted, NEW j \in Accepted
  PROVE  /\ jobs'[j] \in {jobs[j], [jobs[j] EXCEPT !.lease = "expired"]}
         /\ outbox'[j].lease = "live" => outbox[j].lease = "live"
  <1> DEFINE Frozen == /\ jobs'[j] \in {jobs[j], [jobs[j] EXCEPT !.lease = "expired"]}
                       /\ outbox'[j].lease = "live" => outbox[j].lease = "live"
  <1>0. /\ j \in Job /\ outbox[j].state # "absent"
        /\ jobs \in [Job -> JobRow] /\ outbox \in [Job -> OutboxRow]
        /\ jobs[j].state # "absent"
    BY DEF Accepted, StoreInv, StoreTypeOK, LeaseIffRunning
  <1>1. CASE UNCHANGED <<jobs, outbox>>
    BY <1>1
  <1>2. ASSUME NEW k \in Job, AcceptJob(k) PROVE Frozen
    <2>1. k # j
      BY <1>0, <1>2 DEF AcceptJob
    <2> QED
      BY <1>0, <1>2, <2>1 DEF AcceptJob
  <1>3. ASSUME NEW k \in Job, JobLeaseExpires(k) PROVE Frozen
    <2>1. jobs' = [jobs EXCEPT ![k] = [jobs[k] EXCEPT !.lease = "expired"]]
      BY <1>3 DEF JobLeaseExpires
    <2> QED
      BY <1>0, <1>3, <2>1 DEF JobLeaseExpires
  <1>4. ASSUME NEW k \in Job, OutboxLeaseExpires(k) PROVE Frozen
    <2>1. outbox' = [outbox EXCEPT ![k] = [outbox[k] EXCEPT !.lease = "expired"]]
      BY <1>4 DEF OutboxLeaseExpires
    <2> QED
      BY <1>0, <1>4, <2>1 DEF OutboxLeaseExpires, OutboxRow
  <1>5. \A t : ~EndCall(t)
    BY DEF EndCall
  <1>6. ASSUME NEW k \in Job, NEW t \in Token, ClientStep(k, t) PROVE Frozen
    <2>1. CASE CompleteOutboxEvent(k, t)
      BY <1>0, <2>1 DEF CompleteOutboxEvent, OutboxRow
    <2>2. CASE RecordProcessedEvent(k)
      BY <2>2 DEF RecordProcessedEvent
    <2> QED
      BY <1>5, <1>6, <2>1, <2>2
      DEF ClientStep, ClaimJob, HeartbeatJobLease, ApplyJobOutcome, ClaimOutboxEvent
  <1> QED
    BY <1>1, <1>2, <1>3, <1>4, <1>5, <1>6
    DEF StoreNext, storeVars, PassGate, MatchNothing, ClaimOutboxBatch

\* While a restore epoch is reconciling nobody is admitted, and no row moves
\* but at the end of a call admitted before.
THEOREM FenceFreezesRows == StoreSpec => FencedRowsFrozen
  <1>1. StoreInv /\ [StoreNext]_storeVars =>
          [~ExternalEffectsAllowed =>
             /\ admitted' \subseteq admitted
             /\ admitted' = admitted =>
                  \A j \in Accepted :
                    /\ jobs'[j] \in {jobs[j], [jobs[j] EXCEPT !.lease = "expired"]}
                    /\ outbox'[j].lease = "live" => outbox[j].lease = "live"]_storeVars
    BY FencedGate, FrozenStep
  <1> QED
    BY <1>1, StoreAlwaysInv, PTL DEF StoreSpec, FencedRowsFrozen

LEMMA VersionStep ==
  ASSUME StoreInv, [StoreNext]_storeVars, NEW j \in Job,
         [jobs'[j] EXCEPT !.lease = jobs[j].lease] # jobs[j]
  PROVE  jobs'[j].version = jobs[j].version + 1 /\ jobs[j].state \notin TerminalState
  <1> DEFINE Counted == /\ jobs'[j].version = jobs[j].version + 1
                        /\ jobs[j].state \notin TerminalState
  <1>0. jobs \in [Job -> JobRow] /\ jobs[j] \in JobRow
    BY DEF StoreInv, StoreTypeOK
  <1>1. jobs'[j] # jobs[j]
    BY <1>0 DEF JobRow
  <1>2. ASSUME NEW k \in Job, AcceptJob(k) PROVE Counted
    <2> DEFINE row == [AbsentJob EXCEPT !.state = "queued", !.version = 1]
    <2>1. jobs' = [jobs EXCEPT ![k] = row] /\ k = j
      BY <1>0, <1>1, <1>2 DEF AcceptJob
    <2>2. row.version = 1
      BY DEF AbsentJob
    <2>3. jobs[j].state = "absent" /\ jobs[j].version = 0
      BY <1>2, <2>1 DEF AcceptJob, StoreInv, LeaseIffRunning
    <2> QED
      BY <1>0, <2>1, <2>2, <2>3 DEF TerminalState
  <1>3. ASSUME NEW k \in Job, JobLeaseExpires(k) PROVE FALSE
    <2>1. jobs'[j] = [jobs[j] EXCEPT !.lease = "expired"]
      BY <1>0, <1>1, <1>3 DEF JobLeaseExpires
    <2> QED
      BY <1>0, <2>1 DEF JobRow
  <1>4. ASSUME NEW k \in Job, NEW t \in Token, ClientStep(k, t) PROVE Counted
    <2>1. ASSUME NEW v, ClaimJob(k, v, t) PROVE Counted
      BY <1>0, <1>1, <2>1 DEF ClaimJob, Claimable, UpdateJob, TerminalState, JobRow
    <2>2. ASSUME NEW v, HeartbeatJobLease(k, v, t) PROVE Counted
      BY <1>0, <1>1, <2>2 DEF HeartbeatJobLease, HeldBy, UpdateJob, TerminalState, JobRow
    <2>3. ASSUME NEW v, NEW next, NEW retryable, ApplyJobOutcome(k, v, t, next, retryable)
          PROVE  Counted
      BY <1>0, <1>1, <2>3 DEF ApplyJobOutcome, HeldBy, UpdateJob, TerminalState, JobRow
    <2> QED
      BY <1>1, <1>4, <2>1, <2>2, <2>3
      DEF ClientStep, ClaimOutboxEvent, CompleteOutboxEvent, RecordProcessedEvent
  <1> QED
    BY <1>1, <1>2, <1>3, <1>4
    DEF StoreNext, storeVars, OutboxLeaseExpires, PassGate, MatchNothing, ClaimOutboxBatch

\* A job row changes only together with its version, by one, and never once it
\* is terminal: a compare-and-set on the version names one writer.
THEOREM VersionsCountWrites == StoreSpec => VersionsIncrease
  <1>1. StoreInv /\ [StoreNext]_storeVars =>
          [\A j \in Job : [jobs'[j] EXCEPT !.lease = jobs[j].lease] # jobs[j]
             => /\ jobs'[j].version = jobs[j].version + 1
                /\ jobs[j].state \notin TerminalState]_storeVars
    BY VersionStep
  <1> QED
    BY <1>1, StoreAlwaysInv, PTL DEF StoreSpec, VersionsIncrease

-----------------------------------------------------------------------------
LEMMA AcceptedRow ==
  ASSUME StoreInv, NEW j \in Accepted
  PROVE  /\ j \in Job /\ jobs[j] \in JobRow /\ jobs[j].state \in JobState
         /\ (jobs[j].state = "running") <=> (jobs[j].lease # "none")
  BY DEF StoreInv, StoreTypeOK, LeaseIffRunning, Accepted, JobRow

\* The Worker's decideJobLease and the UPDATE of claim_job agree on every row
\* of every reachable state.
THEOREM PolicyAgreesWithClaim == StoreSpec => []LeasePolicyMatchesClaim
  <1>1. ASSUME StoreInv, NEW j \in Accepted, jobs[j].attempts < MaxAttempts
        PROVE  DecideJobLease(jobs[j].state, jobs[j].lease, jobs[j].lease = "expired") = "acquire"
                 <=> Claimable(j, jobs[j].version)
    <2>0. /\ jobs[j].state \in JobState /\ jobs[j].lease \in LeaseState
          /\ (jobs[j].state = "running") <=> (jobs[j].lease # "none")
      BY <1>1, AcceptedRow DEF JobRow
    <2>1. CASE jobs[j].state \in TerminalState
      BY <2>1 DEF DecideJobLease, Claimable, TerminalState
    <2>2. CASE jobs[j].state = "queued"
      BY <1>1, <2>2 DEF DecideJobLease, Claimable, TerminalState
    <2>3. CASE jobs[j].state = "running" /\ jobs[j].lease = "live"
      BY <2>3 DEF DecideJobLease, Claimable, TerminalState
    <2>4. CASE jobs[j].state = "running" /\ jobs[j].lease = "expired"
      BY <1>1, <2>4 DEF DecideJobLease, Claimable, TerminalState
    <2> QED
      BY <2>0, <2>1, <2>2, <2>3, <2>4 DEF JobState, LeaseState
  <1>2. StoreInv => LeasePolicyMatchesClaim
    BY <1>1 DEF LeasePolicyMatchesClaim
  <1> QED
    BY <1>2, StoreAlwaysInv, PTL
\* The trigger guard_jobs lets through every transition the Worker's policy
\* applies, whatever the row and the attempt's result.
THEOREM PolicyNeverRollsBack == StoreSpec => []PolicyWithinGuard
  <1>1. ASSUME StoreInv, NEW j \in Accepted, NEW next \in JobState, NEW retryable \in BOOLEAN,
               EvaluateJobTransition(jobs[j].state, next, jobs[j].version, jobs[j].version,
                                     retryable) = "apply"
        PROVE  GuardJobs(jobs[j], [jobs[j] EXCEPT !.state = next, !.version = @ + 1, !.token = NoToken])
    <2>1. jobs[j] \in JobRow /\ jobs[j].state \in JobState
      BY <1>1 DEF StoreInv, StoreTypeOK, LeaseIffRunning, Accepted, JobRow
    <2>2. PICK version \in Nat : version = jobs[j].version + 1 /\ version >= jobs[j].version
      BY <2>1 DEF JobRow
    <2>3. PICK new : new = [jobs[j] EXCEPT !.state = next, !.version = version, !.token = NoToken]
      OBVIOUS
    <2>4. new.state = next /\ new.version = version
      BY <2>1, <2>3 DEF JobRow
    <2>5. jobs[j].state \notin TerminalState /\ LegalTransition(jobs[j].state, next, retryable)
      BY <1>1 DEF EvaluateJobTransition
    <2>6. jobs[j].state = "queued" => next = "running"
      BY <2>5 DEF LegalTransition
    <2>7. jobs[j].state = "running" => next \in {"running", "queued"} \union TerminalState
      BY DEF JobState
    <2>8. GuardJobs(jobs[j], new)
      BY <2>2, <2>4, <2>5, <2>6, <2>7 DEF GuardJobs
    <2> QED
      BY <2>2, <2>3, <2>8
  <1>2. StoreInv => PolicyWithinGuard
    BY <1>1 DEF PolicyWithinGuard
  <1>3. StoreSpec => []StoreInv
    BY StoreInvariant, PTL DEF StoreInv
  <1> QED
    BY <1>2, <1>3, PTL

-----------------------------------------------------------------------------
\* Epochs open in ascending order, one at a time: the one that is reconciling
\* is the latest of all, and the released ones have a latest.
FenceOrder ==
  /\ FenceTypeOK
  /\ \A e, f \in Epoch : fences[e] = "reconciling" /\ fences[f] # "absent" => f <= e
  /\ \/ \A e \in Epoch : fences[e] # "released"
     \/ \E e \in Epoch : /\ fences[e] = "released"
                         /\ \A f \in Epoch : fences[f] = "released" => f <= e

LEMMA FenceOrderStep ==
  ASSUME FenceOrder, FenceStep
  PROVE  FenceOrder'
  <1>1. ASSUME NEW e \in Epoch, BeginRestoreFence(e) PROVE FenceOrder'
    <2>1. /\ fences' = [fences EXCEPT ![e] = "reconciling"] /\ fences[e] = "absent"
          /\ \A f \in Epoch : fences[f] # "reconciling"
          /\ \A f \in Epoch : fences[f] # "absent" => f < e
      BY <1>1 DEF BeginRestoreFence, EpochsIn, FenceOrder, FenceTypeOK, FenceState
    <2>2. FenceTypeOK'
      BY <2>1 DEF FenceOrder, FenceTypeOK, FenceState
    <2>3. /\ \A f \in Epoch : f # e => fences'[f] = fences[f]
          /\ fences'[e] = "reconciling"
      BY <2>1 DEF FenceOrder, FenceTypeOK
    <2>4. e \in Int /\ \A f \in Epoch : f \in Int
      BY DEF Epoch
    <2> QED
      BY <2>1, <2>2, <2>3, <2>4 DEF FenceOrder
  <1>2. ASSUME NEW e \in Epoch, CompleteRestoreFence(e) PROVE FenceOrder'
    <2>1. fences' = [fences EXCEPT ![e] = "released"] /\ fences[e] = "reconciling"
      BY <1>2 DEF CompleteRestoreFence
    <2>2. FenceTypeOK'
      BY <2>1 DEF FenceOrder, FenceTypeOK, FenceState
    <2>3. /\ \A f \in Epoch : f # e => fences'[f] = fences[f]
          /\ fences'[e] = "released"
      BY <2>1 DEF FenceOrder, FenceTypeOK
    <2>4. e \in Int /\ \A f \in Epoch : f \in Int
      BY DEF Epoch
    <2>5. \A f \in Epoch : fences[f] # "absent" => f <= e
      BY <2>1 DEF FenceOrder
    <2>6. \A f \in Epoch : fences[f] = "reconciling" => f = e
      BY <2>1, <2>4, <2>5 DEF FenceOrder
    <2> QED
      BY <2>1, <2>2, <2>3, <2>4, <2>5, <2>6 DEF FenceOrder
  <1> QED
    BY <1>1, <1>2 DEF FenceStep

\* The latest of a set that has one.
LEMMA LatestIs ==
  ASSUME NEW S \in SUBSET Epoch, NEW m \in S, \A f \in S : f <= m
  PROVE  LatestOf(S) = m
  <1>1. PICK x : x = CHOOSE e \in S : \A f \in S : f <= e
    OBVIOUS
  <1>2. x \in S /\ \A f \in S : f <= x
    BY <1>1
  <1>3. x = m
    BY <1>2 DEF Epoch
  <1> QED
    BY <1>1, <1>3 DEF LatestOf

LEMMA OrderDiverges ==
  ASSUME FenceOrder, NEW e \in Epoch, fences[e] = "reconciling"
  PROVE  ~FenceReadable(ReadRestoreFence)
  <1>1. PICK known, released \in SUBSET Epoch :
          /\ known = EpochsIn({"reconciling", "released"})
          /\ released = EpochsIn({"released"})
    BY DEF EpochsIn
  <1>2. e \in known /\ e \notin released /\ \A f \in known : f <= e
    BY <1>1 DEF EpochsIn, FenceOrder
  <1>3. LatestOf(known) = e
    BY <1>2, LatestIs
  <1>4. LatestOf(released) = NoEpoch \/ LatestOf(released) \in released
    <2>1. CASE released = {}
      BY <2>1 DEF LatestOf
    <2>2. CASE released # {}
      <3>1. PICK m \in released : \A f \in released : f <= m
        BY <1>1, <2>2 DEF FenceOrder, EpochsIn
      <3> QED
        BY <3>1, LatestIs
    <2> QED
      BY <2>1, <2>2
  <1>5. ReadRestoreFence.expected = e /\ ReadRestoreFence.consumer = LatestOf(released)
    BY <1>1, <1>2, <1>3 DEF ReadRestoreFence
  <1> QED
    BY <1>2, <1>4, <1>5 DEF FenceReadable

\* With nothing reconciling the known epochs are the released ones, so the
\* two numbers of the snapshot are one.
LEMMA SettledAgrees ==
  ASSUME FenceOrder, EpochsIn({"reconciling"}) = {}
  PROVE  FenceReadable(ReadRestoreFence)
  <1>1. EpochsIn({"reconciling", "released"}) = EpochsIn({"released"})
    BY DEF EpochsIn
  <1>2. CASE EpochsIn({"released"}) = {}
    BY <1>1, <1>2 DEF FenceReadable, ReadRestoreFence, NoEpoch
  <1>3. CASE EpochsIn({"released"}) # {}
    <2>1. PICK released \in SUBSET Epoch : released = EpochsIn({"released"})
      BY DEF EpochsIn
    <2>2. PICK m \in released : \A f \in released : f <= m
      BY <1>3, <2>1 DEF FenceOrder, EpochsIn
    <2>3. LatestOf(released) = m /\ m # NoEpoch
      BY <2>1, <2>2, LatestIs DEF Epoch, NoEpoch
    <2>4. ReadRestoreFence.expected = m /\ ReadRestoreFence.consumer = m
      BY <1>1, <1>3, <2>1, <2>3 DEF ReadRestoreFence
    <2> QED
      BY <2>3, <2>4 DEF FenceReadable
  <1> QED
    BY <1>2, <1>3

LEMMA OrderAgrees == FenceOrder => ReadersAgree
  <1> SUFFICES ASSUME FenceOrder PROVE ReadersAgree
    OBVIOUS
  <1>1. ExternalEffectsAllowed <=> EpochsIn({"reconciling"}) = {}
    BY DEF ExternalEffectsAllowed, ReadRestoreFence
  <1>2. CASE EpochsIn({"reconciling"}) = {}
    BY <1>1, <1>2, SettledAgrees DEF ReadersAgree
  <1>3. CASE EpochsIn({"reconciling"}) # {}
    <2>1. PICK e \in Epoch : fences[e] = "reconciling"
      BY <1>3 DEF EpochsIn
    <2> QED
      BY <1>1, <1>3, <2>1, OrderDiverges DEF ReadersAgree
  <1> QED
    BY <1>2, <1>3

\* The Worker, which compares epochs, and the SQL gate, which reads states,
\* see the same fence after any number of restores: neither opens or closes
\* without the other.
THEOREM FenceReadersAgree == StoreSpec => []ReadersAgree
  <1>1. StoreInit => FenceOrder
    BY DEF StoreInit, FenceInit, FenceOrder, FenceTypeOK, FenceState
  <1>2. FenceOrder /\ [StoreNext]_storeVars => FenceOrder'
    <2> SUFFICES ASSUME FenceOrder, [StoreNext]_storeVars PROVE FenceOrder'
      OBVIOUS
    <2>1. CASE FenceStep
      BY <2>1, FenceOrderStep
    <2>2. CASE UNCHANGED fences
      BY <2>2 DEF FenceOrder, FenceTypeOK
    <2>3. CASE \E t \in Token : PassGate(t) \/ MatchNothing(t) \/ ClaimOutboxBatch(t)
      BY <2>2, <2>3 DEF PassGate, MatchNothing, ClaimOutboxBatch
    <2>4. CASE \E j \in Job : AcceptJob(j) \/ JobLeaseExpires(j) \/ OutboxLeaseExpires(j)
      BY <2>2, <2>4 DEF AcceptJob, JobLeaseExpires, OutboxLeaseExpires
    <2>5. ASSUME NEW j \in Job, NEW t \in Token, ClientStep(j, t) PROVE UNCHANGED fences
      <3>1. ASSUME NEW v, ClaimJob(j, v, t) \/ HeartbeatJobLease(j, v, t) PROVE UNCHANGED fences
        BY <3>1 DEF ClaimJob, HeartbeatJobLease, UpdateJob
      <3>2. ASSUME NEW v, NEW next, NEW retryable, ApplyJobOutcome(j, v, t, next, retryable)
            PROVE  UNCHANGED fences
        BY <3>2 DEF ApplyJobOutcome, UpdateJob
      <3>3. ASSUME ClaimOutboxEvent(j, t) \/ CompleteOutboxEvent(j, t) \/ RecordProcessedEvent(j)
            PROVE  UNCHANGED fences
        BY <3>3 DEF ClaimOutboxEvent, CompleteOutboxEvent, RecordProcessedEvent
      <3> QED
        BY <2>5, <3>1, <3>2, <3>3 DEF ClientStep
    <2>6. CASE UNCHANGED storeVars
      BY <2>2, <2>6 DEF storeVars
    <2> QED
      BY <2>1, <2>2, <2>3, <2>4, <2>5, <2>6 DEF StoreNext
  <1> QED
    BY <1>1, <1>2, OrderAgrees, PTL DEF StoreSpec
=============================================================================
