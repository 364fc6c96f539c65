------------------------------- MODULE JobStore -------------------------------
(***************************************************************************)
(* The canonical job authority: tables jobs, outbox_events and             *)
(* processed_events behind the SQL functions of platform_private.  Next    *)
(* lets any number of service clients call any function with any           *)
(* arguments, at any time, so what holds here holds whatever the Workers   *)
(* above do.                                                               *)
(*                                                                         *)
(* A function that writes one statement's worth of rows is one step.  The  *)
(* four that ask external_effects_allowed() first are two: the question    *)
(* and the UPDATE are two statements, under READ COMMITTED each sees the   *)
(* database as of its own start, and neither locks the fence.              *)
(*                                                                         *)
(* Wall-clock time appears only through the comparison of a lease_until    *)
(* with now(): a lease is "live" until an expiry step makes it "expired".  *)
(***************************************************************************)
EXTENDS RestoreFence, JobPolicy, FiniteSets

CONSTANTS Job,          \* job identifiers; each has one job.requested event
          Token,        \* lease tokens (random UUIDs)
          NoToken,      \* SQL null
          MaxAttempts,  \* length limit of jobs.attempts (32)
          BatchSize,    \* rows one outbox sweep claims
          MaxVersion    \* bound: clients stop sending heartbeats here

ASSUME StoreAssumption ==
  /\ NoToken \notin Token
  /\ MaxAttempts \in Nat \ {0}
  /\ BatchSize \in Nat \ {0}
  /\ MaxVersion \in Nat
  /\ IsFiniteSet(Job)

VARIABLES
  jobs, outbox, processed,  \* the tables
  admitted  \* lease tokens of the calls that found the gate open, not yet ended

storeVars == <<fences, jobs, outbox, processed, admitted>>

JobRow == [state : JobState \union {"absent"}, version : Nat,
           token : Token \union {NoToken}, lease : LeaseState, attempts : Nat]
OutboxRow == [state : {"absent", "pending", "dispatched"},
              token : Token \union {NoToken}, lease : LeaseState, rank : Nat]

AbsentJob == [state |-> "absent", version |-> 0, token |-> NoToken,
              lease |-> "none", attempts |-> 0]
AbsentEvent == [state |-> "absent", token |-> NoToken, lease |-> "none", rank |-> 0]

StoreTypeOK ==
  /\ FenceTypeOK
  /\ jobs \in [Job -> JobRow]
  /\ outbox \in [Job -> OutboxRow]
  /\ processed \subseteq Job
  /\ admitted \subseteq Token

StoreInit ==
  /\ FenceInit
  /\ jobs = [j \in Job |-> AbsentJob]
  /\ outbox = [j \in Job |-> AbsentEvent]
  /\ processed = {}
  /\ admitted = {}

Accepted == {j \in Job : outbox[j].state # "absent"}

\* Every job.requested event carries the version its job was accepted with.
EventVersion == 1

-----------------------------------------------------------------------------
\* Mutant: a gate that takes every fence for a settled one.
PassAnyGate(t) ==
  /\ admitted' = admitted \union {t}
  /\ UNCHANGED <<fences, jobs, outbox, processed>>

\* The first statement of a gated function, on behalf of token t.
PassGate(t) ==
  /\ ExternalEffectsAllowed
  /\ admitted' = admitted \union {t}
  /\ UNCHANGED <<fences, jobs, outbox, processed>>

\* The rest of it: whatever has become of the fence since.
EndCall(t) == t \in admitted /\ admitted' = admitted \ {t}

\* ... when no row matches, or the transaction is rolled back.
MatchNothing(t) == EndCall(t) /\ UNCHANGED <<fences, jobs, outbox, processed>>

\* Mutant: the trigger forgets that a running job may be cancelled.
GuardJobsNoCancel(old, new) ==
  /\ new.version >= old.version
  /\ old.state \in TerminalState => new.state = old.state /\ new.token = old.token
  /\ old.state = "queued" => new.state \in {"queued", "running", "cancelled"}
  /\ old.state = "running" => new.state \in {"running", "queued", "succeeded", "failed"}

\* The trigger guard_jobs: an update it rejects rolls the transaction back.
GuardJobs(old, new) ==
  /\ new.version >= old.version
  /\ old.state \in TerminalState => new.state = old.state /\ new.token = old.token
  /\ old.state = "queued" => new.state \in {"queued", "running", "cancelled"}
  /\ old.state = "running" => new.state \in {"running", "queued"} \union TerminalState

UpdateJob(j, new) ==
  /\ GuardJobs(jobs[j], new)
  /\ jobs' = [jobs EXCEPT ![j] = new]
  /\ UNCHANGED <<fences, outbox, processed>>

\* accept_job_with_outbox: the job and its event appear in one transaction.
AcceptJob(j) ==
  /\ jobs[j].state = "absent"
  /\ jobs' = [jobs EXCEPT ![j] = [AbsentJob EXCEPT !.state = "queued", !.version = 1]]
  /\ outbox' = [outbox EXCEPT ![j] = [AbsentEvent EXCEPT
                  !.state = "pending", !.rank = Cardinality(Accepted)]]
  /\ UNCHANGED <<fences, processed, admitted>>

\* Mutants: the UPDATE of claim_job without its version, and with a lease test
\* that leaves expired leases alone.
ClaimableAnyVersion(j, expected) ==
  /\ jobs[j].attempts < MaxAttempts
  /\ \/ jobs[j].state = "queued"
     \/ jobs[j].state = "running" /\ jobs[j].lease # "live"

ClaimableUnleased(j, expected) ==
  /\ jobs[j].version = expected
  /\ jobs[j].attempts < MaxAttempts
  /\ \/ jobs[j].state = "queued"
     \/ jobs[j].state = "running" /\ jobs[j].lease = "none"

\* claim_job: the rows its UPDATE matches.
Claimable(j, expected) ==
  /\ jobs[j].version = expected
  /\ jobs[j].attempts < MaxAttempts
  /\ \/ jobs[j].state = "queued"
     \/ jobs[j].state = "running" /\ jobs[j].lease # "live"

ClaimJob(j, expected, t) ==
  /\ EndCall(t)
  /\ Claimable(j, expected)
  /\ UpdateJob(j, [jobs[j] EXCEPT !.state = "running", !.version = @ + 1,
                     !.token = t, !.lease = "live", !.attempts = @ + 1])

\* Mutant: an outcome accepted from an expired lease.
HeldByExpired(j, expected, t) ==
  /\ jobs[j].version = expected
  /\ jobs[j].state = "running"
  /\ jobs[j].token = t

\* The rows that both the heartbeat and the outcome UPDATE match: the caller
\* holds the lease of the current version, and it has not expired.
HeldBy(j, expected, t) ==
  /\ jobs[j].version = expected
  /\ jobs[j].state = "running"
  /\ jobs[j].token = t
  /\ jobs[j].lease = "live"

\* Mutant: the heartbeat does not ask whether a restore is in progress.
HeartbeatUngated(j, expected, t) ==
  /\ HeldBy(j, expected, t)
  /\ UpdateJob(j, [jobs[j] EXCEPT !.version = @ + 1])
  /\ UNCHANGED admitted

HeartbeatJobLease(j, expected, t) ==
  /\ EndCall(t)
  /\ HeldBy(j, expected, t)
  /\ UpdateJob(j, [jobs[j] EXCEPT !.version = @ + 1])

\* apply_job_outcome: a retryable failure is written as 'queued'.
OutcomeTarget(next, retryable) ==
  IF next = "failed" /\ retryable THEN "queued" ELSE next

ValidOutcome(next, retryable) ==
  /\ next \in TerminalState \union {"queued"}
  /\ next = "queued" => retryable

ApplyJobOutcome(j, expected, t, next, retryable) ==
  /\ ValidOutcome(next, retryable)
  /\ EndCall(t)
  /\ HeldBy(j, expected, t)
  /\ UpdateJob(j, [jobs[j] EXCEPT !.state = OutcomeTarget(next, retryable),
                     !.version = @ + 1, !.token = NoToken, !.lease = "none"])

JobLeaseExpires(j) ==
  /\ jobs[j].lease = "live"
  /\ jobs' = [jobs EXCEPT ![j].lease = "expired"]
  /\ UNCHANGED <<fences, outbox, processed, admitted>>

-----------------------------------------------------------------------------
\* Mutant: an expired lease keeps its row from later sweeps.
SweepableUnleased == {j \in Job : outbox[j].state = "pending" /\ outbox[j].lease = "none"}

\* claim_outbox_batch: the oldest undispatched rows without a live lease.
Sweepable == {j \in Job : outbox[j].state = "pending" /\ outbox[j].lease # "live"}

OldestOf(S) ==
  {j \in S : Cardinality({k \in S : outbox[k].rank < outbox[j].rank}) < BatchSize}

OutboxBatch == OldestOf(Sweepable)

ClaimOutboxBatch(t) ==
  /\ EndCall(t)
  /\ outbox' = [j \in Job |->
       IF j \in OutboxBatch THEN [outbox[j] EXCEPT !.token = t, !.lease = "live"]
                            ELSE outbox[j]]
  /\ UNCHANGED <<fences, jobs, processed>>

\* claim_outbox_event: the same lease on one row, chosen by its caller.
ClaimOutboxEvent(j, t) ==
  /\ EndCall(t)
  /\ j \in Sweepable
  /\ outbox' = [outbox EXCEPT ![j] = [@ EXCEPT !.token = t, !.lease = "live"]]
  /\ UNCHANGED <<fences, jobs, processed>>

\* complete_outbox_event: not fenced, but the lease must still be the caller's.
Completable(j, t) ==
  outbox[j].state = "pending" /\ outbox[j].token = t /\ outbox[j].lease = "live"

CompleteOutboxEvent(j, t) ==
  /\ Completable(j, t)
  /\ outbox' = [outbox EXCEPT ![j] =
       [@ EXCEPT !.state = "dispatched", !.token = NoToken, !.lease = "none"]]
  /\ UNCHANGED <<fences, jobs, processed, admitted>>

OutboxLeaseExpires(j) ==
  /\ outbox[j].lease = "live"
  /\ outbox' = [outbox EXCEPT ![j].lease = "expired"]
  /\ UNCHANGED <<fences, jobs, processed, admitted>>

\* record_processed_event: insert ... on conflict do nothing.
RecordProcessedEvent(j) ==
  /\ processed' = processed \union {j}
  /\ UNCHANGED <<fences, jobs, outbox, admitted>>

-----------------------------------------------------------------------------
\* A service client may present any version and any token it once saw.
ClientStep(j, t) ==
  \/ \E v \in 1..jobs[j].version :
       \/ ClaimJob(j, v, t)
       \/ jobs[j].version < MaxVersion /\ HeartbeatJobLease(j, v, t)
       \/ \E next \in JobState, retryable \in BOOLEAN :
            ApplyJobOutcome(j, v, t, next, retryable)
  \/ ClaimOutboxEvent(j, t)
  \/ CompleteOutboxEvent(j, t)
  \/ j \in Accepted /\ RecordProcessedEvent(j)

StoreNext ==
  \/ FenceStep /\ UNCHANGED <<jobs, outbox, processed, admitted>>
  \/ \E t \in Token : PassGate(t) \/ MatchNothing(t) \/ ClaimOutboxBatch(t)
  \/ \E j \in Job :
       \/ AcceptJob(j)
       \/ JobLeaseExpires(j)
       \/ OutboxLeaseExpires(j)
       \/ \E t \in Token : ClientStep(j, t)

StoreSpec == StoreInit /\ [][StoreNext]_storeVars

-----------------------------------------------------------------------------
\* The contract this store keeps with whoever runs the jobs.
PhaseOf(row) ==
  CASE row.state = "queued"  -> "waiting"
    [] row.state = "running" -> "attempting"
    [] OTHER                 -> row.state
HolderOf(row) == IF row.lease = "live" THEN row.token ELSE NoToken

JobPhase == [j \in Job |-> PhaseOf(jobs[j])]
LeaseHolder == [j \in Job |-> HolderOf(jobs[j])]

Contract == INSTANCE JobContract WITH phase <- JobPhase, holder <- LeaseHolder

\* Every history of the tables is a history of JobContract: one holder at a
\* time, taken over only after it lapsed, and only a holder's outcome counts.
ImplementsContract == Contract!ContractSpec

\* A job row and the event that announces it are accepted together, and a
\* row carries a lease exactly while it is running: the Worker dead-letters
\* a running row whose lease_until is null (decideJobLease), so one written
\* without its lease could never be resumed.
LeaseIffRunning ==
  \A j \in Job :
    /\ jobs[j].state = "absent" <=> outbox[j].state = "absent"
    /\ jobs[j].state = "absent" => jobs[j].version = 0
    /\ (jobs[j].state = "running") <=> (jobs[j].lease # "none")
    /\ (jobs[j].state = "running") <=> (jobs[j].token # NoToken)

\* The Worker's lease policy, given the database's own reading of the clock,
\* acquires exactly the rows that claim_job's UPDATE would match.
LeasePolicyMatchesClaim ==
  \A j \in Accepted :
    jobs[j].attempts < MaxAttempts =>
      (DecideJobLease(jobs[j].state, jobs[j].lease, jobs[j].lease = "expired") = "acquire"
         <=> Claimable(j, jobs[j].version))

\* Whatever transition the Worker's policy decides to apply, the trigger
\* guard_jobs accepts: an effect's result is never lost to a rollback.
PolicyWithinGuard ==
  \A j \in Accepted, next \in JobState, retryable \in BOOLEAN :
    EvaluateJobTransition(jobs[j].state, next, jobs[j].version, jobs[j].version,
                          retryable) = "apply"
      => GuardJobs(jobs[j], [jobs[j] EXCEPT !.state = next, !.version = @ + 1,
                               !.token = NoToken])

\* While a restore epoch is reconciling nobody is admitted, and a job or event
\* that exists is claimed, extended, closed or leased only by a call that was
\* admitted before: when the last of them has ended, the rows are frozen.
FencedRowsFrozen ==
  [][~ExternalEffectsAllowed =>
       /\ admitted' \subseteq admitted
       /\ admitted' = admitted =>
            \A j \in Accepted :
              /\ jobs'[j] \in {jobs[j], [jobs[j] EXCEPT !.lease = "expired"]}
              /\ outbox'[j].lease = "live" => outbox[j].lease = "live"]_storeVars

\* A version number names one writer: two different outcomes are never
\* written over the same version of a job, and a terminal row is final.
VersionsIncrease ==
  [][\A j \in Job : [jobs'[j] EXCEPT !.lease = jobs[j].lease] # jobs[j]
       => /\ jobs'[j].version = jobs[j].version + 1
          /\ jobs[j].state \notin TerminalState]_storeVars
=============================================================================
