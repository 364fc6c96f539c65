# WeJammin: formal models of its state authority and Worker

This directory holds TLA+ models of the parts of WeJammin where steps of several
actors meet: jobs and their queue, idempotency, uploads, effects on external
providers, and claims on the ownership of a profile. It holds the TLC runs that
check them and theorems about them proved with TLAPS. Every module is translated
from the source; `PROJECT.json` maps each definition to its lines.

## The system

WeJammin is an Astro web application, a Hono API on a Cloudflare Worker, and a
PostgreSQL (Supabase) database that is the only authority for state. Commands
are SQL functions, called over PostgREST by the Worker with a service key. Work
that must outlive a request is a *job*: a row of `platform_private.jobs`
accepted together with an outbox event; a cron sweep sends the event to a
Cloudflare queue, and a queue consumer runs the job.

| Component | State it keeps | Operations | Status |
|---|---|---|---|
| Restore fence | `restore_fences`: one row per restore epoch, `reconciling` or `released` | begin, complete, read snapshot, gate | modelled |
| Job policy | none (pure) | lease, dispatch, transition and queue decisions | modelled, without envelope parsing |
| Canonical job store | `jobs`, `outbox_events`, `processed_events` | accept, claim, heartbeat, apply outcome, claim/complete outbox, record processed | modelled |
| Job queue consumer | locals of one invocation between its RPCs | read row, read fence, decide, claim, effect, apply, record | modelled |
| Outbox sweep | locals of one invocation: token, rows left | claim batch, send, complete | modelled |
| Queue and DLQ (Cloudflare) | messages and their delivery counts | deliver, ack, retry, dead-letter | external, modelled from its use |
| RPC transport | none | deadline of 15 s, unreadable answers, request errors | as faults |
| Production job effect | none | verify an object, or ask for manual review | what it may return; the verification itself in `UploadPipeline` |
| Job acceptance | `idempotency_records` of jobs | reserve, replay, accept | modelled |
| Idempotency expiry sweep | the expired ones among them | lock a batch, delete it | modelled |
| Upload admission | `upload_intents`, signed URLs, idempotency records | read key, sign, commit, compensate, replay | `createUploadIntent` modelled, without HTTP validation and authorization; the Worker's second implementation is not |
| Upload completion and verification | `object_records`, `upload_intents`, verification jobs | complete, recover, dispatch, claim, observe, finish | modelled, without authorization and rate limits |
| Provider effects | `provider_operations` and their attempts | create, mark pending, send, save, reconcile | modelled |
| Webhook receipts | `webhook_receipts` | accept, apply outcome | not modelled |
| Profile ownership claims | `claim_cases`, `claim_proof_attempts`, `party_ownership_periods` | start, challenge, prove, convert | modelled |
| Shadow records, invitations, remedies, portfolios, configuration | versioned rows | one-transaction commands | not modelled: no step spans two transactions |
| Schema migration worker | migration plans and chunks | claim, run, pause | not modelled: nothing in the program feeds it |
| AC-265 hosted verification | outage lease, run authorisations | acquire, consume, release | not modelled: single transactions |
| Account merge, identity | merge proposals and approvals | propose, approve, merge | not modelled |
| Release/recovery, offline, realtime, HTTP boundary, web | none | pure decisions, rendering | not modelled: no state |

How they interact. A client's command calls `accept_job_with_outbox`, which
inserts a job (version 1, `queued`) and its `job.requested` event (also version
1) in one transaction. Every minute `sweepOutbox` leases up to 25 pending events
with `claim_outbox_batch`, sends each to the queue and marks it with
`complete_outbox_event`. `orchestrateQueueMessage` takes a message, reads the
job and the fence in separate RPCs, decides, reads the fence again, claims the
job (`claim_job` raises its version and gives it a lease), runs the effect,
writes the outcome (`apply_job_outcome`), records the processed event, and
acknowledges. A restore operator inserts a fence row; until it is released the
gate `external_effects_allowed()` inside the SQL functions refuses claims,
heartbeats, outcomes and outbox leases, and the Worker refuses on its own side.

Uploads use the same authority. `createUploadIntent` signs a URL and then commits
object and intent; the client puts its bytes into Storage; `completeUpload`
observes them and commits (`complete_upload_intent` writes the object, a
verification job and an `object.uploaded` event), then sends the message itself;
`verifyUploadedObject` claims the object, observes the bytes again and writes a
verdict (`apply_object_verification`). Provider operations are rows claimed by
compare-and-swap (`markPending`), sent, and closed by the execution or, when the
answer is unknown, by `reconcileProviderOperation` from evidence. Ownership claims
are SQL commands alone: they share the rows of one party and no lock but theirs.

What is hard about it: every fact a consumer reads may be stale when it uses it;
messages are delivered at least once, and at most four times before the DLQ;
sends and marks, outcomes and processed records, signatures and commits are
separate calls; RPCs time out while their request runs on; isolates die; leases
expire under holders still at work; SQL functions run statement by statement, each
seeing the database at its own moment, and wait for rows that have changed when
the wait ends; a restore fence begins at any moment.

What makes each part correct:

* fence: at most one open fence, epochs only grow, the Worker's reading (epochs)
  and the SQL gate (states) never disagree about a restore;
* job store: one holder of a lease at a time, taken over only after expiry; only
  the current holder's outcome counts; versions name one writer; terminal is
  final; after a fence begins nobody new is let in;
* job Worker: an effect starts at most once per job and owns its row while it
  runs; outcomes come from effects; no accepted job is silently lost; everything
  pending is eventually sent;
* acceptance: one job per key while its record lives, replays name it, only a sweep
  of an expired record ends the binding, and one in use is not swept;
* uploads: no URL without an intent or an attempted revocation, and no intent with a
  revoked URL that is not reported as unavailable; an object is completed under one
  key and gets one verdict, which rests on an observation made during verification,
  `ready` on two that found the declared bytes; an accepted completion is recorded;
* provider effects: one sender, at most one effect, closed once and truthfully, by
  reconciliation when nobody works on it any more;
* ownership: one owner at a time from the first proof on, a history without gap or
  overlap, full control lost only to the conversion of a proven claim.

## Modules

| Module | Models | Uses |
|---|---|---|
| `RestoreFence` | the fence table, the snapshot, the gate and the Worker's two readings of it | |
| `JobPolicy` | the pure decisions of `packages/application/src/infrastructure/jobs` and `queueOutcome` | |
| `JobContract` | the abstract promise of a job: one holder, attempts may lapse, only the holder ends one | |
| `JobStore` | the job tables and their SQL functions, called by any client with any stale argument | `RestoreFence`, `JobPolicy`; refines `JobContract` |
| `JobRuntime` | consumers, sweeps, queue, DLQ, faults and late requests around the store | `JobStore`; refines `StoreSpec` |
| `JobAcceptance` | `accept_job_with_outbox` statement by statement, with its idempotency records and their sweep | |
| `UploadAdmission` | `createUploadIntent` and `create_upload_intent` | |
| `ObjectLifecycle` | the abstract promise of an object: uploaded once, judged once | |
| `ObjectStore` | objects, intents, verification jobs and completion records behind two SQL functions | `RestoreFence`; refines `ObjectLifecycle` |
| `UploadPipeline` | `completeUpload` and `verifyUploadedObject` around the store, with faults | `ObjectStore`; refines its `StoreSpec` |
| `EffectContract` | the abstract promise of a provider operation | |
| `ProviderEffects` | `executeProviderEffect`, the provider, `reconcileProviderOperation` | refines `EffectContract` |
| `OwnershipTitle` | the abstract promise of ownership: who controls a party and how far | |
| `OwnershipClaims` | claims, challenges and dated periods of one party under concurrent commands | refines `OwnershipTitle` |
| `*Proofs` (8 modules) | theorems about the module they are named after | |
| `MC*` | symmetry sets for TLC | |

Each component has one composite invariant (`RuntimeInv`, `AcceptanceInv`,
`AdmissionInv`, `StoreInv`, `PipelineInv`, `EffectInv`, `OwnershipInv`) that
includes its types; `JobStore`'s types are part of the proved `StoreInv` there.

### JobStore

`jobs[j]` has a state, a version, a lease token, a lease (`none`, `live`,
`expired`, which is how `lease_until` compares with `now()`) and the length of
`attempts`. `outbox[j]` is the one `job.requested` event of job `j`; its `rank` is its place in
`order by occurred_at, id`. `UpdateJob` runs every update through the trigger
`guard_jobs`. A client may present any version up to the present one and any
token (`ClientStep`), so nothing that holds here depends on the Worker. Two
limits the code does not have are `MaxVersion` (heartbeats stop there) and
`MaxEpoch`; `MaxAttempts` and `BatchSize` are the code's 32 and 25 made small.

A function that is one statement under row locks is one step. Five functions are
two: `claim_job`, `heartbeat_job_lease`, `apply_job_outcome`,
`claim_outbox_batch` and `claim_outbox_event` run `if not
external_effects_allowed() then return` and then an `UPDATE`. Under READ
COMMITTED (no migration sets another level) the second statement sees a newer
database than the first, and neither locks the fence. `PassGate(t)` is the first
statement and puts the call's token in `admitted`; `EndCall(t)`, inside each
gated action, is the second; `MatchNothing(t)` is the second statement when it
matches no row.

Abstracted here: formats and sizes of arguments, `result_ref`, `error_code`,
`progress`, audit events, the text in `attempts` (only its length counts). The
overload of `apply_job_outcome` without a token is revoked later in the same
migration and is not an operation. `now_at` is captured as a function starts; an
expiry step that comes a little later is the same history. `for update skip
locked` lets two sweeps share the pending rows; a row skipped because of a
transaction that then aborts is left to the next sweep, which the model does not
distinguish.

### JobRuntime

`consumer[c]` is one invocation of the queue handler on one message: its program
counter names the RPC it waits on, the other fields are the locals of
`orchestrateQueueMessage` and `executeJobDispatch`. The steps are `Receive`,
`ReadCanonicalJob`, `CheckDispatch` (the first fence read and both decisions),
`RecheckFence`, `CallPassesGate` and `Claim`, `EffectReturns` or
`EffectNeedsReview`, `CallPassesGate` and `ApplyOutcome`, `RecordProcessed`. The
canonical row is read twice in the code; the first read is only tested for null
and is one with the second here. A batch is processed message by message; a
killed isolate also costs the unstarted messages of its batch a delivery, which
other faults of the model already cover (each is a `Receive` and an interruption).

`sweep[s]` is one invocation of `sweepOutbox`: `BeginSweep` and `ClaimBatch` are
the two statements of `claim_outbox_batch`, then `SendRow` and `CompleteRow`
alternate. The order of `returning` is unspecified, so rows are sent in any
order. A row that is not completed ends the sweep, as in the code.

`queue[<<j, d>>]` counts messages for job `j` delivered `d` times; a retry of the
last delivery goes to `dlq`. Faults: an isolate dies or an RPC fails
(`ConsumerInterrupted`, `SweepInterrupted`), an answer cannot be read, which
acknowledges (`ConsumerUnreadable`), a lease runs out under its holder
(`LeaseOutlived`). An abandoned request stays in `late` and may pass the gate
(`LateRequestPassesGate`), take effect, or come to nothing (`LateRequest`) at any
later time. `started`, `produced`, `sent` and `reviewed` are history variables;
`reviewed` stands for the operator's record of a manual review.

### JobAcceptance

One transaction is `call[c]`; `JobStore` accepts a job in one step, here it takes
the statements of `accept_job_with_outbox`. `Reserve` is `insert ... on conflict do
nothing`, which waits for an uncommitted record of its key (`Reserving`) but locks
no record it conflicts with; `SelectForUpdate` locks what it finds, which may be
nothing; `Replay` and `Accept` end the call, `RollBack` undoes it. `records` holds
committed records only, each `completed`. `SweepLocks` takes the oldest due
records that nobody has locked (`for update skip locked`, at most `SweepLimit`);
`SweepDeletes` commits; `SweepAborts` (bounded by `MaxAborts`) is a sweep rolled
back. A record is due thirty days after it was written (`Expire`, at any time
here). Records of other commands, in the same table, are other keys; their
`claim_lease_until`, which only identity commands set, is left out.

### UploadAdmission

`request[r]` is one `createUploadIntent`, a step per await: read the record, sign,
commit, compensate. Object, intent and URL are made fresh by each request and go
by its name. `commits[r]` is the database call, which runs on when its caller
gives up (`CommitThrows`), as does the signer (`SignThrows` may leave a URL nobody
has; `SignUnbound` is a URL not bound to the object, which is revoked at once). Everything
`createUploadIntent` refuses before it reads the record is one refusal. A commit that
goes through after its caller gave up leaves an intent whose URL is revoked, and the
key's retries replay it; `RevokedIntentIsReported` says that the client of such a
request is told 503, the one answer that claims no outcome.

### ObjectStore and ObjectLifecycle

Every object has a row, an intent and, once uploaded, a verification job bound to
its event. `PassGate(c)` is the first statement of `complete_upload_intent` or
`apply_object_verification`; the rest of a call runs under row locks and is one
step. Callers bring any version; what was observed is `match` or `differs`, which
is all the functions tell apart about sizes, digests and types. The refinement
maps states to phases (`Phase`): `uploaded` and `verifying` are one phase.

### UploadPipeline

The callers of `ObjectStore`: `request[r]` is one `completeUpload`, `verifier[v]`
one `verifyUploadedObject`, `rpc[c]` a database call on its way. A call passes
the gate, runs, and is answered; a caller that gave up (`Abandon`) leaves it
running. A commit without a usable answer is ambiguous: `Recover` is
`cancelCompletion`, after which by its contract the commit is visible or can no
longer happen; it has a second (`RecoverTimesOut`). The request hash binds intent and
If-Match, so it is that version. Faults (lost answers, failing dependencies, deaths)
share `MaxFaults`.

`bytes[o]` is what Storage holds, as far as anybody can observe it. A signed upload is
a URL for a plain `PUT` until `expiresAt` (`storage/upload-storage.ts:15`): nothing in
the repository makes it single-use or conditional, so `PutBytes` may replace the bytes
any number of times until the URL lapses, also after completion observed them, while
a verifier looks, and after the verdict. The two observations of one object can
therefore differ. A verdict of `ready` is then refused by
`apply_object_verification` when completion saw other bytes, and a ready object may
hold bytes nobody verified; no property excludes either. What the code does give is
`VerdictsWitnessed`: `witnessed[o]`, a history variable, is what verifiers saw of the
object while its row was `verifying`, and every verdict rests on it, `ready` on a
matching observation of the verifier and of the completion, although calls outlive
the verifiers that sent them and versions move on in between.

### ProviderEffects and EffectContract

`execution[e]` is one `executeProviderEffect`, a step per await: read the row, mark
it pending by compare-and-swap, send, sleep and send again after a failure that
proves nothing was accepted, save. `call[e]` is the request at the provider, which
may act on it after its caller timed out (`Ambiguous`); `effects[o]` is what the
provider did. A write that throws (`Throws`) may have taken effect. A reconciler
reads the row and closes it with the verdict of its evidence. The adapter between
the TypeScript port and `apply_provider_operation_outcome` is not in the
repository: writes are those of the SQL function, versions those of the port.

### OwnershipClaims and OwnershipTitle

All claims are on one party; claims on another share none of its rows. A submit or
a convert that grants control is `call[c]`: it locks its claim (`Locked`), finds the
party's active period in its snapshot (`FindPeriod`), waits for the row and looks
again (`LockPeriod`; in READ COMMITTED a row that has ended is not found, nor is
the one that took its place), and commits proof, claim and period at once or rolls
back. `now` is its `now_at`, taken before any wait: any time since its claim last
changed (`CallTimes`), because a call served at a version read that version. The
exclusion constraint on live periods (`NoOverlap`) and the check `ends_at >
starts_at` (`InOrder`) are guards of the commit. A call that answers an error
without changing a row is no step. Dates are a small clock; a code is right or
wrong; attesters are the level their number and tier give.

## Runs

Every run finishes within 150 seconds on two workers.

| Run | Instance | Question and answer |
|---|---|---|
| `job_store` | 1 job, 2 tokens, 3 attempts, versions to 5, 2 epochs | Do policy, fence readings and SQL functions agree whatever clients call, and does a fence freeze the rows? Yes; and the tables implement `JobContract`. |
| `job_runtime` | 1 job, 2 consumers, 1 sweep, 4 tokens, 2 deliveries, 1 epoch, 2 faults | Is an effect started twice, an outcome invented or recorded early, a job lost, an effect started by a call admitted under a fence? No. Is a running effect ever overtaken, or a job attempted again? Neither (`EffectOwnsRow`, `AttemptedOnce`). |
| `job_runtime_live` | 1 consumer, 1 sweep, 1 fault | Is everything pending sent, every accepted job taken or shown to an operator? Yes, if restores end. |
| `job_acceptance` | 3 calls, 2 keys, 2 hashes, 2 sweeps of 1 record, 1 aborted sweep | Is a job accepted twice for a key, a replay answered with another request's job, a record in use or not yet due swept, an expired one left? No. |
| `upload_admission` | 3 requests, 1 key, 2 hashes | Is `created` answered without intent and URL, a URL left by a request that lost, or a URL revoked under a committed intent without the client being told 503? No. |
| `object_store` | 2 objects, 3 calls, 2 keys, 2 hashes, 2 epochs | Do the tables agree whatever versions callers bring, and does a fence freeze them? Yes; and they implement `ObjectLifecycle`. |
| `upload_pipeline` | 1 object, 2 calls, 1 key, versions {1, 2}, 2 requests, 1 verifier, 3 faults, 1 epoch | Is an accepted completion not recorded, an ambiguous commit not recovered, a verdict written that no observation during verification backs, although the client may put other bytes at any time? No. |
| `provider_effects` | 1 operation, 3 executions, 2 reconcilers, 3 sends, 3 attempts on record | Is a provider called by two executions, does it act twice, is an abandoned operation taken up by anyone but a reconciler, is one closed as what did not happen? No. |
| `ownership` | 2 claims, 2 persons, 1 method, 3 calls, time to 2 | Two owners, none, a gap, an overlap, control that moves without a conversion? No. |
| `expired_attempt` | as `job_runtime_live` | Is an expired attempt resumed? **No**, see below. |
| `retryable_failure` | no faults | Is a retryable failure retried? **No**, see below. |
| `expired_key_race` | 2 calls, 1 key, 1 sweep | Does every accepted job have a record of its key? **No**, see below. |

Why the bounds are enough. Two consumers and a late request are three claimants
of one version, more than any single race needs; jobs do not share rows, so one
job shows what a job can suffer. Two deliveries reach the retry and the dead letter;
two faults allow a lost answer followed by a crash; two epochs reach the refused
lower epoch. Four tokens suffice for the actors and late requests to hold distinct
ones: where `FreshToken` runs out a `Receive` merely waits. Versions never pass 3 in
the runtime (`RowInv`, proved), so `MaxVersion` cuts nothing there. In
`job_acceptance` three calls are a first acceptance, a retry and a retry of the
retry; two keys make a sweep of one record choose by age. Three requests of one key
in `upload_admission` are a winner, a retry and a conflict. One verifier in
`upload_pipeline` is enough for concurrent ones, since a call it abandons runs on
beside its next delivery; two calls are an abandoned one and its successor. Three
executions in `provider_effects` are an owner, one that died and a redelivery; the
third attempt on record is the first that reaches the limit. The live run has one
job and batches of one: the row that waits for a lease to expire is the only one, and
a row behind another is not shown to be sent. Each runtime run has one sweep; two
sweeps that overlap are two tokens in `job_store`, and the theorems hold of any number
of them. In `ownership` three
calls make three periods, so that a period can be ended by a call that began before
it and found by one that waits; time 2 gives two periods in order and one out of
order. TLAPS removes every one of these bounds for the safety properties.

`CHECK_DEADLOCK FALSE` is set where the system really stops: everything ended,
faults spent, epochs used. Symmetry is used in runs without liveness only.

Fairness, only in specifications whose names begin with `Fair`:

* `RuntimeFairness`: weak fairness of each consumer's and each sweep's next step,
  because the platform keeps invoking the queue handler while messages wait and the
  cron handler every minute, and a handler's awaits end (every RPC has a deadline);
  of the expiry of a lease nobody works under, because clocks run.
* `JobAcceptance.Fairness`: a transaction that has begun ends (not: one begins), and
  the cron handler runs every minute, so each sweep's next step is weakly fair.

`UploadPipeline` has none, and no liveness is claimed of uploads. Nothing in the
repository calls `verifyUploadedObject`; the entrypoint retries every message that is
neither `job.requested` nor a schema migration (`async-entrypoint.ts:151`) until the
platform moves it to the DLQ; `wrangler.jsonc` consumes only `platform-jobs`; and the
runbook says that the adapters remain absent
(`docs/runbooks/platform/upload-admission-reconciliation.md:70`). Whether a verdict is
ever written depends on a consumer that is yet to be built, so deliveries there may
happen at any time, again, or never.

Nothing is assumed of clients, restore operators or faults; faults are bounded.
`PendingIsDispatched` and `AcceptedIsTaken` are conditional on restores coming to an
end (`<>[]ExternalEffectsAllowed`), without which the code rightly does nothing.

## What the violation runs show

* `expired_attempt`. The event carries version 1 for ever. Once a claim has
  raised the row to 2, the redelivered message is *stale* and acknowledged
  (`dispatch.ts:246`); the branch of `decideJobLease` that takes over an expired
  lease is unreachable from the queue, and nothing else looks for expired leases.
  The IA specification and a database test promise a later attempt. In general
  (`AttemptedOnce`, proved): no row whose lease has expired, or whose outcome is
  written, is ever written again.
* `retryable_failure`. A retryable failure writes `queued` at version 3 and
  acknowledges its message; no event announces version 3, which is the other half
  of `AttemptedOnce`. The BE specification and
  the runbook describe a job that is attempted again, or fails when exhausted.
* `expired_key_race`. An acceptance conflicts with the expired record of its key, a
  sweep deletes that record, and `select ... for update` finds none. Comparisons
  with a null record are null, so a job is accepted and no record completed: the
  next retry of the key accepts a second job. The retention runbook says that an
  exact key receives a new reservation once its row is swept. The race reaches no
  key that was never swept (`UnreservedNeedsSweep`, proved).

## Divergences met while modelling, not run

* A fence that begins does not stop a claim that has passed the gate: gate and
  `UPDATE` are two statements and neither locks the fence, so the claim may commit
  and its effect start while the fence is closed. The comment in
  `20260830130000_typed_restore_fence.sql:5` says the epochs keep every effect
  fenced. What the code gives is `NoEffectStartsDrained`: nobody is admitted after
  the fence began.
* The sweep sends `job.requested` events only (`claim_outbox_batch`,
  `20260830120000:466`); deferred `object.uploaded` events (a completion whose
  enqueue failed), `webhook.accepted` and `provider.operation.requested` stay in the
  outbox, against `specs/be/00-infrastructure.md:391`.
* An ambiguous commit of an upload intent is reported with `noCanonicalWrite`
  although it may have taken effect (`upload-admission/application.ts:251`); the
  client's retry then replays it.
* A replayed admission discloses a signed URL again, against
  `docs/runbooks/platform/upload-admission-reconciliation.md:39`.
* A retry of a completion whose answer was lost carries the old If-Match and is
  refused as stale (`upload-completion/application.ts:138`) before the record of its
  key is looked at; the runbook (line 57) describes a replay.
* A retryable provider failure that exhausts its sends is left pending and later
  executions skip it (`execution.ts:230`); only reconciliation closes it, which is
  what `OrphansAreReconciled` says of every pending operation nobody works on.
* `apply_webhook_receipt_outcome` admits `failed` to `processed`, which the trigger
  `guard_webhook_receipts` rejects.
* A claim proven in full while another owner has full control becomes `full`
  without a period; the BE02a specification (line 548) has proof completion write a
  period, and the IA specification freezes ownership when two claimants have
  credible proof. Converting such a claim then takes the party over, with no
  contest: no function of the program opens one. A provisional claim can never be
  converted by its window elapsing (BE02a line 549): `rpc_convert_claim` asks for a
  proof that would have made it `full` already.
* A replayed request whose code was wrong answers `PROOF_ATTEMPTS_EXHAUSTED` also
  when attempts remain (`profile_ownership_commands.sql:603`).

## Proofs

All theorems hold for any sets of actors and rows and any limits, from the
assumptions stated in the modules: limits are natural or positive, null values lie
outside their sets, `Job` is finite (the rank of an event is a cardinality), hashes
are not empty in `JobAcceptance` (`AcceptanceAssumption`), requests and verifiers
are distinct and If-Match versions natural in `UploadPipeline`
(`PipelineAssumption`), and an operation's record has room for the three outcomes it
can get (`ProviderAssumption`).

*Fence and job store.* `StoreInv` (types and `LeaseIffRunning`) is inductive. From
it: `StoreImplementsContract` (each function on jobs is a step of `JobContract` or a
stutter under the mapping `phase`, `holder`), `FenceFreezesRows`,
`VersionsCountWrites`, `PolicyAgreesWithClaim`, `PolicyNeverRollsBack` (what the
policy applies, the trigger accepts). `FenceReadersAgree` rests on the order in which
`begin_restore_fence` admits epochs: of all fences only the newest can be open, so the
greatest epoch has its release exactly when none is open.

*Job runtime.* That an effect starts once depends on what a stale consumer may still
do. `RuntimeInv` adds the reason: the version of a row is a phase. Version 1 means
accepted and never claimed, 2 claimed, 3 that an outcome is written; a consumer
that may still claim holds version 1 in hand, one that may still record sees
version 3, late requests carry the same knowledge, and an unclaimed sent job is
always carried by a message, a consumer or an operator. Versions only advance and
histories only grow (`RowsAdvance`, `HistoriesGrow`), so what an actor knew stays
true while others move; the proof has one lemma per action. From it:
`EffectAtMostOnce`, `EndsAsEffectReturned`, `ProcessedMeansWritten`,
`DispatchedMeansSent`, `NoJobForgotten`; with the gate lemma `FencedGate`:
`FenceStopsEffects`; and `RuntimeImplementsStore`.

Two further results say what becomes of an attempt. `EffectKeepsRow`: a consumer at
its effect, or writing its outcome, finds the row running, at its version and under
its token. That needs more than phases, since the row could be at version 2 for
somebody else: `TokensUnique` (no two consumers hold one token, nor do a sweep or a
late request hold a consumer's; `FreshToken` is the source's `randomUUID`) is kept by
every step under `RuntimeInv`, claims carry version 1, and so only the token's holder
can move a row at version 2. So an outcome is refused because of the clock or the fence, never
because another attempt overtook it. `NoSecondAttempt`: every claim that is still
possible carries version 1, and an outcome needs a live lease, hence nothing can
write a row whose lease expired or that has passed version 2. Finally
`RuntimeKeepsContract`: by `RuntimeImplementsStore` and `StoreImplementsContract` the
whole system, Worker and queue included, implements `JobContract`.

*Acceptance.* `AcceptanceInv` says who holds which row: a call that reserves found no
record, one that replays holds the lock under which a sweep would delete. So a
second job for a key needs a sweep (`OneJob`), and a replay's record cannot go away
while it reads it (`ReplaysAreOwn`). Nothing but the sweep of a due record ends a
binding (`KeysStayBound`), and a job that leaves no record of its key behind needs
an earlier sweep of that key (`UnreservedNeedsSweep`).

*Upload admission.* The record of a key is written once, so what a request learnt of
it stays true: `AdmissionInvariant`, `CreatedHolds`, `LosersAreRevoked`,
`ReplaysAreOwn`. A URL is revoked only by a request that answers; one whose commit may
still take effect, or has, compensates with 503 and nothing else, which is the
strengthening `RevokedIsReported` needs.

*Objects and the pipeline.* `RowsAgree` makes the job's state a function of the
object's, so the guard of one table stands for the other's; from it
`StoreImplementsLifecycle`, `VersionsNameRows`, `FenceFreezesObjects`. A completion
record is written only with the step that uses up its object's intent, and every
record has a used one (`RecordsBacked`), so an object has one record
(`CompletionsAreUnique`); a ready object was completed on matching evidence
(`ReadyNeedsEvidence`). In the pipeline a handler awaits at most one call, whose arguments are its locals, versions
only grow and records are written once: `PipelineInvariant`, `AcceptedHolds`,
`AmbiguityIsRecovered`, `MessagesFollowCommits`, and `WorkersAreClients`, by which the
theorems about the store hold of the composed system, and with them the lifecycle
(`PipelineKeepsLifecycle`). `VerdictsAreWitnessed` needs no assumption on what is put
into Storage, or when: a verdict on its way carries a version, and is either backed by
what was witnessed or carries a version the row has left behind (`Earned`), so the
store drops it; witnesses only accumulate. The completion's half of `ready` is the
store's own `ReadyNeedsEvidence`.

*Provider effects.* `markPending` swaps out of `planned`, a state no write leads back
to, so one execution at most knows that it claimed the operation, and only that one
sends: `SenderIsUnique`, `AnswersAreTrue`, `EffectsImplementContract`. Once that one
has ended, nobody can come to know it again, so the pending row is reconciliation's
alone (`OrphansWaitForReconciliation`).

*Ownership.* `OwnershipInv` says what a transaction may rely on until it ends: its
claim and the period it has locked are as it found them, since only the holder of a
row changes it. A call that found no period inserts only into a party nobody ever
owned, because the commit that ends a period begins the next. Hence
`OwnershipInvariant`, `HistoryIsUnbroken` (dates are ordered although taken before
the waits) and `ClaimsImplementTitle`. That title changes hands by conversion is
shown of the rows themselves as well (`FullControlIsConverted`): only a commit
writes periods, one that opens a period meets the exclusion constraint, and one that
replaces a full period is no proof; `KindNamed` (a transaction is a proof or a
conversion, to its end) leaves the conversion.

Proved without a place in a run, because a theorem says them of every instance:
`LeaseIffRunning`, `VersionsIncrease`, `VerdictsFinal`, `CompletedOnce`,
`SentAfterCommit`, `FullControlMovesByConversion` (defined beside
the others; TLC agreed on the instances above first), and the helper properties the
proof modules define.

Only model-checked: liveness (`PendingIsDispatched`, `AcceptedIsTaken`,
`ExpiredIsSwept`), for which the prover has no rules under
fairness, and the violation runs.

## Not modelled

* Schema migration worker: nothing feeds it.
  `cms_prepare_activation_migration` inserts plans that are completed or have no
  rows, source evidence admits no rows, and its activation event is never sent, so
  the states of its chunks are not reached by the program.
* The second implementation of upload admission,
  `apps/worker/src/upload-admission/upload-intent-command.ts`: it signs, commits and
  cancels over a repository port of which the repository holds no implementation. The
  production storage registry is empty as well, so signer and Storage are modelled from
  their types and their use.
* AC-265 outage lease: one row, each function a transaction under `for update`; the
  runner that drives it is not in the Worker.
* Webhook receipts and their HTTP processor; account merge (staged, with approvals;
  one transaction per stage).
* Of ownership: contests, transfers, revocation and stalling, which no function
  brings about; idempotent replays; invitations, remedies and shadow records.
* Single-transaction command families (profiles, portfolios, configuration,
  memberships), where the database's own transaction is the whole argument.
* Web rendering, HTTP validation, formats of identifiers and payloads, audit and
  log records, row-level security and grants (they decide who may call, not what a
  call does). The modelled lines are a small share of the repository, most of which
  is interface code, generated types, tooling and such single-transaction commands.

## Plan

What would extend this, in order: webhook receipts beside `ProviderEffects`; liveness
of `UploadPipeline` once a consumer of `object.uploaded` exists; a live run of the job
runtime with two jobs; account merge with its approvals; contests and transfers once functions for them exist.
