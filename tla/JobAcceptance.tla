---------------------------- MODULE JobAcceptance ----------------------------
(***************************************************************************)
(* Accepting a job under an idempotency key, while the audited sweep       *)
(* removes records whose thirty days are over.                             *)
(*                                                                         *)
(* accept_job_with_outbox reserves its key with INSERT ... ON CONFLICT DO  *)
(* NOTHING, reads the record with SELECT ... FOR UPDATE, and then replays  *)
(* or accepts.  The two statements see the database at two moments: the    *)
(* first waits for an uncommitted record of its key but locks no record    *)
(* that is there, the second locks what it finds.  No job record is ever   *)
(* committed as 'reserved', so a committed record is a completed one.      *)
(***************************************************************************)
EXTENDS Naturals, FiniteSets

CONSTANTS Call,        \* invocations of accept_job_with_outbox, one job id each
          Key,         \* (actor, operation, key_hash)
          Hash,        \* request hashes
          Sweeper,     \* invocations of idempotency_expiry_sweep at a time
          NoJob,       \* SQL null
          SweepLimit,  \* p_limit
          MaxAborts    \* bound: sweeps rolled back or lost

ASSUME AcceptanceAssumption ==
  /\ NoJob \notin Call
  /\ Hash # {}
  /\ SweepLimit \in Nat \ {0}
  /\ MaxAborts \in Nat

VARIABLES
  records,   \* records[k]: the committed record of key k
  due,       \* the keys whose record has expired
  older,     \* older[k]: the due keys with an earlier (expires_at, id) than k's
  call,      \* call[c]: one transaction
  accepted,  \* the calls whose job and job.requested event are committed
  sweeping,  \* sweeping[s]: the records sweep s has locked for deletion
  swept,     \* history: the keys a sweep has removed a record of
  aborts

vars == <<records, due, older, call, accepted, sweeping, swept, aborts>>

Ref == Call \union {NoJob}
Record == [present : BOOLEAN, hash : Hash, job : Ref]
InTransaction == {"reserving", "conflicted", "locked", "unbound"}
Answered == {"accepted", "replayed", "mismatch", "lost"}
CallRecord == [at : {"called"} \union InTransaction \union Answered,
               key : Key, hash : Hash, job : Ref]

TypeOK ==
  /\ records \in [Key -> Record]
  /\ due \subseteq Key
  /\ older \in [Key -> SUBSET Key]
  /\ call \in [Call -> CallRecord]
  /\ accepted \subseteq Call
  /\ sweeping \in [Sweeper -> SUBSET Key]
  /\ swept \subseteq Key
  /\ aborts \in 0..MaxAborts

Absent == [present |-> FALSE, hash |-> CHOOSE h \in Hash : TRUE, job |-> NoJob]

Init ==
  /\ records = [k \in Key |-> Absent]
  /\ due = {}
  /\ older = [k \in Key |-> {}]
  /\ call \in [Call -> [at : {"called"}, key : Key, hash : Hash, job : {NoJob}]]
  /\ accepted = {}
  /\ sweeping = [s \in Sweeper |-> {}]
  /\ swept = {}
  /\ aborts = 0

At(c, pc) == call[c].at = pc
Goto(c, pc, job) == call' = [call EXCEPT ![c].at = pc, ![c].job = job]
RecordOf(c) == records[call[c].key]

-----------------------------------------------------------------------------
\* Rows under FOR UPDATE: by a call that replays, by a sweep that will delete.
Locked(k) ==
  \/ \E c \in Call : At(c, "locked") /\ call[c].key = k
  \/ \E s \in Sweeper : k \in sweeping[s]

\* Mutant: a key without its unique constraint.
NeverReserving(k) == FALSE

\* A record of k is inserted and not yet committed.
Reserving(k) == \E c \in Call : At(c, "reserving") /\ call[c].key = k

\* Mutant: an expired record does not stand in the way of a reservation.
ReserveExpired(c) ==
  /\ At(c, "called")
  /\ ~Reserving(call[c].key)
  /\ Goto(c, IF RecordOf(c).present /\ call[c].key \notin due THEN "conflicted" ELSE "reserving",
          NoJob)
  /\ UNCHANGED <<records, due, older, accepted, sweeping, swept, aborts>>

\* insert ... on conflict do nothing: waits for an uncommitted record of the
\* same key, and reserves, or finds one that is there and leaves it unlocked.
Reserve(c) ==
  /\ At(c, "called")
  /\ ~Reserving(call[c].key)
  /\ Goto(c, IF RecordOf(c).present THEN "conflicted" ELSE "reserving", NoJob)
  /\ UNCHANGED <<records, due, older, accepted, sweeping, swept, aborts>>

\* select ... for update after a conflict.  When the record has gone since,
\* every comparison with it is null and the call goes on as if it had reserved.
SelectForUpdate(c) ==
  /\ At(c, "conflicted")
  /\ ~Locked(call[c].key)
  /\ IF RecordOf(c).present THEN Goto(c, "locked", RecordOf(c).job)
                            ELSE Goto(c, "unbound", NoJob)
  /\ UNCHANGED <<records, due, older, accepted, sweeping, swept, aborts>>

\* Mutant: a replay that does not compare the request.
ReplayAnyRequest(c) ==
  /\ At(c, "locked")
  /\ Goto(c, "replayed", call[c].job)
  /\ UNCHANGED <<records, due, older, accepted, sweeping, swept, aborts>>

\* The record's own job and event, or 'idempotency request hash mismatch'.
Replay(c) ==
  /\ At(c, "locked")
  /\ IF RecordOf(c).hash = call[c].hash THEN Goto(c, "replayed", call[c].job)
                                        ELSE Goto(c, "mismatch", NoJob)
  /\ UNCHANGED <<records, due, older, accepted, sweeping, swept, aborts>>

\* update ... where id = record.id: the reservation becomes a completed record
\* that names the job; no row matches the null id of an unbound call.
CompleteRecord(c) ==
  records' = IF At(c, "reserving")
               THEN [records EXCEPT ![call[c].key] =
                       [present |-> TRUE, hash |-> call[c].hash, job |-> c]]
               ELSE records

\* Job, event and record are committed together.
Accept(c) ==
  /\ call[c].at \in {"reserving", "unbound"}
  /\ CompleteRecord(c)
  /\ accepted' = accepted \union {c}
  /\ Goto(c, "accepted", c)
  /\ UNCHANGED <<due, older, sweeping, swept, aborts>>

\* The transaction is rolled back: a timeout, a lost connection.
RollBack(c) ==
  /\ call[c].at \in InTransaction
  /\ Goto(c, "lost", NoJob)
  /\ UNCHANGED <<records, due, older, accepted, sweeping, swept, aborts>>

CallStep(c) == Reserve(c) \/ SelectForUpdate(c) \/ Replay(c) \/ Accept(c)

-----------------------------------------------------------------------------
\* expires_at <= now: thirty days after the record was written.
Expire(k) ==
  /\ records[k].present
  /\ k \notin due
  /\ due' = due \union {k}
  /\ older' = [older EXCEPT ![k] = due]
  /\ UNCHANGED <<records, call, accepted, sweeping, swept, aborts>>

\* Mutant: the candidates are read without FOR UPDATE SKIP LOCKED.
AnyKeys(keys) == keys

Unlocked(keys) == {k \in keys : ~Locked(k)}

\* Mutant: a sweep that runs only when more than its batch is due (hasMore).
FullBatch == {k \in Unlocked(due) : /\ Cardinality(Unlocked(older[k])) < SweepLimit
                                    /\ Cardinality(Unlocked(due)) > SweepLimit}

\* order by expires_at, id limit p_limit for update skip locked.
Batch == {k \in Unlocked(due) : Cardinality(Unlocked(older[k])) < SweepLimit}

SweepLocks(s) ==
  /\ sweeping[s] = {}
  /\ Batch # {}
  /\ sweeping' = [sweeping EXCEPT ![s] = Batch]
  /\ UNCHANGED <<records, due, older, call, accepted, swept, aborts>>

\* The locked rows are deleted, each with its audit event, and committed.
SweepDeletes(s) ==
  /\ sweeping[s] # {}
  /\ records' = [k \in Key |-> IF k \in sweeping[s] THEN Absent ELSE records[k]]
  /\ due' = due \ sweeping[s]
  /\ older' = [k \in Key |-> IF k \in due' THEN older[k] \ sweeping[s] ELSE {}]
  /\ swept' = swept \union sweeping[s]
  /\ sweeping' = [sweeping EXCEPT ![s] = {}]
  /\ UNCHANGED <<call, accepted, aborts>>

\* The sweep is rolled back; the next cron tick starts over.
SweepAborts(s) ==
  /\ sweeping[s] # {}
  /\ aborts < MaxAborts
  /\ aborts' = aborts + 1
  /\ sweeping' = [sweeping EXCEPT ![s] = {}]
  /\ UNCHANGED <<records, due, older, call, accepted, swept>>

SweepStep(s) == SweepLocks(s) \/ SweepDeletes(s)

Next ==
  \/ \E c \in Call : CallStep(c) \/ RollBack(c)
  \/ \E k \in Key : Expire(k)
  \/ \E s \in Sweeper : SweepStep(s) \/ SweepAborts(s)

Spec == Init /\ [][Next]_vars

\* A transaction ends, and the cron handler runs every minute.
Fairness ==
  /\ \A c \in Call : WF_vars(~At(c, "called") /\ CallStep(c))
  /\ \A s \in Sweeper : WF_vars(SweepStep(s))

FairSpec == Spec /\ Fairness

-----------------------------------------------------------------------------
JobsOf(k) == {c \in accepted : call[c].key = k}

\* However calls with one key interleave, wait for each other and fail, they
\* bring about at most one job as long as no sweep removed the key's record.
OneJobPerUnsweptKey ==
  \A k \in Key \ swept : \A c, d \in JobsOf(k) : c = d

\* A key stays bound to its first job until its thirty days are over and a sweep
\* removes its record, and never loses it while a replay is reading it.
BoundUntilSwept ==
  [][\A k \in Key : records[k].present /\ records'[k] # records[k] =>
       /\ k \in due /\ ~records'[k].present
       /\ \A c \in Call : call[c].key = k => ~At(c, "locked")]_vars

\* A replay answers with a job that was committed for the same key and the
\* same request, also when the record it read is removed before it ends.
ReplayNamesOwnRequest ==
  \A c \in Call : At(c, "replayed") =>
    /\ call[c].job \in accepted
    /\ call[call[c].job].key = call[c].key
    /\ call[call[c].job].hash = call[c].hash

\* A record under the lock of a call or of an overlapping sweep is in no other
\* sweep's batch: a record is deleted, and audited, once.
SweepsDisjoint ==
  \A s, t \in Sweeper : \A k \in sweeping[s] :
    /\ k \in sweeping[t] => s = t
    /\ records[k].present
    /\ ~\E c \in Call : At(c, "locked") /\ call[c].key = k

\* What a call knows: it reserves alone, a record it locked stays as it was, and
\* only where a sweep has been does it find none after a conflict.
CallOK(c) ==
  LET k == call[c].key
  IN  /\ At(c, "reserving") => ~records[k].present
      /\ At(c, "conflicted") => records[k].present \/ k \in swept
      /\ At(c, "locked") => records[k].present /\ records[k].job = call[c].job
      /\ At(c, "unbound") => k \in swept
      /\ At(c, "accepted") => c \in accepted

\* A record names a committed job of its key and its request, and until a
\* sweep every committed job of a key is the one its record names.
RecordOK(k) ==
  /\ records[k].present =>
       /\ records[k].job \in JobsOf(k)
       /\ call[records[k].job].hash = records[k].hash
  /\ k \in due => records[k].present
  /\ k \notin swept => \A c \in JobsOf(k) : records[k].present /\ records[k].job = c

\* At every moment, between any two statements of any calls and sweeps: calls,
\* records and locks tell one story (and have their types).
AcceptanceInv ==
  /\ TypeOK
  /\ \A c, d \in Call :
       At(c, "reserving") /\ At(d, "reserving") /\ call[c].key = call[d].key => c = d
  /\ \A c \in Call : CallOK(c)
  /\ \A k \in Key : RecordOK(k)
  /\ SweepsDisjoint
  /\ \A s \in Sweeper : sweeping[s] \subseteq due

\* An expired record is removed in the end: after the replays that read it, by
\* a later batch when more are due than one takes, and after an aborted sweep.
ExpiredIsSwept == \A k \in Key : (k \in due) ~> (k \notin due)

\* The retention runbook: an expired key stays bound to its prior result until
\* the sweep removes the row, and only then receives a new reservation.  So no
\* job is accepted without a reservation that a retry of its key would find.
EveryJobReserved ==
  [][\A c \in accepted' \ accepted :
       records'[call[c].key] = [present |-> TRUE, hash |-> call[c].hash, job |-> c]]_vars
=============================================================================
