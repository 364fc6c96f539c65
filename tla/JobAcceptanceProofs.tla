------------------------- MODULE JobAcceptanceProofs -------------------------
(***************************************************************************)
(* Theorems about JobAcceptance: for any number of overlapping calls, keys *)
(* and sweeps, one job per key until a sweep has removed its record, and   *)
(* no replay of another request's job.                                     *)
(*                                                                         *)
(* The argument: a call reserves where no record is, so the job it commits *)
(* is the key's first unless a sweep was there; and a record is removed    *)
(* only under a lock that no replaying call holds.                         *)
(***************************************************************************)
EXTENDS JobAcceptance, TLAPS

LEMMA InitInv == Init => AcceptanceInv
  <1> SUFFICES ASSUME Init PROVE AcceptanceInv
    OBVIOUS
  <1>1. PICK h \in Hash : h = CHOOSE g \in Hash : TRUE
    BY AcceptanceAssumption
  <1>2. /\ records = [k \in Key |-> [present |-> FALSE, hash |-> h, job |-> NoJob]]
        /\ call \in [Call -> [at : {"called"}, key : Key, hash : Hash, job : {NoJob}]]
        /\ due = {} /\ older = [k \in Key |-> {}] /\ accepted = {} /\ swept = {} /\ aborts = 0
        /\ sweeping = [s \in Sweeper |-> {}]
    BY <1>1 DEF Init, Absent
  <1>3. TypeOK
    BY <1>2, AcceptanceAssumption DEF TypeOK, Record, Ref, CallRecord, InTransaction, Answered
  <1>4. \A c \in Call : CallOK(c)
    BY <1>2 DEF CallOK, At
  <1>5. \A k \in Key : RecordOK(k)
    BY <1>2 DEF RecordOK, JobsOf
  <1>6. SweepsDisjoint
    BY <1>2 DEF SweepsDisjoint
  <1> QED
    BY <1>2, <1>3, <1>4, <1>5, <1>6 DEF AcceptanceInv, At

\* The types of what a step of c reads.
LEMMA Types ==
  ASSUME AcceptanceInv
  PROVE  /\ records \in [Key -> Record] /\ due \subseteq Key /\ older \in [Key -> SUBSET Key]
         /\ call \in [Call -> CallRecord] /\ accepted \subseteq Call
         /\ sweeping \in [Sweeper -> SUBSET Key] /\ swept \subseteq Key /\ aborts \in 0..MaxAborts
         /\ \A c \in Call : /\ call[c] \in CallRecord /\ call[c].key \in Key
                            /\ call[c].hash \in Hash /\ call[c].job \in Ref
         /\ \A k \in Key : records[k].job \in Ref /\ records[k] \in Record
  BY DEF AcceptanceInv, TypeOK, CallRecord, Record

LEMMA AbsentTyped == Absent \in Record /\ ~Absent.present
  BY AcceptanceAssumption DEF Absent, Record, Ref

\* A step of one call that only moves it on: the rest of the invariant looks at
\* calls through their keys and hashes, which stay.
LEMMA CallMoves ==
  ASSUME AcceptanceInv, NEW c \in Call, NEW row \in CallRecord,
         row.key = call[c].key, row.hash = call[c].hash,
         call' = [call EXCEPT ![c] = row],
         UNCHANGED <<records, due, older, accepted, sweeping, swept, aborts>>,
         row.at = "reserving" => ~RecordOf(c).present /\ ~Reserving(call[c].key),
         row.at = "conflicted" => RecordOf(c).present \/ call[c].key \in swept,
         row.at = "locked" => /\ RecordOf(c).present /\ RecordOf(c).job = row.job
                              /\ \A s \in Sweeper : call[c].key \notin sweeping[s],
         row.at = "unbound" => call[c].key \in swept,
         row.at = "accepted" => c \in accepted
  PROVE  AcceptanceInv'
  <1>1. /\ call \in [Call -> CallRecord] /\ \A d \in Call : call[d].key \in Key
        /\ accepted \subseteq Call
    BY Types
  <1>2. /\ \A d \in Call : call'[d].key = call[d].key /\ call'[d].hash = call[d].hash
        /\ \A d \in Call : d # c => call'[d] = call[d]
        /\ call'[c] = row
    BY <1>1
  <1>3. TypeOK'
    BY <1>1 DEF AcceptanceInv, TypeOK
  <1>4. ASSUME NEW d \in Call, NEW e \in Call, At(d, "reserving")', At(e, "reserving")',
               call'[d].key = call'[e].key
        PROVE  d = e
    <2>1. call[d].key = call[e].key
      BY <1>2, <1>4
    <2>2. d # c => At(d, "reserving")
      BY <1>2, <1>4 DEF At
    <2>3. e # c => At(e, "reserving")
      BY <1>2, <1>4 DEF At
    <2>4. d = c \/ e = c => row.at = "reserving"
      BY <1>2, <1>4 DEF At
    <2> QED
      BY <2>1, <2>2, <2>3, <2>4 DEF AcceptanceInv, Reserving
  <1>5. ASSUME NEW d \in Call PROVE CallOK(d)'
    <2>1. CallOK(d)
      BY DEF AcceptanceInv
    <2>2. CASE d = c
      BY <1>2, <2>2 DEF CallOK, At, RecordOf
    <2>3. CASE d # c
      BY <1>2, <2>1, <2>3 DEF CallOK, At
    <2> QED
      BY <2>2, <2>3
  <1>6. ASSUME NEW k \in Key PROVE RecordOK(k)'
    <2>1. JobsOf(k)' = JobsOf(k)
      BY <1>1, <1>2 DEF JobsOf
    <2>2. RecordOK(k)
      BY DEF AcceptanceInv
    <2>3. JobsOf(k) \subseteq Call
      BY <1>1 DEF JobsOf
    <2> QED
      BY <1>2, <2>1, <2>2, <2>3 DEF RecordOK
  <1>7. SweepsDisjoint'
    <2> SUFFICES ASSUME NEW s \in Sweeper, NEW t \in Sweeper, NEW k \in sweeping[s]
                 PROVE  /\ k \in sweeping[t] => s = t
                        /\ records[k].present
                        /\ ~\E d \in Call : At(d, "locked")' /\ call'[d].key = k
      BY DEF SweepsDisjoint
    <2>1. /\ k \in sweeping[t] => s = t
          /\ records[k].present
          /\ ~\E d \in Call : At(d, "locked") /\ call[d].key = k
      BY DEF AcceptanceInv, SweepsDisjoint
    <2> QED
      BY <1>2, <2>1 DEF At
  <1> QED
    BY <1>3, <1>4, <1>5, <1>6, <1>7 DEF AcceptanceInv

\* How a call is moved on, as a row.
LEMMA Moved ==
  ASSUME AcceptanceInv, NEW c \in Call,
         NEW pc \in {"called"} \union InTransaction \union Answered, NEW job \in Ref,
         Goto(c, pc, job)
  PROVE  \E row \in CallRecord :
           /\ call' = [call EXCEPT ![c] = row]
           /\ row.at = pc /\ row.job = job /\ row.key = call[c].key /\ row.hash = call[c].hash
  <1>1. call[c] \in CallRecord /\ call \in [Call -> CallRecord]
    BY Types
  <1>2. PICK row : row = [call[c] EXCEPT !.at = pc, !.job = job]
    OBVIOUS
  <1>3. row \in CallRecord /\ row.at = pc /\ row.job = job /\ row.key = call[c].key /\ row.hash = call[c].hash
    BY <1>1, <1>2 DEF CallRecord
  <1>4. call' = [call EXCEPT ![c] = row]
    BY <1>1, <1>2 DEF Goto, CallRecord
  <1> QED
    BY <1>3, <1>4

LEMMA Stages ==
  /\ \A pc \in {"reserving", "conflicted", "locked", "unbound", "accepted", "replayed", "mismatch", "lost"} :
       pc \in {"called"} \union InTransaction \union Answered
  /\ NoJob \in Ref
  BY DEF InTransaction, Answered, Ref

LEMMA ReserveInv ==
  ASSUME AcceptanceInv, NEW c \in Call, Reserve(c)
  PROVE  AcceptanceInv'
  <1>1. PICK pc \in {"reserving", "conflicted"} :
          /\ Goto(c, pc, NoJob) /\ ~Reserving(call[c].key)
          /\ pc = "reserving" => ~RecordOf(c).present
          /\ pc = "conflicted" => RecordOf(c).present
          /\ UNCHANGED <<records, due, older, accepted, sweeping, swept, aborts>>
    BY DEF Reserve
  <1>2. PICK row \in CallRecord :
          /\ call' = [call EXCEPT ![c] = row]
          /\ row.at = pc /\ row.job = NoJob /\ row.key = call[c].key /\ row.hash = call[c].hash
    BY <1>1, Moved, Stages
  <1> QED
    BY <1>1, <1>2, CallMoves

LEMMA SelectInv ==
  ASSUME AcceptanceInv, NEW c \in Call, SelectForUpdate(c)
  PROVE  AcceptanceInv'
  <1>1. /\ At(c, "conflicted") /\ ~Locked(call[c].key)
        /\ UNCHANGED <<records, due, older, accepted, sweeping, swept, aborts>>
        /\ RecordOf(c).job \in Ref
    BY Types DEF SelectForUpdate, RecordOf
  <1>2. CASE RecordOf(c).present
    <2>1. Goto(c, "locked", RecordOf(c).job)
      BY <1>2 DEF SelectForUpdate
    <2>2. PICK row \in CallRecord :
            /\ call' = [call EXCEPT ![c] = row] /\ row.at = "locked" /\ row.job = RecordOf(c).job
            /\ row.key = call[c].key /\ row.hash = call[c].hash
      BY <1>1, <2>1, Moved, Stages
    <2>3. \A s \in Sweeper : call[c].key \notin sweeping[s]
      BY <1>1 DEF Locked
    <2> QED
      BY <1>1, <1>2, <2>2, <2>3, CallMoves
  <1>3. CASE ~RecordOf(c).present
    <2>1. Goto(c, "unbound", NoJob)
      BY <1>3 DEF SelectForUpdate
    <2>2. PICK row \in CallRecord :
            /\ call' = [call EXCEPT ![c] = row] /\ row.at = "unbound" /\ row.job = NoJob
            /\ row.key = call[c].key /\ row.hash = call[c].hash
      BY <2>1, Moved, Stages
    <2>3. call[c].key \in swept
      BY <1>1, <1>3 DEF AcceptanceInv, CallOK, RecordOf
    <2> QED
      BY <1>1, <2>2, <2>3, CallMoves
  <1> QED
    BY <1>2, <1>3

LEMMA EndInv ==
  ASSUME AcceptanceInv, NEW c \in Call, Replay(c) \/ RollBack(c)
  PROVE  AcceptanceInv'
  <1>1. PICK pc \in {"replayed", "mismatch", "lost"}, job \in Ref :
          /\ Goto(c, pc, job)
          /\ UNCHANGED <<records, due, older, accepted, sweeping, swept, aborts>>
    BY Types, Stages DEF Replay, RollBack
  <1>2. PICK row \in CallRecord :
          /\ call' = [call EXCEPT ![c] = row]
          /\ row.at = pc /\ row.job = job /\ row.key = call[c].key /\ row.hash = call[c].hash
    BY <1>1, Moved, Stages
  <1> QED
    BY <1>1, <1>2, CallMoves

\* Job, event and record together.  An unbound call is past a sweep of its key,
\* where nothing is promised; a reserving one is the first of its key.
LEMMA AcceptInv ==
  ASSUME AcceptanceInv, NEW c \in Call, Accept(c)
  PROVE  AcceptanceInv'
  <1>1. /\ call[c].at \in {"reserving", "unbound"} /\ Goto(c, "accepted", c)
        /\ CompleteRecord(c) /\ accepted' = accepted \union {c}
        /\ UNCHANGED <<due, older, sweeping, swept, aborts>>
        /\ c # NoJob /\ c \in Ref
    BY AcceptanceAssumption DEF Accept, Ref
  <1>2. PICK row \in CallRecord :
          /\ call' = [call EXCEPT ![c] = row]
          /\ row.at = "accepted" /\ row.job = c /\ row.key = call[c].key /\ row.hash = call[c].hash
    BY <1>1, Moved, Stages
  <1>3. PICK k \in Key : k = call[c].key
    BY Types
  <1>4. /\ \A d \in Call : call'[d].key = call[d].key /\ call'[d].hash = call[d].hash
        /\ \A d \in Call : d # c => call'[d] = call[d]
        /\ call'[c] = row
    BY <1>2, Types
  <1>5. /\ At(c, "reserving") => /\ records' = [records EXCEPT ![k] =
                                     [present |-> TRUE, hash |-> call[c].hash, job |-> c]]
                                 /\ ~records[k].present
        /\ ~At(c, "reserving") => records' = records /\ k \in swept
    BY <1>1, <1>3 DEF CompleteRecord, AcceptanceInv, CallOK, At
  <1>6. records' \in [Key -> Record]
    <2>1. [present |-> TRUE, hash |-> call[c].hash, job |-> c] \in Record
      BY <1>1, Types DEF Record
    <2>2. records \in [Key -> Record]
      BY Types
    <2> QED
      BY <1>5, <2>1, <2>2
  <1>7. TypeOK'
    BY <1>1, <1>2, <1>6, Types DEF TypeOK
  <1>8. \A q \in Key : q # k => records'[q] = records[q]
    BY <1>5, Types
  <1>9. records[k].present => records'[k] = records[k]
    BY <1>5
  <1>10. ASSUME NEW d \in Call, NEW e \in Call, At(d, "reserving")', At(e, "reserving")',
                call'[d].key = call'[e].key
         PROVE  d = e
    <2>1. d # c /\ e # c
      BY <1>2, <1>4, <1>10 DEF At
    <2> QED
      BY <1>4, <1>10, <2>1 DEF AcceptanceInv, At
  <1>11. ASSUME NEW d \in Call PROVE CallOK(d)'
    <2>1. CASE d = c
      BY <1>1, <1>2, <1>4, <2>1 DEF CallOK, At
    <2>2. CASE d # c
      <3>1. CallOK(d) /\ call'[d] = call[d] /\ call[d].key \in Key
        BY <1>4, <2>2, Types DEF AcceptanceInv
      <3>2. At(d, "reserving") => ~records'[call[d].key].present
        <4>1. At(d, "reserving") /\ At(c, "reserving") => call[d].key # k
          BY <1>3, <2>2 DEF AcceptanceInv
        <4> QED
          BY <1>5, <1>8, <3>1, <4>1 DEF CallOK
      <3>3. records[call[d].key].present => records'[call[d].key] = records[call[d].key]
        BY <1>8, <1>9, <3>1
      <3> QED
        BY <1>1, <3>1, <3>2, <3>3 DEF CallOK, At
    <2> QED
      BY <2>1, <2>2
  <1>12. ASSUME NEW q \in Key PROVE RecordOK(q)'
    <2>1. RecordOK(q) /\ records[q] \in Record
      BY Types DEF AcceptanceInv
    <2>2. CASE q # k
      <3>1. JobsOf(q)' = JobsOf(q) /\ JobsOf(q) \subseteq Call
        BY <1>1, <1>3, <1>4, <2>2, Types DEF JobsOf
      <3> QED
        BY <1>1, <1>4, <1>8, <2>1, <2>2, <3>1 DEF RecordOK
    <2>3. CASE q = k
      <3>1. /\ JobsOf(k)' = JobsOf(k) \union {c} /\ JobsOf(k) \subseteq Call
        BY <1>1, <1>3, <1>4, Types DEF JobsOf
      <3>2. CASE At(c, "reserving")
        <4>1. records'[k] = [present |-> TRUE, hash |-> call[c].hash, job |-> c]
          BY <1>5, <3>2, Types
        <4>2. k \notin swept => JobsOf(k) = {}
          BY <1>5, <2>1, <2>3, <3>2 DEF RecordOK
        <4> QED
          BY <1>1, <1>4, <2>3, <3>1, <4>1, <4>2 DEF RecordOK
      <3>3. CASE ~At(c, "reserving")
        BY <1>1, <1>4, <1>5, <2>1, <2>3, <3>1, <3>3 DEF RecordOK
      <3> QED
        BY <3>2, <3>3
    <2> QED
      BY <2>2, <2>3
  <1>13. SweepsDisjoint'
    <2> SUFFICES ASSUME NEW s \in Sweeper, NEW t \in Sweeper, NEW q \in sweeping[s]
                 PROVE  /\ q \in sweeping[t] => s = t
                        /\ records'[q].present
                        /\ ~\E d \in Call : At(d, "locked")' /\ call'[d].key = q
      BY <1>1 DEF SweepsDisjoint
    <2>1. /\ q \in sweeping[t] => s = t
          /\ records[q].present
          /\ ~\E d \in Call : At(d, "locked") /\ call[d].key = q
      BY DEF AcceptanceInv, SweepsDisjoint
    <2>2. q \in Key
      BY Types
    <2> QED
      BY <1>2, <1>4, <1>8, <1>9, <2>1, <2>2 DEF At
  <1> QED
    BY <1>1, <1>7, <1>10, <1>11, <1>12, <1>13 DEF AcceptanceInv

LEMMA ExpireInv ==
  ASSUME AcceptanceInv, NEW k \in Key, Expire(k)
  PROVE  AcceptanceInv'
  <1>1. /\ records[k].present /\ due' = due \union {k} /\ older' = [older EXCEPT ![k] = due]
        /\ UNCHANGED <<records, call, accepted, sweeping, swept, aborts>>
    BY DEF Expire
  <1>2. TypeOK'
    BY <1>1, Types DEF TypeOK
  <1>3. \A q \in Key : RecordOK(q)'
    BY <1>1 DEF AcceptanceInv, RecordOK, JobsOf
  <1>4. SweepsDisjoint' /\ \A c \in Call : CallOK(c)'
    BY <1>1 DEF AcceptanceInv, SweepsDisjoint, CallOK, At
  <1> QED
    BY <1>1, <1>2, <1>3, <1>4 DEF AcceptanceInv, At

\* A sweep locks what nobody has locked, or lets its locks go.
LEMMA LocksInv ==
  ASSUME AcceptanceInv, NEW s \in Sweeper, SweepLocks(s) \/ SweepAborts(s)
  PROVE  AcceptanceInv'
  <1>1. PICK batch \in SUBSET due :
          /\ sweeping' = [sweeping EXCEPT ![s] = batch]
          /\ \A k \in batch : ~Locked(k)
          /\ UNCHANGED <<records, due, older, call, accepted, swept>>
    BY DEF SweepLocks, SweepAborts, Batch, Unlocked
  <1>2. aborts' \in 0..MaxAborts
    BY Types, AcceptanceAssumption DEF SweepLocks, SweepAborts
  <1>3. \A t \in Sweeper : sweeping'[t] = IF t = s THEN batch ELSE sweeping[t]
    BY <1>1, Types
  <1>4. TypeOK'
    BY <1>1, <1>2, Types DEF TypeOK
  <1>5. \A t \in Sweeper : sweeping'[t] \subseteq due'
    BY <1>1, <1>3 DEF AcceptanceInv
  <1>6. \A k \in due : records[k].present
    BY Types DEF AcceptanceInv, RecordOK
  <1>7. SweepsDisjoint'
    <2> SUFFICES ASSUME NEW t \in Sweeper, NEW u \in Sweeper, NEW k \in sweeping'[t]
                 PROVE  /\ k \in sweeping'[u] => t = u
                        /\ records[k].present
                        /\ ~\E d \in Call : At(d, "locked") /\ call[d].key = k
      BY <1>1 DEF SweepsDisjoint, At
    <2>1. CASE k \in batch
      <3>1. /\ \A v \in Sweeper : k \notin sweeping[v]
            /\ ~\E d \in Call : At(d, "locked") /\ call[d].key = k
        BY <1>1, <2>1 DEF Locked
      <3> QED
        BY <1>3, <1>6, <2>1, <3>1
    <2>2. CASE k \notin batch
      BY <1>3, <2>2 DEF AcceptanceInv, SweepsDisjoint
    <2> QED
      BY <2>1, <2>2
  <1>8. \A c \in Call : CallOK(c)'
    BY <1>1 DEF AcceptanceInv, CallOK, At
  <1>9. \A k \in Key : RecordOK(k)'
    BY <1>1 DEF AcceptanceInv, RecordOK, JobsOf
  <1> QED
    BY <1>1, <1>4, <1>5, <1>7, <1>8, <1>9 DEF AcceptanceInv, At

\* The sweep removes what no call and no other sweep holds.
LEMMA DeletesInv ==
  ASSUME AcceptanceInv, NEW s \in Sweeper, SweepDeletes(s)
  PROVE  AcceptanceInv'
  <1>1. PICK batch \in SUBSET Key : batch = sweeping[s]
    BY Types
  <1>2. /\ records' = [k \in Key |-> IF k \in batch THEN Absent ELSE records[k]]
        /\ due' = due \ batch /\ swept' = swept \union batch
        /\ older' = [k \in Key |-> IF k \in due' THEN older[k] \ batch ELSE {}]
        /\ sweeping' = [sweeping EXCEPT ![s] = {}]
        /\ UNCHANGED <<call, accepted, aborts>>
    BY <1>1 DEF SweepDeletes
  <1>3. /\ \A k \in Key : k \in batch => ~records'[k].present /\ k \in swept'
        /\ \A k \in Key : k \notin batch => records'[k] = records[k]
    BY <1>2, AbsentTyped
  <1>4. TypeOK'
    BY <1>2, AbsentTyped, Types DEF TypeOK
  <1>5. /\ \A t \in Sweeper : t # s => /\ sweeping'[t] = sweeping[t]
                                       /\ \A k \in sweeping[t] : k \notin batch
        /\ sweeping'[s] = {}
    BY <1>1, <1>2, Types DEF AcceptanceInv, SweepsDisjoint
  <1>6. \A t \in Sweeper : sweeping'[t] \subseteq due'
    BY <1>2, <1>5 DEF AcceptanceInv
  <1>7. SweepsDisjoint'
    <2> SUFFICES ASSUME NEW t \in Sweeper, NEW u \in Sweeper, NEW k \in sweeping'[t]
                 PROVE  /\ k \in sweeping'[u] => t = u
                        /\ records'[k].present
                        /\ ~\E d \in Call : At(d, "locked") /\ call[d].key = k
      BY <1>2 DEF SweepsDisjoint, At
    <2>1. t # s /\ k \in sweeping[t] /\ k \notin batch /\ k \in Key
      BY <1>5, Types
    <2> QED
      BY <1>3, <1>5, <2>1 DEF AcceptanceInv, SweepsDisjoint
  <1>8. ASSUME NEW c \in Call PROVE CallOK(c)'
    <2>1. CallOK(c) /\ call[c].key \in Key /\ swept \subseteq swept'
      BY <1>2, Types DEF AcceptanceInv
    <2>2. At(c, "locked") => call[c].key \notin batch
      BY <1>1 DEF AcceptanceInv, SweepsDisjoint
    <2> QED
      BY <1>2, <1>3, <2>1, <2>2 DEF CallOK, At
  <1>9. ASSUME NEW k \in Key PROVE RecordOK(k)'
    <2>1. RecordOK(k) /\ JobsOf(k)' = JobsOf(k)
      BY <1>2 DEF AcceptanceInv, JobsOf
    <2> QED
      BY <1>2, <1>3, <2>1 DEF RecordOK
  <1> QED
    BY <1>2, <1>4, <1>6, <1>7, <1>8, <1>9 DEF AcceptanceInv, At

LEMMA StepInv == AcceptanceInv /\ [Next]_vars => AcceptanceInv'
  <1> SUFFICES ASSUME AcceptanceInv, [Next]_vars PROVE AcceptanceInv'
    OBVIOUS
  <1>1. CASE UNCHANGED vars
    <2>1. TypeOK' /\ SweepsDisjoint'
      BY <1>1 DEF vars, AcceptanceInv, TypeOK, SweepsDisjoint, At
    <2>2. (\A c \in Call : CallOK(c)') /\ (\A k \in Key : RecordOK(k)')
      BY <1>1 DEF vars, AcceptanceInv, CallOK, RecordOK, JobsOf, At
    <2> QED
      BY <1>1, <2>1, <2>2 DEF vars, AcceptanceInv, At
  <1>2. CASE Next
    BY <1>2, ReserveInv, SelectInv, EndInv, AcceptInv, ExpireInv, LocksInv, DeletesInv
       DEF Next, CallStep, SweepStep
  <1> QED
    BY <1>1, <1>2

\* accept_job_with_outbox and idempotency_expiry_sweep, at every statement of
\* any number of them: calls, records and row locks tell one story.
THEOREM AcceptanceInvariant == Spec => []AcceptanceInv
  <1> QED
    BY InitInv, StepInv, PTL DEF Spec

\* At most one job per key until a sweep has removed the key's record.
THEOREM OneJob == Spec => []OneJobPerUnsweptKey
  <1>1. ASSUME AcceptanceInv, NEW k \in Key \ swept, NEW c \in JobsOf(k), NEW d \in JobsOf(k)
        PROVE  c = d
    BY <1>1 DEF AcceptanceInv, RecordOK
  <1>2. AcceptanceInv => OneJobPerUnsweptKey
    BY <1>1 DEF OneJobPerUnsweptKey
  <1> QED
    BY <1>2, AcceptanceInvariant, PTL

\* What a replay named stays committed and stays its own.
LEMMA ReplayStep ==
  ASSUME AcceptanceInv, AcceptanceInv', ReplayNamesOwnRequest, [Next]_vars
  PROVE  ReplayNamesOwnRequest'
  <1> SUFFICES ASSUME NEW c \in Call, At(c, "replayed")'
               PROVE  /\ call'[c].job \in accepted'
                      /\ call'[call'[c].job].key = call'[c].key
                      /\ call'[call'[c].job].hash = call'[c].hash
    BY DEF ReplayNamesOwnRequest
  <1>1. /\ \A d \in Call : call'[d].key = call[d].key /\ call'[d].hash = call[d].hash
        /\ accepted \subseteq accepted'
    <2>1. call \in [Call -> CallRecord]
      BY Types
    <2>2. ASSUME NEW d \in Call, NEW pc, NEW job, Goto(d, pc, job)
          PROVE  \A e \in Call : call'[e].key = call[e].key /\ call'[e].hash = call[e].hash
      BY <2>1, <2>2 DEF Goto, CallRecord
    <2>3. CASE UNCHANGED vars
      BY <2>3 DEF vars
    <2>4. CASE \E d \in Call : CallStep(d) \/ RollBack(d)
      <3>1. accepted \subseteq accepted'
        BY <2>4 DEF CallStep, RollBack, Reserve, SelectForUpdate, Replay, Accept
      <3>2. \E d \in Call : \E pc, job : Goto(d, pc, job)
        BY <2>4 DEF CallStep, RollBack, Reserve, SelectForUpdate, Replay, Accept
      <3> QED
        BY <2>2, <3>1, <3>2
    <2>5. CASE (\E k \in Key : Expire(k)) \/ \E s \in Sweeper : SweepStep(s) \/ SweepAborts(s)
      BY <2>5 DEF Expire, SweepStep, SweepLocks, SweepDeletes, SweepAborts
    <2> QED
      BY <2>3, <2>4, <2>5 DEF Next
  <1>2. CASE At(c, "replayed") /\ call'[c] = call[c]
    <2>1. /\ call[c].job \in accepted
          /\ call[call[c].job].key = call[c].key /\ call[call[c].job].hash = call[c].hash
      BY <1>2 DEF ReplayNamesOwnRequest
    <2> QED
      BY <1>1, <1>2, <2>1, Types
  <1>3. CASE Replay(c)
    <2>1. /\ At(c, "locked") /\ RecordOf(c).hash = call[c].hash /\ Goto(c, "replayed", call[c].job)
      BY <1>3, Types DEF Replay, Goto, At, CallRecord
    <2>2. /\ RecordOf(c).present /\ RecordOf(c).job = call[c].job /\ RecordOK(call[c].key)
      BY <2>1, Types DEF AcceptanceInv, CallOK, RecordOf
    <2>3. /\ call[c].job \in accepted /\ call[call[c].job].key = call[c].key
          /\ call[call[c].job].hash = call[c].hash
      BY <2>1, <2>2 DEF RecordOK, JobsOf, RecordOf
    <2>4. call'[c].job = call[c].job
      BY <2>1, Types DEF Goto, CallRecord
    <2> QED
      BY <1>1, <2>3, <2>4, Types
  <1>4. ~(At(c, "replayed") /\ call'[c] = call[c]) => Replay(c)
    <2>1. ASSUME NEW d \in Call, d # c, NEW pc, NEW job, Goto(d, pc, job)
          PROVE  call'[c] = call[c]
      BY <2>1, Types DEF Goto
    <2>2. ASSUME NEW pc \in {"reserving", "conflicted", "locked", "unbound", "accepted", "lost"},
                 NEW job, Goto(c, pc, job)
          PROVE  FALSE
      BY <2>2, Types DEF Goto, At, CallRecord
    <2>3. CASE \E d \in Call \ {c} : CallStep(d) \/ RollBack(d)
      <3>1. \E d \in Call \ {c} : \E pc, job : Goto(d, pc, job)
        BY <2>3 DEF CallStep, RollBack, Reserve, SelectForUpdate, Replay, Accept
      <3> QED
        BY <2>1, <3>1 DEF At
    <2>4. CASE CallStep(c) \/ RollBack(c)
      <3>1. ~Replay(c) => \E pc \in {"reserving", "conflicted", "locked", "unbound", "accepted", "lost"} :
                            \E job : Goto(c, pc, job)
        BY <2>4 DEF CallStep, RollBack, Reserve, SelectForUpdate, Accept
      <3> QED
        BY <2>2, <3>1
    <2>5. CASE UNCHANGED call
      BY <2>5 DEF At
    <2>6. (\E k \in Key : Expire(k)) \/ (\E s \in Sweeper : SweepStep(s) \/ SweepAborts(s))
            => UNCHANGED call
      BY DEF Expire, SweepStep, SweepLocks, SweepDeletes, SweepAborts
    <2> QED
      BY <2>3, <2>4, <2>5, <2>6 DEF Next, vars
  <1> QED
    BY <1>2, <1>3, <1>4

\* A replay answers with a job of the same key and the same request, also when
\* the record it read has been swept since.
THEOREM ReplaysAreOwn == Spec => []ReplayNamesOwnRequest
  <1>1. Init => ReplayNamesOwnRequest
    BY DEF Init, ReplayNamesOwnRequest, At
  <1> QED
    BY <1>1, AcceptanceInvariant, ReplayStep, PTL DEF Spec

\* The only steps that change a record that is there delete it under the lock
\* of a sweep.
LEMMA BoundStep ==
  ASSUME AcceptanceInv, Next, NEW k \in Key, records[k].present, records'[k] # records[k]
  PROVE  /\ k \in due /\ ~records'[k].present
         /\ \A c \in Call : call[c].key = k => ~At(c, "locked")
  <1>1. ASSUME NEW c \in Call, Accept(c) PROVE FALSE
    <2>1. /\ At(c, "reserving") => ~records[call[c].key].present
          /\ call[c].key \in Key /\ records \in [Key -> Record]
      BY Types DEF AcceptanceInv, CallOK
    <2> QED
      BY <1>1, <2>1 DEF Accept, CompleteRecord
  <1>2. PICK s \in Sweeper : SweepDeletes(s)
    BY <1>1
    DEF Next, CallStep, Reserve, SelectForUpdate, Replay, RollBack, Expire, SweepStep,
        SweepLocks, SweepAborts
  <1>3. k \in sweeping[s] /\ ~records'[k].present
    BY <1>2, AbsentTyped DEF SweepDeletes
  <1> QED
    BY <1>3 DEF AcceptanceInv, SweepsDisjoint

\* A key stays bound to its first job for its thirty days, and until a sweep
\* removes its record, which no replay is reading then.
THEOREM KeysStayBound == Spec => BoundUntilSwept
  <1>1. AcceptanceInv /\ [Next]_vars =>
          [\A k \in Key : records[k].present /\ records'[k] # records[k] =>
             /\ k \in due /\ ~records'[k].present
             /\ \A c \in Call : call[c].key = k => ~At(c, "locked")]_vars
    BY BoundStep
  <1> QED
    BY <1>1, AcceptanceInvariant, PTL DEF Spec, BoundUntilSwept

\* The reach of expired_key_race: a job is accepted without leaving a record
\* behind only for a key whose record a sweep has removed before.
UnreservedOnlyAfterSweep ==
  [][\A c \in accepted' \ accepted :
       \/ records'[call[c].key] = [present |-> TRUE, hash |-> call[c].hash, job |-> c]
       \/ call[c].key \in swept]_vars

\* Without a sweep of the key, accept_job_with_outbox always completes the
\* record it reserved, however its calls overlap, fail and come back.
THEOREM UnreservedNeedsSweep == Spec => UnreservedOnlyAfterSweep
  <1>1. ASSUME AcceptanceInv, Next, NEW c \in accepted' \ accepted
        PROVE  \/ records'[call[c].key] = [present |-> TRUE, hash |-> call[c].hash, job |-> c]
               \/ call[c].key \in swept
    <2>1. c \in Call /\ Accept(c)
      BY <1>1, Types
      DEF Next, CallStep, Reserve, SelectForUpdate, Replay, RollBack, Accept, Expire, SweepStep,
          SweepLocks, SweepDeletes, SweepAborts
    <2>2. CallOK(c) /\ call[c].key \in Key /\ records \in [Key -> Record]
      BY <1>1, <2>1, Types DEF AcceptanceInv
    <2>3. CASE At(c, "reserving")
      BY <2>1, <2>2, <2>3 DEF Accept, CompleteRecord
    <2>4. CASE At(c, "unbound")
      BY <2>2, <2>4 DEF CallOK
    <2> QED
      BY <2>1, <2>3, <2>4 DEF Accept, At
  <1>2. AcceptanceInv /\ [Next]_vars =>
          [\A c \in accepted' \ accepted :
             \/ records'[call[c].key] = [present |-> TRUE, hash |-> call[c].hash, job |-> c]
             \/ call[c].key \in swept]_vars
    BY <1>1
  <1> QED
    BY <1>2, AcceptanceInvariant, PTL DEF Spec, UnreservedOnlyAfterSweep
=============================================================================
