------------------------ MODULE UploadPipelineProofs ------------------------
(***************************************************************************)
(* Theorems about UploadPipeline: for any number of overlapping requests,  *)
(* deliveries, database calls and faults, the Workers use the store as any *)
(* of its clients may, and what they answer is what it holds.              *)
(*                                                                         *)
(* The argument: a handler awaits at most one call, whose arguments are    *)
(* its own locals; what a call or a handler once saw of the store stays    *)
(* true, because versions only grow and records are written once.          *)
(***************************************************************************)
EXTENDS UploadPipeline, ObjectStoreProofs

RequestRow == [at : Stage, object : Object, key : Key, ifMatch : Hash, answer : Answer]
VerifierRow == [at : {"idle", "claiming", "observing", "finishing"},
                object : Object \union {Nobody}, version : Nat]

Witness == SUBSET (Observation \union {"none"})

\* The version is not ahead of the row, and the row at it is being verified.
Current(o, version) ==
  /\ version <= objects[o].version
  /\ version = objects[o].version => objects[o].state = "verifying"

\* Unless the row has moved on from the version, the verdict is backed by what
\* verifiers saw.
Earned(o, version, verdict) ==
  /\ version <= objects[o].version
  /\ version = objects[o].version => Backed(o, verdict)

Recorded(r) ==
  records[request[r].key] = [object |-> request[r].object, hash |-> request[r].ifMatch]

\* What a database call carries, and what its answer means.
CommitOK(c) ==
  LET r == rpc[c].by
  IN  /\ r \in Request
      /\ rpc[c].object = request[r].object /\ rpc[c].version = request[r].ifMatch
      /\ rpc[c].arg \in Observation
      /\ rpc[c].waited => request[r].at \in {"committing", "recovering"}
      /\ rpc[c].answer \in {"committed", "replay"} => Recorded(r)
      /\ ~rpc[c].waited => faults >= IF request[r].at = "died" THEN 1 ELSE 2

ClaimOK(c) ==
  LET v == rpc[c].by
  IN  /\ v \in Verifier /\ rpc[c].object \in Object
      /\ rpc[c].waited => /\ verifier[v].at = "claiming"
                          /\ verifier[v].object = rpc[c].object
                          /\ verifier[v].version = rpc[c].version
      /\ rpc[c].answer = "claimed" => Current(rpc[c].object, rpc[c].version + 1)

FinishOK(c) ==
  LET v == rpc[c].by
  IN  /\ v \in Verifier /\ rpc[c].object \in sent /\ rpc[c].arg \in Terminal
      /\ rpc[c].waited => verifier[v].at = "finishing"
      /\ Earned(rpc[c].object, rpc[c].version, rpc[c].arg)

CallOK(c) ==
  /\ rpc[c].kind = "free" => ~rpc[c].waited
  /\ rpc[c].kind = "commit" => CommitOK(c)
  /\ rpc[c].kind = "claim" => ClaimOK(c)
  /\ rpc[c].kind = "finish" => FinishOK(c)

OneCall ==
  \A c, d \in Call : rpc[c].waited /\ rpc[d].waited /\ rpc[c].by = rpc[d].by => c = d

RequestOK(r) ==
  /\ request[r].at = "dispatching" => Recorded(r)
  /\ request[r].answer = "accepted" => Recorded(r)
  /\ request[r].at = "recovering" => faults >= 1

VerifierOK(v) ==
  /\ verifier[v].at # "idle" => verifier[v].object \in sent
  /\ verifier[v].at \in {"observing", "finishing"} => Current(verifier[v].object, verifier[v].version)

Judged(o) == objects[o].state \in Terminal => Backed(o, objects[o].state)

Inv ==
  /\ StoreInv
  /\ PipelineTypeOK
  /\ OneCall
  /\ \A c \in Call : CallOK(c)
  /\ \A r \in Request : RequestOK(r)
  /\ \A v \in Verifier : VerifierOK(v)
  /\ \A o \in Object : Judged(o)
  /\ \A o \in sent : jobs[o].state # "absent"

LEMMA Facts ==
  ASSUME Inv
  PROVE  /\ objects \in [Object -> ObjectRow] /\ records \in [Key -> Record \union {NoRecord}]
         /\ bytes \in [Object -> Observation \union {"none"}] /\ rpc \in [Call -> Rpc]
         /\ request \in [Request -> RequestRow] /\ verifier \in [Verifier -> VerifierRow]
         /\ sent \subseteq Object /\ faults \in 0..MaxFaults /\ faults \in Nat
         /\ witnessed \in [Object -> Witness]
         /\ \A r \in Request : /\ request[r] \in RequestRow /\ request[r].key \in Key
                               /\ request[r].object \in Object /\ request[r].ifMatch \in Hash
                               /\ request[r].ifMatch \in Nat
         /\ \A v \in Verifier : verifier[v] \in VerifierRow /\ verifier[v].version \in Nat
         /\ \A o \in Object : objects[o].version \in Nat
         /\ \A c \in Call : rpc[c] \in Rpc /\ rpc[c].version \in Nat
  <1>1. /\ objects \in [Object -> ObjectRow] /\ records \in [Key -> Record \union {NoRecord}]
        /\ bytes \in [Object -> Observation \union {"none"}] /\ rpc \in [Call -> Rpc]
        /\ request \in [Request -> RequestRow] /\ verifier \in [Verifier -> VerifierRow]
        /\ sent \subseteq Object /\ faults \in 0..MaxFaults /\ witnessed \in [Object -> Witness]
    BY DEF Inv, PipelineTypeOK, StoreTypeOK, RequestRow, VerifierRow, Witness
  <1>2. \A r \in Request : request[r] \in RequestRow
    BY <1>1
  <1>3. \A r \in Request : /\ request[r].key \in Key /\ request[r].object \in Object
                           /\ request[r].ifMatch \in Hash /\ request[r].ifMatch \in Nat
    BY <1>2, PipelineAssumption DEF RequestRow
  <1>4. \A v \in Verifier : verifier[v] \in VerifierRow /\ verifier[v].version \in Nat
    BY <1>1 DEF VerifierRow
  <1>5. \A o \in Object : objects[o].version \in Nat
    BY <1>1 DEF ObjectRow
  <1>6. \A c \in Call : rpc[c] \in Rpc /\ rpc[c].version \in Nat
    BY <1>1 DEF Rpc
  <1> QED
    BY <1>1, <1>2, <1>3, <1>4, <1>5, <1>6, PipelineAssumption

-----------------------------------------------------------------------------
\* Every step of the Workers is a step of the store, or none.

LEMMA CommitIsStore ==
  ASSUME Inv, NEW c \in Call, CommitRuns(c)
  PROVE  StoreNext
  <1>1. PICK r \in Request, o \in Object, v \in Hash, k \in Key, arg \in Observation :
          /\ o = rpc[c].object /\ v = rpc[c].version /\ k = request[rpc[c].by].key
          /\ arg = rpc[c].arg
    BY Facts DEF CommitRuns, Inv, CallOK, CommitOK
  <1>2. CompleteUploadIntent(c, k, v, o, v, arg) \/ ChangeNothing(c)
    BY <1>1 DEF CommitRuns
  <1>3. CASE CompleteUploadIntent(c, k, v, o, v, arg)
    <2>1. objects[o].version = v /\ objects[o].state # "absent"
      BY <1>3 DEF CompleteUploadIntent, Completable
    <2>2. objects[o].version \in Nat /\ objects[o].version # 0
      BY <2>1, Facts DEF Inv, StoreInv, RowsAgree
    <2>3. v \in 1..objects[o].version
      BY <2>1, <2>2
    <2> QED
      BY <1>3, <2>3 DEF StoreNext
  <1> QED
    BY <1>2, <1>3 DEF StoreNext

LEMMA VerifyIsStore ==
  ASSUME Inv, NEW c \in Call, ClaimRuns(c) \/ FinishRuns(c)
  PROVE  StoreNext
  <1>1. PICK o \in Object, v \in Nat : o = rpc[c].object /\ v = rpc[c].version
    BY Facts DEF ClaimRuns, FinishRuns, Inv, CallOK, ClaimOK, FinishOK
  <1>2. \/ StartVerification(c, o, v)
        \/ rpc[c].arg \in Terminal /\ FinishVerification(c, o, v, rpc[c].arg)
        \/ ChangeNothing(c)
    BY <1>1 DEF ClaimRuns, FinishRuns, Inv, CallOK, FinishOK
  <1>3. StartVerification(c, o, v) \/ FinishVerification(c, o, v, rpc[c].arg)
          => v \in 1..objects[o].version
    <2>1. StartVerification(c, o, v) \/ FinishVerification(c, o, v, rpc[c].arg)
            => objects[o].version = v /\ objects[o].state # "absent"
      BY DEF StartVerification, Startable, FinishVerification, VerdictDue
    <2>2. objects[o].version \in Nat /\ (objects[o].state # "absent" => objects[o].version # 0)
      BY Facts DEF Inv, StoreInv, RowsAgree
    <2> QED
      BY <2>1, <2>2
  <1> QED
    BY <1>2, <1>3 DEF StoreNext

LEMMA StepIsStore ==
  ASSUME Inv, [PipelineNext]_pipelineVars
  PROVE  [StoreNext]_storeVars
  <1>1. ASSUME NEW c \in Call, RpcStep(c) \/ RpcFails(c) PROVE StoreNext \/ UNCHANGED storeVars
    BY <1>1, CommitIsStore, VerifyIsStore DEF RpcStep, RpcFails, RpcPassesGate, RpcFenced, StoreNext
  <1>2. ASSUME NEW r \in Request, RequestStep(r) \/ RequestFails(r) \/ RequestDies(r)
                 \/ \E c \in Call : RecoverTimesOut(r, c)
        PROVE  StoreNext \/ UNCHANGED storeVars
    <2>1. ASSUME NEW c \in Call, Recover(r, c) PROVE StoreNext \/ UNCHANGED storeVars
      <3>1. CASE c \in admitted
        BY <2>1, <3>1 DEF Recover, ChangeNothing, EndCall, StoreNext
      <3>2. CASE c \notin admitted
        BY <2>1, <3>2 DEF Recover, storeVars
      <3> QED
        BY <3>1, <3>2
    <2>2. ASSUME NEW c \in Call, TakeCommit(r, c) \/ RecoverTimesOut(r, c) PROVE UNCHANGED storeVars
      BY <2>2 DEF TakeCommit, RecoverTimesOut
    <2>3. ASSUME ReadIntent(r) \/ ObserveUpload(r) \/ Dispatch(r) \/ RequestFails(r) \/ RequestDies(r)
          PROVE  UNCHANGED storeVars
      BY <2>3 DEF ReadIntent, ObserveUpload, Dispatch, RequestFails, RequestDies
    <2> QED
      BY <1>2, <2>1, <2>2, <2>3 DEF RequestStep
  <1>3. ASSUME NEW v \in Verifier, VerifierStep(v) \/ VerifierInterrupted(v)
        PROVE  UNCHANGED storeVars
    BY <1>3 DEF VerifierStep, VerifierInterrupted, Deliver, ObserveObject, TakeClaim, TakeFinish
  <1>4. ASSUME NEW o \in Object, PutBytes(o) PROVE UNCHANGED storeVars
    BY <1>4 DEF PutBytes
  <1>5. UNCHANGED pipelineVars => UNCHANGED storeVars
    BY DEF pipelineVars
  <1> QED
    BY <1>1, <1>2, <1>3, <1>4, <1>5 DEF PipelineNext, StoreNext
-----------------------------------------------------------------------------
\* What no step of anyone takes back: versions, uploads, their evidence and
\* the records of the keys; what verifiers saw; the requests' parameters; messages.
Grows ==
  /\ \A o \in Object :
       /\ objects[o].version <= objects'[o].version
       /\ objects'[o].version = objects[o].version => objects'[o] = objects[o]
       /\ jobs[o].state # "absent" =>
            jobs'[o].state # "absent" /\ objects'[o].observed = objects[o].observed
  /\ \A k \in Key : records[k] # NoRecord => records'[k] = records[k]

Steady ==
  /\ Grows
  /\ \A o \in Object : witnessed[o] \subseteq witnessed'[o]
  /\ \A r \in Request : /\ request'[r].object = request[r].object
                        /\ request'[r].key = request[r].key
                        /\ request'[r].ifMatch = request[r].ifMatch
  /\ sent \subseteq sent'
  /\ faults' \in Nat /\ faults <= faults'

LEMMA StoreGrows ==
  ASSUME StoreInv, [StoreNext]_storeVars
  PROVE  StoreInv' /\ Grows
  <1>1. StoreInv'
    BY StoreStepInv
  <1>2. /\ \A o \in Object : objects[o].version \in Nat /\ Agree(o)
        /\ objects \in [Object -> ObjectRow]
    BY InvParts DEF StoreTypeOK, ObjectRow
  <1>3. \A o \in Object : Agree(o)'
    BY <1>1, InvParts DEF StoreInv, RowsAgree, Agree
  <1>4. ASSUME NEW o \in Object
        PROVE  /\ objects[o].version <= objects'[o].version
               /\ objects'[o].version = objects[o].version => objects'[o] = objects[o]
               /\ jobs[o].state # "absent" =>
                    jobs'[o].state # "absent" /\ objects'[o].observed = objects[o].observed
    <2>1. CASE objects'[o] = objects[o]
      BY <1>2, <1>3, <2>1 DEF Agree
    <2>2. CASE objects'[o] # objects[o]
      <3>1. PICK q \in Object : Moves(q)
        BY <2>2, EveryMove
      <3>2. q = o
        BY <1>2, <2>2, <3>1 DEF Moves
      <3>3. objects'[o].version = objects[o].version + 1
        BY <3>1, <3>2 DEF Moves
      <3>4. jobs[o].state # "absent" => objects[o].state \notin {"absent", "pending_upload"}
        BY <1>2 DEF Agree
      <3>5. jobs[o].state # "absent" =>
              objects'[o].state \notin {"absent", "pending_upload"} /\ objects'[o].observed = objects[o].observed
        BY <3>1, <3>2, <3>4 DEF Moves, Terminal
      <3>6. jobs[o].state # "absent" => jobs'[o].state # "absent"
        BY <1>3, <3>5 DEF Agree
      <3> QED
        BY <1>2, <3>3, <3>5, <3>6
    <2> QED
      BY <2>1, <2>2
  <1>5. ASSUME NEW k \in Key, records[k] # NoRecord PROVE records'[k] = records[k]
    <2>1. ASSUME NEW c \in Call, NEW q \in Key, NEW h, NEW o, NEW version, NEW observed,
                 CompleteUploadIntent(c, q, h, o, version, observed)
          PROVE  records'[k] = records[k]
      <3>1. records' = [records EXCEPT ![q] = [object |-> o, hash |-> h]] /\ q # k
        BY <1>5, <2>1 DEF CompleteUploadIntent, Completable
      <3>2. records \in [Key -> Record \union {NoRecord}]
        BY InvParts DEF StoreTypeOK
      <3> QED
        BY <3>1, <3>2
    <2>2. ASSUME NEW c \in Call, NEW o \in Object, NEW version, StartVerification(c, o, version)
          PROVE  UNCHANGED records
      BY <2>2 DEF StartVerification
    <2>3. ASSUME NEW c \in Call, NEW o \in Object, NEW version, NEW verdict,
                 FinishVerification(c, o, version, verdict)
          PROVE  UNCHANGED records
      BY <2>3 DEF FinishVerification
    <2>4. CASE \E c \in Call : PassGate(c) \/ ChangeNothing(c)
      BY <2>4 DEF PassGate, ChangeNothing
    <2>5. CASE \E o \in Object : CreateUploadIntent(o) \/ IntentLapses(o)
      BY <2>5 DEF CreateUploadIntent, IntentLapses
    <2> QED
      BY <2>1, <2>2, <2>3, <2>4, <2>5 DEF StoreNext, storeVars
  <1> QED
    BY <1>1, <1>4, <1>5 DEF Grows

\* What a call, a request or a verifier knows is still true after such a step.
LEMMA StillRecorded ==
  ASSUME Inv, Steady, NEW r \in Request, Recorded(r)
  PROVE  Recorded(r)'
  <1>1. /\ request[r].key \in Key /\ request[r].object \in Object /\ request[r].ifMatch \in Hash
    BY Facts
  <1>2. records[request[r].key] # NoRecord
    BY <1>1, StoreAssumption DEF Recorded
  <1> QED
    BY <1>1, <1>2 DEF Recorded, Steady, Grows

LEMMA StillCurrent ==
  ASSUME Inv, StoreInv', Steady, NEW o \in Object, NEW version \in Nat, Current(o, version)
  PROVE  Current(o, version)'
  <1>1. objects[o].version \in Nat /\ objects'[o].version \in Nat
    BY Facts DEF StoreInv, StoreTypeOK, ObjectRow
  <1> QED
    BY <1>1 DEF Current, Steady, Grows

LEMMA StillBacked ==
  ASSUME Steady, NEW o \in Object, NEW verdict, Backed(o, verdict)
  PROVE  Backed(o, verdict)'
  BY DEF Backed, Steady

LEMMA StillEarned ==
  ASSUME Inv, StoreInv', Steady, NEW o \in Object, NEW version \in Nat, NEW verdict,
         Earned(o, version, verdict)
  PROVE  Earned(o, version, verdict)'
  <1>1. objects[o].version \in Nat /\ objects'[o].version \in Nat /\ objects[o].version <= objects'[o].version
    BY Facts DEF StoreInv, StoreTypeOK, ObjectRow, Steady, Grows
  <1>2. Backed(o, verdict) => Backed(o, verdict)'
    BY StillBacked
  <1> QED
    BY <1>1, <1>2 DEF Earned

\* A call whose parameters stay: what else it must satisfy after the step.
LEMMA CallCarries ==
  ASSUME Inv, StoreInv', Steady, NEW c \in Call,
         rpc'[c].kind = rpc[c].kind, rpc'[c].by = rpc[c].by, rpc'[c].object = rpc[c].object,
         rpc'[c].version = rpc[c].version, rpc'[c].arg = rpc[c].arg,
         rpc'[c].waited => rpc[c].waited,
         rpc'[c].waited /\ rpc[c].by \in Request =>
           request'[rpc[c].by].at \in {"committing", "recovering"},
         rpc'[c].waited /\ rpc[c].by \in Verifier => verifier'[rpc[c].by] = verifier[rpc[c].by],
         rpc[c].kind = "commit" /\ rpc'[c].answer \in {"committed", "replay"} => Recorded(rpc[c].by)',
         rpc[c].kind = "claim" /\ rpc'[c].answer = "claimed" =>
           Current(rpc[c].object, rpc[c].version + 1)',
         rpc[c].kind = "commit" /\ ~rpc'[c].waited =>
           faults' >= IF request'[rpc[c].by].at = "died" THEN 1 ELSE 2
  PROVE  CallOK(c)'
  <1>1. CallOK(c)
    BY DEF Inv
  <1>2. rpc[c].kind = "commit" => CommitOK(c)'
    <2> SUFFICES ASSUME rpc[c].kind = "commit" PROVE CommitOK(c)'
      OBVIOUS
    <2>1. PICK r \in Request : r = rpc[c].by /\ CommitOK(c)
      BY <1>1 DEF CallOK, CommitOK
    <2>2. request'[r].object = request[r].object /\ request'[r].ifMatch = request[r].ifMatch
      BY DEF Steady
    <2> QED
      BY <2>1, <2>2 DEF CommitOK, Recorded
  <1>3. rpc[c].kind = "claim" => ClaimOK(c)'
    BY <1>1 DEF CallOK, ClaimOK, Current
  <1>4. rpc[c].kind = "finish" => FinishOK(c)'
    <2> SUFFICES ASSUME rpc[c].kind = "finish" PROVE FinishOK(c)'
      OBVIOUS
    <2>1. FinishOK(c)
      BY <1>1 DEF CallOK
    <2>2. PICK o \in Object, version \in Nat, verdict \in Terminal :
            o = rpc[c].object /\ version = rpc[c].version /\ verdict = rpc[c].arg
      BY <2>1, Facts DEF FinishOK
    <2>3. Earned(o, version, verdict)' /\ o \in sent'
      BY <2>1, <2>2, StillEarned DEF FinishOK, Steady
    <2> QED
      BY <2>1, <2>2, <2>3 DEF FinishOK, Earned, Backed
  <1> QED
    BY <1>1, <1>2, <1>3, <1>4 DEF CallOK

\* What the answer of a call meant, it still means.
LEMMA AnswerKept ==
  ASSUME Inv, StoreInv', Steady, NEW c \in Call
  PROVE  /\ rpc[c].kind = "commit" /\ rpc[c].answer \in {"committed", "replay"} =>
              (\A r \in Request : r = rpc[c].by => Recorded(r)')
         /\ rpc[c].kind = "claim" /\ rpc[c].answer = "claimed" =>
              (\A o \in Object, v \in Nat : o = rpc[c].object /\ v = rpc[c].version + 1 => Current(o, v)')
  BY StillRecorded, StillCurrent DEF Inv, CallOK, CommitOK, ClaimOK

\* A call that no step touches, while its awaiting handler stays where it is.
LEMMA CallKept ==
  ASSUME Inv, StoreInv', Steady, NEW c \in Call, rpc'[c] = rpc[c],
         rpc[c].waited /\ rpc[c].by \in Request =>
           request'[rpc[c].by].at \in {"committing", "recovering"},
         rpc[c].waited /\ rpc[c].by \in Verifier => verifier'[rpc[c].by] = verifier[rpc[c].by],
         \A r \in Request : request[r].at = "died" => request'[r].at = "died"
  PROVE  CallOK(c)'
  <1>1. CallOK(c) /\ rpc[c].version + 1 \in Nat
    BY Facts DEF Inv
  <1>2. rpc[c].kind = "commit" /\ rpc[c].answer \in {"committed", "replay"} => Recorded(rpc[c].by)'
    <2> SUFFICES ASSUME rpc[c].kind = "commit", rpc[c].answer \in {"committed", "replay"}
                 PROVE  Recorded(rpc[c].by)'
      OBVIOUS
    <2>1. PICK r \in Request : r = rpc[c].by
      BY <1>1 DEF CallOK, CommitOK
    <2>2. Recorded(r)'
      BY <2>1, AnswerKept
    <2> QED
      BY <2>1, <2>2 DEF Recorded
  <1>3. rpc[c].kind = "claim" /\ rpc[c].answer = "claimed" =>
          Current(rpc[c].object, rpc[c].version + 1)'
    <2> SUFFICES ASSUME rpc[c].kind = "claim", rpc[c].answer = "claimed"
                 PROVE  Current(rpc[c].object, rpc[c].version + 1)'
      OBVIOUS
    <2>1. PICK o \in Object, v \in Nat : o = rpc[c].object /\ v = rpc[c].version + 1
      BY <1>1 DEF CallOK, ClaimOK
    <2>2. Current(o, v)'
      BY <2>1, AnswerKept
    <2> QED
      BY <2>1, <2>2 DEF Current
  <1>4. rpc[c].kind = "commit" /\ ~rpc[c].waited =>
          faults' >= IF request'[rpc[c].by].at = "died" THEN 1 ELSE 2
    <2>1. faults \in Nat /\ faults' \in Nat /\ faults <= faults'
      BY Facts DEF Steady
    <2> QED
      BY <1>1, <2>1 DEF CallOK, CommitOK
  <1> QED
    BY <1>2, <1>3, <1>4, CallCarries

LEMMA RequestKept ==
  ASSUME Inv, Steady, NEW r \in Request, request'[r] = request[r]
  PROVE  RequestOK(r)'
  <1>1. RequestOK(r) /\ faults \in Nat /\ faults' \in Nat /\ faults <= faults'
    BY Facts DEF Inv, Steady
  <1>2. Recorded(r) => Recorded(r)'
    BY StillRecorded
  <1> QED
    BY <1>1, <1>2 DEF RequestOK

LEMMA VerifierKept ==
  ASSUME Inv, StoreInv', Steady, NEW v \in Verifier, verifier'[v] = verifier[v]
  PROVE  VerifierOK(v)'
  <1>1. VerifierOK(v) /\ verifier[v].version \in Nat
    BY Facts DEF Inv
  <1>2. CASE verifier[v].at = "idle"
    BY <1>2 DEF VerifierOK
  <1>3. CASE verifier[v].at # "idle"
    <2>1. verifier[v].object \in sent /\ verifier[v].object \in Object
      BY <1>1, <1>3, Facts DEF VerifierOK
    <2>2. verifier[v].at \in {"observing", "finishing"} =>
            Current(verifier[v].object, verifier[v].version)'
      BY <1>1, <2>1, StillCurrent DEF VerifierOK
    <2> QED
      BY <1>1, <2>1, <2>2 DEF VerifierOK, Steady, Current
  <1> QED
    BY <1>2, <1>3

\* Verdicts and messages, when no verdict is given in the step.
LEMMA VerdictsKept ==
  ASSUME Inv, Steady, \A o \in Object : objects'[o].state \in Terminal => objects'[o].state = objects[o].state
  PROVE  \A o \in Object : Judged(o)'
  BY DEF Inv, Judged, Backed, Steady

LEMMA SentKept ==
  ASSUME Inv, Steady, \A o \in sent' \ sent : jobs[o].state # "absent", sent' \subseteq Object
  PROVE  \A o \in sent' : jobs'[o].state # "absent"
  BY DEF Inv, Steady, Grows

\* At most one awaited call each: a step frees one, or sends one for a handler
\* that awaits none.
LEMMA OneCallKept ==
  ASSUME Inv, NEW c \in Call, NEW new, rpc' = [rpc EXCEPT ![c] = new],
         new.waited => \A d \in Call : d # c /\ rpc[d].waited => rpc[d].by # new.by
  PROVE  OneCall'
  BY Facts DEF Inv, OneCall

\* The row a call leaves behind.
LEMMA RpcRows ==
  ASSUME Inv, NEW c \in Call
  PROVE  /\ FreeRpc \in Rpc /\ FreeRpc.kind = "free" /\ ~FreeRpc.waited
         /\ \A answer \in Reply : [rpc[c] EXCEPT !.answer = answer] \in Rpc
         /\ [rpc[c] EXCEPT !.waited = FALSE] \in Rpc
  <1>1. rpc[c] \in Rpc
    BY Facts
  <1>2. FreeRpc \in Rpc /\ FreeRpc.kind = "free" /\ ~FreeRpc.waited
    BY DEF FreeRpc, Rpc
  <1> QED
    BY <1>1, <1>2 DEF Rpc
-----------------------------------------------------------------------------
\* The pieces of the next Inv.
LEMMA NextTypes ==
  ASSUME Inv, StoreInv', bytes' \in [Object -> Observation \union {"none"}], rpc' \in [Call -> Rpc],
         request' \in [Request -> RequestRow], verifier' \in [Verifier -> VerifierRow],
         sent' \subseteq Object, witnessed' \in [Object -> Witness], faults' \in 0..MaxFaults
  PROVE  PipelineTypeOK'
  BY DEF PipelineTypeOK, StoreInv, RequestRow, VerifierRow, Witness

\* A step that no handler and no call takes part in.
LEMMA QuietInv ==
  ASSUME Inv, StoreInv', Grows, UNCHANGED <<rpc, callers, faults>>,
         bytes' \in [Object -> Observation \union {"none"}],
         \A o \in Object : objects'[o].state \in Terminal => objects'[o].state = objects[o].state
  PROVE  Inv'
  <1>1. UNCHANGED <<rpc, request, verifier, sent, witnessed, faults>>
    BY DEF callers
  <1>2. Steady
    BY <1>1, Facts DEF Steady
  <1>3. PipelineTypeOK'
    BY <1>1, Facts, NextTypes
  <1>4. ASSUME NEW c \in Call PROVE CallOK(c)'
    <2>1. rpc[c].waited /\ rpc[c].by \in Request => request[rpc[c].by].at \in {"committing", "recovering"}
      BY Facts, PipelineAssumption DEF Inv, CallOK, CommitOK, ClaimOK, FinishOK, Rpc
    <2> QED
      BY <1>1, <1>2, <2>1, CallKept
  <1>5. /\ \A r \in Request : RequestOK(r)'
        /\ \A v \in Verifier : VerifierOK(v)'
    BY <1>1, <1>2, RequestKept, VerifierKept
  <1>6. /\ \A o \in Object : Judged(o)'
        /\ \A o \in sent' : jobs'[o].state # "absent"
    BY <1>1, <1>2, VerdictsKept, SentKept, Facts
  <1>7. OneCall'
    BY <1>1 DEF Inv, OneCall
  <1> QED
    BY <1>3, <1>4, <1>5, <1>6, <1>7 DEF Inv

\* A handler that awaits a call is at the stage that does.
LEMMA Waiting ==
  ASSUME Inv, NEW c \in Call, rpc[c].waited
  PROVE  /\ rpc[c].by \in Request => rpc[c].kind = "commit" /\ request[rpc[c].by].at \in {"committing", "recovering"}
         /\ rpc[c].by \in Verifier =>
              \/ rpc[c].kind = "claim" /\ verifier[rpc[c].by].at = "claiming"
              \/ rpc[c].kind = "finish" /\ verifier[rpc[c].by].at = "finishing"
         /\ rpc[c].kind # "free"
  BY Facts, PipelineAssumption DEF Inv, CallOK, CommitOK, ClaimOK, FinishOK, Rpc

\* A call returns: nobody but the call has moved.
LEMMA ReturnInv ==
  ASSUME Inv, StoreInv', Grows, NEW c \in Call, NEW answer \in Reply, Running(c), Return(c, answer),
         UNCHANGED <<bytes, callers>>, faults' \in 0..MaxFaults, faults <= faults',
         \A o \in Object : Judged(o)',
         rpc[c].kind = "commit" /\ answer \in {"committed", "replay"} =>
           \A r \in Request : r = rpc[c].by => Recorded(r)',
         rpc[c].kind = "claim" /\ answer = "claimed" =>
           \A o \in Object, v \in Nat : o = rpc[c].object /\ v = rpc[c].version + 1 => Current(o, v)'
  PROVE  Inv'
  <1>1. UNCHANGED <<bytes, request, verifier, sent, witnessed>> /\ faults' \in Nat
    BY DEF callers
  <1>2. Steady
    BY <1>1 DEF Steady
  <1>3. PICK new \in Rpc : /\ rpc' = [rpc EXCEPT ![c] = new]
                           /\ new = IF rpc[c].waited THEN [rpc[c] EXCEPT !.answer = answer] ELSE FreeRpc
    <2>1. rpc' = [rpc EXCEPT ![c] = IF rpc[c].waited THEN [rpc[c] EXCEPT !.answer = answer] ELSE FreeRpc]
      BY Facts DEF Return
    <2> QED
      BY <2>1, RpcRows
  <1>4. /\ rpc' \in [Call -> Rpc] /\ rpc'[c] = new /\ \A d \in Call : d # c => rpc'[d] = rpc[d]
    BY <1>3, Facts
  <1>5. PipelineTypeOK'
    BY <1>1, <1>4, Facts, NextTypes
  <1>6. CallOK(c)'
    <2>1. CASE ~rpc[c].waited
      BY <1>3, <1>4, <2>1, RpcRows DEF CallOK, FreeRpc
    <2>2. CASE rpc[c].waited
      <3>1. /\ new.kind = rpc[c].kind /\ new.by = rpc[c].by /\ new.object = rpc[c].object
            /\ new.version = rpc[c].version /\ new.arg = rpc[c].arg /\ new.waited
            /\ new.answer = answer
        BY <1>3, <2>2, Facts DEF Rpc
      <3>2. rpc[c].kind = "commit" /\ answer \in {"committed", "replay"} => Recorded(rpc[c].by)'
        <4>1. rpc[c].kind = "commit" => rpc[c].by \in Request /\ rpc'[c].by = rpc[c].by
          BY <1>4, <3>1 DEF Inv, CallOK, CommitOK
        <4> QED
          BY <4>1 DEF Recorded
      <3>3. rpc[c].kind = "claim" /\ answer = "claimed" =>
              Current(rpc[c].object, rpc[c].version + 1)'
        <4>1. rpc[c].kind = "claim" => rpc[c].object \in Object /\ rpc[c].version + 1 \in Nat
          BY Facts DEF Inv, CallOK, ClaimOK
        <4>2. rpc'[c].object = rpc[c].object /\ rpc'[c].version = rpc[c].version
          BY <1>4, <3>1
        <4> QED
          BY <4>1, <4>2 DEF Current
      <3>4. rpc'[c].answer = answer
        BY <1>4, <3>1
      <3> QED
        BY <1>1, <1>2, <1>4, <2>2, <3>1, <3>2, <3>3, <3>4, Waiting, CallCarries
    <2> QED
      BY <2>1, <2>2
  <1>7. ASSUME NEW d \in Call, d # c PROVE CallOK(d)'
    BY <1>1, <1>2, <1>4, <1>7, Waiting, CallKept
  <1>8. OneCall'
    <2>1. new.waited => rpc[c].waited /\ new.by = rpc[c].by
      BY <1>3, Facts, RpcRows DEF Rpc
    <2>2. new.waited => \A d \in Call : d # c /\ rpc[d].waited => rpc[d].by # new.by
      BY <2>1 DEF Inv, OneCall
    <2> QED
      BY <1>3, <2>2, OneCallKept
  <1>9. /\ \A r \in Request : RequestOK(r)'
        /\ \A v \in Verifier : VerifierOK(v)'
        /\ \A o \in sent' : jobs'[o].state # "absent"
    BY <1>1, <1>2, RequestKept, VerifierKept, SentKept, Facts
  <1> QED
    BY <1>5, <1>6, <1>7, <1>8, <1>9 DEF Inv
\* A step of one request: its own row and at most its own calls change.
LEMMA RequestMoves ==
  ASSUME Inv, StoreInv', Grows, NEW r \in Request, NEW row \in RequestRow,
         request' = [request EXCEPT ![r] = row],
         row.object = request[r].object, row.key = request[r].key, row.ifMatch = request[r].ifMatch,
         request[r].at = "died" => row.at = "died",
         UNCHANGED <<bytes, verifier, witnessed, objects, jobs>>,
         rpc' \in [Call -> Rpc], OneCall',
         \A c \in Call : rpc'[c] = rpc[c] \/ CallOK(c)',
         \A c \in Call : rpc'[c] = rpc[c] /\ rpc[c].waited /\ rpc[c].by = r =>
           row.at \in {"committing", "recovering"},
         RequestOK(r)',
         sent \subseteq sent', sent' \subseteq Object, \A o \in sent' \ sent : jobs[o].state # "absent",
         faults' \in 0..MaxFaults, faults <= faults'
  PROVE  Inv'
  <1>1. /\ request' \in [Request -> RequestRow] /\ request'[r] = row
        /\ \A q \in Request : q # r => request'[q] = request[q]
        /\ faults' \in Nat
    BY Facts
  <1>2. Steady
    BY <1>1 DEF Steady
  <1>3. PipelineTypeOK'
    BY <1>1, Facts, NextTypes
  <1>4. ASSUME NEW c \in Call PROVE CallOK(c)'
    <2>1. CASE rpc'[c] = rpc[c]
      <3>1. rpc[c].waited /\ rpc[c].by \in Request =>
              request'[rpc[c].by].at \in {"committing", "recovering"}
        BY <1>1, <2>1, Waiting
      <3>2. \A q \in Request : request[q].at = "died" => request'[q].at = "died"
        BY <1>1
      <3> QED
        BY <1>2, <2>1, <3>1, <3>2, CallKept
    <2> QED
      BY <2>1
  <1>5. \A q \in Request : RequestOK(q)'
    BY <1>1, <1>2, RequestKept
  <1>6. \A v \in Verifier : VerifierOK(v)'
    BY <1>2, VerifierKept
  <1>7. /\ \A o \in Object : Judged(o)'
        /\ \A o \in sent' : jobs'[o].state # "absent"
    BY <1>2, VerdictsKept, SentKept
  <1> QED
    BY <1>3, <1>4, <1>5, <1>6, <1>7 DEF Inv

Remembered ==
  /\ witnessed' \in [Object -> Witness]
  /\ \A o \in Object : witnessed[o] \subseteq witnessed'[o]

\* A step of one verifier, likewise; it changes nothing in the store.
LEMMA VerifierMoves ==
  ASSUME Inv, NEW v \in Verifier, NEW row \in VerifierRow,
         verifier' = [verifier EXCEPT ![v] = row],
         UNCHANGED <<storeVars, bytes, request, sent>>, Remembered,
         rpc' \in [Call -> Rpc], OneCall',
         \A c \in Call : rpc'[c] = rpc[c] \/ CallOK(c)',
         \A c \in Call : rpc'[c] = rpc[c] /\ rpc[c].waited => rpc[c].by # v,
         VerifierOK(v)',
         faults' \in 0..MaxFaults, faults <= faults'
  PROVE  Inv'
  <1>0. /\ StoreInv' /\ Grows /\ UNCHANGED <<objects, jobs>>
        /\ witnessed' \in [Object -> Witness] /\ \A o \in Object : witnessed[o] \subseteq witnessed'[o]
    BY StoreGrows DEF Inv, storeVars, Remembered
  <1>1. /\ verifier' \in [Verifier -> VerifierRow]
        /\ \A w \in Verifier : w # v => verifier'[w] = verifier[w]
        /\ faults' \in Nat
    BY Facts
  <1>2. Steady
    BY <1>0, <1>1 DEF Steady
  <1>3. PipelineTypeOK'
    BY <1>0, <1>1, Facts, NextTypes
  <1>4. ASSUME NEW c \in Call PROVE CallOK(c)'
    <2>1. CASE rpc'[c] = rpc[c]
      BY <1>0, <1>1, <1>2, <2>1, Waiting, CallKept
    <2> QED
      BY <2>1
  <1>5. \A r \in Request : RequestOK(r)'
    BY <1>2, RequestKept
  <1>6. \A w \in Verifier : VerifierOK(w)'
    BY <1>0, <1>1, <1>2, VerifierKept
  <1>7. /\ \A o \in Object : Judged(o)'
        /\ \A o \in sent' : jobs'[o].state # "absent"
    BY <1>0, <1>2, VerdictsKept, SentKept, Facts
  <1> QED
    BY <1>0, <1>3, <1>4, <1>5, <1>6, <1>7 DEF Inv

-----------------------------------------------------------------------------
\* The database calls.

LEMMA QuietSteps ==
  ASSUME Inv,
         \/ /\ \/ FenceStep /\ UNCHANGED <<objects, intents, lapsed, jobs, records, admitted>>
               \/ \E o \in Object : CreateUploadIntent(o) \/ IntentLapses(o)
            /\ UNCHANGED <<bytes, rpc, callers, faults>>
         \/ \E o \in Object : PutBytes(o)
         \/ \E c \in Call : RpcPassesGate(c)
  PROVE  Inv'
  <1>1. [StoreNext]_storeVars
    BY DEF StoreNext, PutBytes, RpcPassesGate
  <1>2. StoreInv' /\ Grows
    BY <1>1, StoreGrows DEF Inv
  <1>3. UNCHANGED <<rpc, callers, faults>>
    BY DEF PutBytes, RpcPassesGate
  <1>4. bytes' \in [Object -> Observation \union {"none"}]
    BY Facts DEF PutBytes, RpcPassesGate
  <1>5. \A o \in Object : objects'[o].state \in Terminal => objects'[o].state = objects[o].state
    <2>1. ASSUME NEW q \in Object, CreateUploadIntent(q), NEW o \in Object
          PROVE  objects'[o].state \in Terminal => objects'[o].state = objects[o].state
      <3>1. o # q => objects'[o] = objects[o]
        BY <2>1, Facts DEF CreateUploadIntent
      <3>2. objects'[q].state = "pending_upload"
        BY <2>1, Facts DEF CreateUploadIntent, ObjectRow
      <3> QED
        BY <3>1, <3>2 DEF Terminal
    <2>2. CASE UNCHANGED objects
      BY <2>2
    <2> QED
      BY <2>1, <2>2 DEF IntentLapses, PutBytes, RpcPassesGate, PassGate, storeVars
  <1> QED
    BY <1>2, <1>3, <1>4, <1>5, QuietInv

LEMMA FaultBound == Fault => faults' = faults + 1 /\ faults < MaxFaults
  BY DEF Fault

LEMMA FailedCallInv ==
  ASSUME Inv, NEW c \in Call, RpcFenced(c) \/ RpcFails(c)
  PROVE  Inv'
  <1>1. /\ Running(c) /\ Return(c, "unavailable") /\ UNCHANGED <<bytes, callers, objects>>
        /\ [StoreNext]_storeVars
    BY DEF RpcFenced, RpcFails, ChangeNothing, StoreNext, storeVars
  <1>2. StoreInv' /\ Grows
    BY <1>1, StoreGrows DEF Inv
  <1>3. faults' \in 0..MaxFaults /\ faults <= faults'
    BY Facts, PipelineAssumption DEF RpcFenced, RpcFails, Fault
  <1>4. \A o \in Object : Judged(o)'
    BY <1>1 DEF Inv, Judged, Backed, callers
  <1> QED
    BY <1>1, <1>2, <1>3, <1>4, ReturnInv DEF Reply

LEMMA CommitRunsInv ==
  ASSUME Inv, NEW c \in Call, CommitRuns(c)
  PROVE  Inv'
  <1>0. StoreInv' /\ Grows
    BY CommitIsStore, StoreGrows DEF Inv
  <1>1. PICK r \in Request, o \in Object, v \in Hash, k \in Key, arg \in Observation :
          /\ r = rpc[c].by /\ o = rpc[c].object /\ v = rpc[c].version /\ k = request[r].key
          /\ arg = rpc[c].arg /\ request[r].object = o /\ request[r].ifMatch = v
    BY Facts DEF CommitRuns, Inv, CallOK, CommitOK
  <1>2. /\ Running(c) /\ rpc[c].kind = "commit" /\ UNCHANGED <<bytes, callers, faults>>
        /\ \/ CompleteUploadIntent(c, k, v, o, v, arg) /\ Return(c, "committed")
           \/ records[k] = [object |-> o, hash |-> v] /\ ChangeNothing(c) /\ Return(c, "replay")
           \/ ChangeNothing(c) /\ Return(c, "conflict")
    BY <1>1 DEF CommitRuns
  <1>3. faults' \in 0..MaxFaults /\ faults <= faults'
    BY <1>2, Facts
  <1>4. UNCHANGED request
    BY <1>2 DEF callers
  <1>5. CASE CompleteUploadIntent(c, k, v, o, v, arg) /\ Return(c, "committed")
    <2>1. /\ objects'[o].state = "uploaded" /\ records'[k] = [object |-> o, hash |-> v]
          /\ \A q \in Object : q # o => objects'[q] = objects[q] /\ jobs'[q] = jobs[q]
      BY <1>5, Facts DEF CompleteUploadIntent, Inv, PipelineTypeOK, StoreTypeOK
    <2>2. ASSUME NEW q \in Object PROVE Judged(q)'
      <3>1. CASE q = o
        BY <2>1, <3>1 DEF Judged, Terminal
      <3>2. CASE q # o
        BY <1>2, <2>1, <3>2 DEF Judged, Backed, Inv, callers
      <3> QED
        BY <3>1, <3>2
    <2>3. Recorded(r)'
      BY <1>1, <1>4, <2>1 DEF Recorded
    <2> QED
      BY <1>0, <1>1, <1>2, <1>3, <1>5, <2>2, <2>3, ReturnInv DEF Reply
  <1>6. CASE ChangeNothing(c)
    <2>1. UNCHANGED <<objects, jobs, records>>
      BY <1>6 DEF ChangeNothing
    <2>2. \A q \in Object : Judged(q)'
      BY <1>2, <2>1 DEF Inv, Judged, Backed, callers
    <2>3. records[k] = [object |-> o, hash |-> v] => Recorded(r)'
      BY <1>1, <1>4, <2>1 DEF Recorded
    <2>4. CASE records[k] = [object |-> o, hash |-> v] /\ Return(c, "replay")
      BY <1>0, <1>1, <1>2, <1>3, <2>2, <2>3, <2>4, ReturnInv DEF Reply
    <2>5. CASE Return(c, "conflict")
      BY <1>0, <1>2, <1>3, <2>2, <2>5, ReturnInv DEF Reply
    <2>6. ~CompleteUploadIntent(c, k, v, o, v, arg)
      <3>1. CompleteUploadIntent(c, k, v, o, v, arg) => records[k] = NoRecord /\ records'[k] # NoRecord
        BY StoreAssumption, Facts DEF CompleteUploadIntent, Completable
      <3> QED
        BY <2>1, <3>1
    <2> QED
      BY <1>2, <2>4, <2>5, <2>6
  <1> QED
    BY <1>2, <1>5, <1>6
LEMMA VerifyRunsInv ==
  ASSUME Inv, NEW c \in Call, ClaimRuns(c) \/ FinishRuns(c)
  PROVE  Inv'
  <1>0. StoreInv' /\ Grows
    BY VerifyIsStore, StoreGrows DEF Inv
  <1>1. PICK o \in Object, v \in Nat : o = rpc[c].object /\ v = rpc[c].version
    BY Facts DEF ClaimRuns, FinishRuns, Inv, CallOK, ClaimOK, FinishOK
  <1>2. /\ Running(c) /\ rpc[c].kind \in {"claim", "finish"} /\ UNCHANGED <<bytes, callers, faults>>
        /\ \E answer \in Reply : Return(c, answer)
    BY DEF ClaimRuns, FinishRuns, Reply
  <1>3. faults' \in 0..MaxFaults /\ faults <= faults'
    BY <1>2, Facts
  <1>4. \/ StartVerification(c, o, v)
        \/ rpc[c].kind = "finish" /\ FinishVerification(c, o, v, rpc[c].arg)
        \/ ChangeNothing(c)
    BY <1>1 DEF ClaimRuns, FinishRuns
  <1>5. objects \in [Object -> ObjectRow] /\ UNCHANGED witnessed
    BY <1>2, Facts DEF callers
  <1>6. ASSUME NEW q \in Object PROVE Judged(q)'
    <2>1. CASE ChangeNothing(c)
      BY <1>5, <2>1 DEF ChangeNothing, Inv, Judged, Backed
    <2>2. CASE StartVerification(c, o, v)
      <3>1. /\ q # o => objects'[q] = objects[q]
            /\ objects'[o].state = "verifying"
        BY <1>5, <2>2 DEF StartVerification, ObjectRow
      <3> QED
        BY <1>5, <3>1 DEF Inv, Judged, Backed, Terminal
    <2>3. CASE rpc[c].kind = "finish" /\ FinishVerification(c, o, v, rpc[c].arg)
      <3>1. /\ q # o => objects'[q] = objects[q]
            /\ objects'[o].state = rpc[c].arg /\ objects[o].version = v
        BY <1>5, <2>3 DEF FinishVerification, VerdictDue, ObjectRow
      <3>2. Backed(o, rpc[c].arg)
        BY <1>1, <2>3, <3>1 DEF Inv, CallOK, FinishOK, Earned
      <3> QED
        BY <1>5, <3>1, <3>2 DEF Inv, Judged, Backed
    <2> QED
      BY <1>4, <2>1, <2>2, <2>3
  <1>7. CASE StartVerification(c, o, v)
    <2>1. Current(o, v + 1)'
      <3>1. objects[o] \in ObjectRow /\ objects[o].version = v /\ objects \in [Object -> ObjectRow]
        BY <1>7, Facts DEF StartVerification, Startable
      <3>2. objects'[o] = [objects[o] EXCEPT !.state = "verifying", !.version = v + 1]
        BY <1>7, <3>1 DEF StartVerification, ObjectRow
      <3>3. objects'[o].state = "verifying" /\ objects'[o].version = v + 1
        BY <3>1, <3>2 DEF ObjectRow
      <3> QED
        BY <3>3 DEF Current
    <2> QED
      BY <1>0, <1>1, <1>2, <1>3, <1>6, <2>1, ReturnInv
  <1>8. CASE ~StartVerification(c, o, v)
    <2>1. \E answer \in Reply : Return(c, answer) /\ (rpc[c].kind = "claim" => answer # "claimed")
      BY <1>1, <1>8 DEF ClaimRuns, FinishRuns, Reply
    <2> QED
      BY <1>0, <1>2, <1>3, <1>6, <2>1, ReturnInv
  <1> QED
    BY <1>7, <1>8

-----------------------------------------------------------------------------
\* The requests.

LEMMA RequestRows ==
  ASSUME Inv, NEW r \in Request
  PROVE  /\ \A stage \in Stage : Goto(r, stage) =>
              \E row \in RequestRow :
                /\ request' = [request EXCEPT ![r] = row]
                /\ row.at = stage /\ row.answer = request[r].answer
                /\ row.object = request[r].object /\ row.key = request[r].key
                /\ row.ifMatch = request[r].ifMatch
         /\ \A answer \in Answer : Respond(r, answer) =>
              \E row \in RequestRow :
                /\ request' = [request EXCEPT ![r] = row]
                /\ row.at = "answered" /\ row.answer = answer
                /\ row.object = request[r].object /\ row.key = request[r].key
                /\ row.ifMatch = request[r].ifMatch
  <1>1. request \in [Request -> RequestRow] /\ request[r] \in RequestRow
    BY Facts
  <1>2. ASSUME NEW stage \in Stage, NEW row, row = [request[r] EXCEPT !.at = stage]
        PROVE  /\ row \in RequestRow /\ row.at = stage /\ row.answer = request[r].answer
               /\ row.object = request[r].object /\ row.key = request[r].key
               /\ row.ifMatch = request[r].ifMatch
    BY <1>1, <1>2 DEF RequestRow
  <1>3. ASSUME NEW answer \in Answer, NEW row,
               row = [request[r] EXCEPT !.at = "answered", !.answer = answer]
        PROVE  /\ row \in RequestRow /\ row.at = "answered" /\ row.answer = answer
               /\ row.object = request[r].object /\ row.key = request[r].key
               /\ row.ifMatch = request[r].ifMatch
    BY <1>1, <1>3 DEF RequestRow, Stage
  <1>4. \A stage : Goto(r, stage) => request' = [request EXCEPT ![r] = [request[r] EXCEPT !.at = stage]]
    BY <1>1 DEF Goto, RequestRow
  <1>5. \A answer : Respond(r, answer) =>
          request' = [request EXCEPT ![r] = [request[r] EXCEPT !.at = "answered", !.answer = answer]]
    BY <1>1 DEF Respond, RequestRow
  <1>6. ASSUME NEW stage \in Stage, Goto(r, stage)
        PROVE  \E row \in RequestRow :
                 /\ request' = [request EXCEPT ![r] = row]
                 /\ row.at = stage /\ row.answer = request[r].answer
                 /\ row.object = request[r].object /\ row.key = request[r].key
                 /\ row.ifMatch = request[r].ifMatch
    <2>1. PICK row : row = [request[r] EXCEPT !.at = stage]
      OBVIOUS
    <2> QED
      BY <1>2, <1>4, <1>6, <2>1
  <1>7. ASSUME NEW answer \in Answer, Respond(r, answer)
        PROVE  \E row \in RequestRow :
                 /\ request' = [request EXCEPT ![r] = row]
                 /\ row.at = "answered" /\ row.answer = answer
                 /\ row.object = request[r].object /\ row.key = request[r].key
                 /\ row.ifMatch = request[r].ifMatch
    <2>1. PICK row : row = [request[r] EXCEPT !.at = "answered", !.answer = answer]
      OBVIOUS
    <2>2. request' = [request EXCEPT ![r] = row]
      BY <1>5, <1>7, <2>1
    <2>3. /\ row \in RequestRow /\ row.at = "answered" /\ row.answer = answer
          /\ row.object = request[r].object /\ row.key = request[r].key
          /\ row.ifMatch = request[r].ifMatch
      BY <1>3, <2>1
    <2> QED
      BY <2>2, <2>3
  <1> QED
    BY <1>6, <1>7

\* A handler lets go of the call it awaits.
LEMMA LetGo ==
  ASSUME Inv, NEW c \in Call, NEW p, Awaits(p, c), NEW new \in Rpc, ~new.waited,
         rpc' = [rpc EXCEPT ![c] = new]
  PROVE  /\ rpc' \in [Call -> Rpc] /\ OneCall' /\ rpc'[c] = new
         /\ \A d \in Call : d # c => rpc'[d] = rpc[d]
         /\ \A d \in Call : rpc'[d] = rpc[d] /\ rpc[d].waited => rpc[d].by # p
  <1>1. /\ rpc' \in [Call -> Rpc] /\ rpc'[c] = new
        /\ \A d \in Call : d # c => rpc'[d] = rpc[d]
    BY Facts
  <1>2. OneCall'
    BY OneCallKept
  <1>3. rpc[c].waited /\ rpc[c].by = p
    BY DEF Awaits
  <1>4. ASSUME NEW d \in Call, rpc'[d] = rpc[d], rpc[d].waited PROVE rpc[d].by # p
    <2>1. d # c
      BY <1>1, <1>4
    <2> QED
      BY <1>3, <1>4, <2>1 DEF Inv, OneCall
  <1> QED
    BY <1>1, <1>2, <1>4

\* ... having its answer, or giving it up: the call then runs on.
LEMMA Abandoned ==
  ASSUME Inv, StoreInv', Steady, NEW c \in Call, NEW p, Awaits(p, c), TakeAnswer(c) \/ Abandon(c),
         Abandon(c) /\ rpc[c].kind = "commit" =>
           faults' >= IF request'[rpc[c].by].at = "died" THEN 1 ELSE 2
  PROVE  /\ rpc' \in [Call -> Rpc] /\ OneCall'
         /\ \A d \in Call : rpc'[d] = rpc[d] \/ CallOK(d)'
         /\ \A d \in Call : rpc'[d] = rpc[d] /\ rpc[d].waited => rpc[d].by # p
  <1>1. CASE rpc' = [rpc EXCEPT ![c] = FreeRpc]
    <2>1. CallOK(c)'
      BY <1>1, Facts DEF CallOK, FreeRpc
    <2> QED
      BY <1>1, <2>1, LetGo, RpcRows
  <1>2. CASE Running(c) /\ Abandon(c)
    <2>1. PICK new : new = [rpc[c] EXCEPT !.waited = FALSE]
      OBVIOUS
    <2>2. rpc' = [rpc EXCEPT ![c] = new]
      BY <1>2, <2>1, Facts DEF Abandon
    <2>3. /\ new \in Rpc /\ ~new.waited /\ new.kind = rpc[c].kind /\ new.by = rpc[c].by
          /\ new.object = rpc[c].object /\ new.version = rpc[c].version /\ new.arg = rpc[c].arg
          /\ new.answer = "none"
      BY <1>2, <2>1, Facts DEF Running, Rpc
    <2>4. rpc'[c] = new
      BY <2>2, Facts
    <2>5. CallOK(c)'
      BY <1>2, <2>3, <2>4, CallCarries
    <2> QED
      BY <2>2, <2>3, <2>5, LetGo
  <1> QED
    BY <1>1, <1>2, Facts DEF TakeAnswer, Abandon

\* A request step that changes no row of the store, from the request's row.
LEMMA RequestGoes ==
  ASSUME Inv, StoreInv', Grows, NEW r \in Request, NEW row \in RequestRow,
         request' = [request EXCEPT ![r] = row],
         row.object = request[r].object, row.key = request[r].key, row.ifMatch = request[r].ifMatch,
         UNCHANGED <<bytes, verifier, witnessed, objects, jobs, records>>,
         request[r].at = "died" => row.at = "died",
         rpc' \in [Call -> Rpc], OneCall',
         \A c \in Call : rpc'[c] = rpc[c] \/ CallOK(c)',
         \A c \in Call : rpc'[c] = rpc[c] /\ rpc[c].waited /\ rpc[c].by = r =>
           row.at \in {"committing", "recovering"},
         row.at = "dispatching" => Recorded(r), row.answer = "accepted" => Recorded(r),
         row.at = "recovering" => faults' >= 1,
         sent \subseteq sent', sent' \subseteq Object, \A o \in sent' \ sent : jobs[o].state # "absent",
         faults' \in 0..MaxFaults, faults <= faults'
  PROVE  Inv'
  <1>1. request'[r] = row
    BY Facts
  <1>2. Recorded(r)' <=> Recorded(r)
    BY <1>1 DEF Recorded
  <1>3. RequestOK(r)'
    BY <1>1, <1>2 DEF RequestOK
  <1> QED
    BY <1>3, RequestMoves

LEMMA RequestSteady ==
  ASSUME Inv, Grows, NEW r \in Request, NEW row, request' = [request EXCEPT ![r] = row],
         row.object = request[r].object, row.key = request[r].key, row.ifMatch = request[r].ifMatch,
         UNCHANGED <<bytes, witnessed>>, sent \subseteq sent', faults' \in 0..MaxFaults, faults <= faults'
  PROVE  Steady
  BY Facts DEF Steady
\* A request that awaits nothing moves on, and the calls stay as they are.
LEMMA RequestAlone ==
  ASSUME Inv, NEW r \in Request, ReadIntent(r) \/ RequestFails(r)
                \/ (ObserveUpload(r) /\ UNCHANGED rpc) \/ Dispatch(r)
  PROVE  Inv'
  <1>0. /\ UNCHANGED <<storeVars, bytes, rpc, verifier, witnessed>> /\ UNCHANGED <<objects, jobs, records>>
        /\ StoreInv' /\ Grows
    BY StoreGrows DEF ReadIntent, RequestFails, ObserveUpload, Dispatch, Inv, storeVars
  <1>1. /\ rpc' \in [Call -> Rpc] /\ OneCall' /\ \A c \in Call : rpc'[c] = rpc[c]
    BY <1>0, Facts DEF Inv, OneCall
  <1>2. faults' \in 0..MaxFaults /\ faults <= faults'
    BY Facts, PipelineAssumption DEF ReadIntent, RequestFails, ObserveUpload, Dispatch, Fault
  <1>3. request[r].at \notin {"committing", "recovering", "died"}
    BY DEF ReadIntent, RequestFails, ObserveUpload, Dispatch, At
  <1>4. \A c \in Call : rpc[c].waited => rpc[c].by # r
    BY <1>3, Waiting
  <1>5. CASE ~Dispatch(r)
    <2>1. UNCHANGED sent
      BY <1>5 DEF ReadIntent, RequestFails, ObserveUpload
    <2>2. \/ Goto(r, "observing")
          \/ \E answer \in {"refused", "stale", "unavailable"} : Respond(r, answer)
          \/ Goto(r, "committing") /\ ObserveUpload(r) /\ UNCHANGED rpc
      BY <1>5 DEF ReadIntent, RequestFails, ObserveUpload
    <2>3. ~(Goto(r, "committing") /\ ObserveUpload(r) /\ UNCHANGED rpc)
            \/ \E answer \in {"refused"} : Respond(r, answer)
      <3>1. ASSUME ObserveUpload(r), UNCHANGED rpc PROVE Respond(r, "refused")
        <4>1. ASSUME NEW c \in Call, Send(c, "commit", r, request[r].object, request[r].ifMatch,
                                          bytes[request[r].object])
              PROVE  FALSE
          <5>1. rpc'[c].kind = "commit" /\ rpc[c].kind = "free"
            BY <4>1, Facts DEF Send
          <5> QED
            BY <3>1, <5>1
        <4> QED
          BY <3>1, <4>1 DEF ObserveUpload
      <3> QED
        BY <3>1
    <2>4. PICK row \in RequestRow :
            /\ request' = [request EXCEPT ![r] = row]
            /\ row.at \in {"observing", "answered"}
            /\ row.answer \in {request[r].answer, "refused", "stale", "unavailable"}
            /\ row.object = request[r].object /\ row.key = request[r].key
            /\ row.ifMatch = request[r].ifMatch
      <3>1. CASE Goto(r, "observing")
        BY <3>1, RequestRows DEF Stage
      <3>2. ASSUME NEW answer \in {"refused", "stale", "unavailable"}, Respond(r, answer)
            PROVE  \E row \in RequestRow :
                     /\ request' = [request EXCEPT ![r] = row]
                     /\ row.at = "answered" /\ row.answer = answer
                     /\ row.object = request[r].object /\ row.key = request[r].key
                     /\ row.ifMatch = request[r].ifMatch
        BY <3>2, RequestRows DEF Answer
      <3> QED
        BY <2>2, <2>3, <3>1, <3>2
    <2>5. row.answer = "accepted" => Recorded(r)
      BY <2>4 DEF Inv, RequestOK
    <2>6. sent \subseteq sent' /\ sent' \subseteq Object /\ \A o \in sent' \ sent : jobs[o].state # "absent"
      BY <2>1, Facts
    <2>7. row.at \notin {"dispatching", "recovering", "committing"}
      BY <2>4
    <2> QED
      BY <1>0, <1>1, <1>2, <1>3, <1>4, <2>4, <2>5, <2>6, <2>7, RequestGoes
  <1>6. CASE Dispatch(r)
    <2>1. Recorded(r) /\ Respond(r, "accepted")
      BY <1>6 DEF Dispatch, At, Inv, RequestOK
    <2>2. PICK row \in RequestRow :
            /\ request' = [request EXCEPT ![r] = row] /\ row.at = "answered"
            /\ row.object = request[r].object /\ row.key = request[r].key
            /\ row.ifMatch = request[r].ifMatch
      BY <2>1, RequestRows DEF Answer
    <2>3. /\ request[r].object \in Object /\ sent \subseteq sent'
          /\ sent' \subseteq sent \union {request[r].object}
      BY <1>6, Facts DEF Dispatch
    <2>4. jobs[request[r].object].state # "absent"
      <3>1. records[request[r].key] # NoRecord /\ records[request[r].key].object = request[r].object
        BY <2>1, Facts, StoreAssumption DEF Recorded
      <3> QED
        BY <2>3, <3>1, Facts DEF Inv, StoreInv, RecordsBacked, RowsAgree
    <2> QED
      BY <1>0, <1>1, <1>2, <1>3, <1>4, <2>1, <2>2, <2>3, <2>4, Facts, RequestGoes
  <1> QED
    BY <1>5, <1>6

\* The commit is sent with what Storage showed.
LEMMA ObserveInv ==
  ASSUME Inv, NEW r \in Request, ObserveUpload(r)
  PROVE  Inv'
  <1>1. CASE UNCHANGED rpc
    BY <1>1, RequestAlone
  <1>2. CASE \E c \in Call : Send(c, "commit", r, request[r].object, request[r].ifMatch,
                                  bytes[request[r].object])
             /\ bytes[request[r].object] # "none" /\ Goto(r, "committing")
    <2>0. /\ UNCHANGED <<storeVars, bytes, verifier, sent, witnessed, faults>> /\ UNCHANGED <<objects, jobs, records>>
          /\ StoreInv' /\ Grows /\ request[r].at = "observing"
      BY StoreGrows DEF ObserveUpload, Inv, storeVars, At
    <2>1. PICK c \in Call, o \in Object, seen \in Observation :
            /\ o = request[r].object /\ seen = bytes[o]
            /\ Send(c, "commit", r, o, request[r].ifMatch, seen)
      BY <1>2, Facts
    <2>2. PICK new : new = [kind |-> "commit", by |-> r, waited |-> TRUE, object |-> o,
                            version |-> request[r].ifMatch, arg |-> seen, answer |-> "none"]
      OBVIOUS
    <2>3. /\ new \in Rpc /\ rpc' = [rpc EXCEPT ![c] = new]
      BY <2>1, <2>2, Facts DEF Send, Rpc
    <2>4. PICK row \in RequestRow :
            /\ request' = [request EXCEPT ![r] = row] /\ row.at = "committing"
            /\ row.answer = request[r].answer
            /\ row.object = request[r].object /\ row.key = request[r].key
            /\ row.ifMatch = request[r].ifMatch
      BY <1>2, RequestRows DEF Stage
    <2>5. /\ rpc' \in [Call -> Rpc] /\ rpc'[c] = new /\ request'[r] = row
          /\ \A d \in Call : d # c => rpc'[d] = rpc[d]
      BY <2>3, <2>4, Facts
    <2>6. CallOK(c)'
      BY <2>0, <2>1, <2>2, <2>4, <2>5 DEF CallOK, CommitOK
    <2>7. OneCall'
      <3>1. \A d \in Call : rpc[d].waited => rpc[d].by # r
        BY <2>0, Waiting
      <3> QED
        BY <2>2, <2>3, <3>1, OneCallKept
    <2>8. row.answer = "accepted" => Recorded(r)
      BY <2>4 DEF Inv, RequestOK
    <2>9. /\ sent \subseteq sent' /\ sent' \subseteq Object /\ \A p \in sent' \ sent : jobs[p].state # "absent"
          /\ faults' \in 0..MaxFaults /\ faults <= faults'
      BY <2>0, Facts
    <2>10. \A d \in Call : rpc'[d] = rpc[d] \/ CallOK(d)'
      BY <2>5, <2>6
    <2> QED
      BY <2>0, <2>4, <2>5, <2>7, <2>8, <2>9, <2>10, RequestGoes
  <1> QED
    BY <1>1, <1>2 DEF ObserveUpload

\* The answer of the commit, or its loss.
LEMMA TakeCommitInv ==
  ASSUME Inv, NEW r \in Request, NEW c \in Call, TakeCommit(r, c)
  PROVE  Inv'
  <1>0. /\ UNCHANGED <<storeVars, bytes, verifier, sent, witnessed>> /\ UNCHANGED <<objects, jobs, records>>
        /\ StoreInv' /\ Grows /\ request[r].at = "committing" /\ Awaits(r, c)
    BY StoreGrows DEF TakeCommit, Inv, storeVars, At
  <1>1. faults' \in 0..MaxFaults /\ faults <= faults'
    BY Facts, PipelineAssumption DEF TakeCommit, Fault
  <1>2. CommitOK(c) /\ rpc[c].by = r
    BY <1>0, Waiting DEF Inv, CallOK, Awaits
  <1>2a. sent \subseteq sent' /\ sent' \subseteq Object /\ \A o \in sent' \ sent : jobs[o].state # "absent"
    BY <1>0, Facts
  <1>3. CASE /\ TakeAnswer(c)
             /\ \/ rpc[c].answer = "committed" /\ Goto(r, "dispatching")
                \/ rpc[c].answer = "replay" /\ Respond(r, "accepted")
                \/ rpc[c].answer = "conflict" /\ Respond(r, "conflict")
                \/ rpc[c].answer = "unavailable" /\ Respond(r, "unavailable")
    <2>1. PICK row \in RequestRow :
            /\ request' = [request EXCEPT ![r] = row] /\ row.at \in {"dispatching", "answered"}
            /\ row.object = request[r].object /\ row.key = request[r].key
            /\ row.ifMatch = request[r].ifMatch
            /\ row.at = "dispatching" => rpc[c].answer = "committed"
            /\ row.answer = "accepted" => rpc[c].answer = "replay" \/ row.answer = request[r].answer
      <3>1. CASE rpc[c].answer = "committed" /\ Goto(r, "dispatching")
        BY <3>1, RequestRows DEF Stage
      <3>2. ASSUME NEW answer \in {"accepted", "conflict", "unavailable"}, Respond(r, answer),
                   answer = "accepted" => rpc[c].answer = "replay"
            PROVE  \E row \in RequestRow :
                     /\ request' = [request EXCEPT ![r] = row] /\ row.at = "answered"
                     /\ row.object = request[r].object /\ row.key = request[r].key
                     /\ row.ifMatch = request[r].ifMatch
                     /\ row.answer = "accepted" => rpc[c].answer = "replay"
        BY <3>2, RequestRows DEF Answer
      <3> QED
        BY <1>3, <3>1, <3>2
    <2>2. /\ row.at = "dispatching" => Recorded(r)
          /\ row.answer = "accepted" => Recorded(r)
      BY <1>2, <2>1 DEF CommitOK, Inv, RequestOK
    <2>3. Steady
      BY <1>0, <1>1, <2>1, RequestSteady
    <2>5. /\ rpc' \in [Call -> Rpc] /\ OneCall'
          /\ \A d \in Call : rpc'[d] = rpc[d] \/ CallOK(d)'
          /\ \A d \in Call : rpc'[d] = rpc[d] /\ rpc[d].waited => rpc[d].by # r
      <3>1. CallOK(c)'
        BY <1>3, Facts DEF TakeAnswer, CallOK, FreeRpc
      <3> QED
        BY <1>0, <1>3, <3>1, LetGo, RpcRows DEF TakeAnswer
    <2>6. row.at \notin {"recovering", "died"} /\ request[r].at # "died"
      BY <1>0, <2>1
    <2> QED
      BY <1>0, <1>1, <1>2a, <2>1, <2>2, <2>5, <2>6, RequestGoes
  <1>4. CASE Goto(r, "recovering") /\ UNCHANGED rpc /\ Fault
    <2>1. PICK row \in RequestRow :
            /\ request' = [request EXCEPT ![r] = row] /\ row.at = "recovering"
            /\ row.answer = request[r].answer
            /\ row.object = request[r].object /\ row.key = request[r].key
            /\ row.ifMatch = request[r].ifMatch
      BY <1>4, RequestRows DEF Stage
    <2>2. faults' >= 1
      BY <1>4, Facts DEF Fault
    <2>3. rpc' \in [Call -> Rpc] /\ OneCall' /\ \A d \in Call : rpc'[d] = rpc[d]
      BY <1>4, Facts DEF Inv, OneCall
    <2>4. row.answer = "accepted" => Recorded(r)
      BY <2>1 DEF Inv, RequestOK
    <2> QED
      BY <1>0, <1>1, <1>2a, <2>1, <2>2, <2>3, <2>4, RequestGoes
  <1> QED
    BY <1>3, <1>4 DEF TakeCommit

\* Recovery, and every way of leaving a commit behind.
LEMMA RecoverInv ==
  ASSUME Inv, NEW r \in Request, NEW c \in Call, Recover(r, c) \/ RecoverTimesOut(r, c)
  PROVE  Inv'
  <1>0. /\ UNCHANGED <<bytes, verifier, sent, witnessed>> /\ UNCHANGED <<objects, jobs, records>>
        /\ request[r].at = "recovering" /\ Awaits(r, c) /\ Respond(r, "unavailable")
        /\ TakeAnswer(c) \/ (Abandon(c) /\ Fault)
    BY DEF Recover, RecoverTimesOut, storeVars, At
  <1>1. StoreInv' /\ Grows
    <2>1. [PipelineNext]_pipelineVars
      BY DEF PipelineNext, RequestStep
    <2> QED
      BY <2>1, StepIsStore, StoreGrows DEF Inv
  <1>2. faults' \in 0..MaxFaults /\ faults <= faults'
    BY Facts, PipelineAssumption DEF Recover, RecoverTimesOut, Fault
  <1>3. Abandon(c) /\ Fault => faults' >= 2
    BY <1>0, Facts DEF Inv, RequestOK, Fault
  <1>4. PICK row \in RequestRow :
          /\ request' = [request EXCEPT ![r] = row] /\ row.at = "answered"
          /\ row.answer = "unavailable"
          /\ row.object = request[r].object /\ row.key = request[r].key
          /\ row.ifMatch = request[r].ifMatch
    BY <1>0, RequestRows DEF Answer
  <1>5. Steady
    BY <1>0, <1>1, <1>2, <1>4, RequestSteady
  <1>6. /\ rpc' \in [Call -> Rpc] /\ OneCall'
        /\ \A d \in Call : rpc'[d] = rpc[d] \/ CallOK(d)'
        /\ \A d \in Call : rpc'[d] = rpc[d] /\ rpc[d].waited => rpc[d].by # r
    <2>1. CASE TakeAnswer(c)
      <3>1. CallOK(c)'
        BY <2>1, Facts DEF TakeAnswer, CallOK, FreeRpc
      <3> QED
        BY <1>0, <2>1, <3>1, LetGo, RpcRows DEF TakeAnswer
    <2>2. CASE Abandon(c) /\ Fault
      <3>1. faults' >= IF request'[rpc[c].by].at = "died" THEN 1 ELSE 2
        <4>1. faults' \in Nat /\ faults' >= 2
          BY <1>3, <1>5, <2>2 DEF Steady
        <4> QED
          BY <4>1
      <3> QED
        BY <1>0, <1>1, <1>5, <2>2, <3>1, Abandoned
    <2> QED
      BY <1>0, <2>1, <2>2
  <1>7. sent \subseteq sent' /\ sent' \subseteq Object /\ \A o \in sent' \ sent : jobs[o].state # "absent"
    BY <1>0, Facts
  <1>8. row.at \notin {"recovering", "died", "dispatching"} /\ request[r].at # "died" /\ row.answer # "accepted"
    BY <1>0, <1>4
  <1> QED
    BY <1>0, <1>1, <1>2, <1>4, <1>6, <1>7, <1>8, RequestGoes

LEMMA RequestDiesInv ==
  ASSUME Inv, NEW r \in Request, RequestDies(r)
  PROVE  Inv'
  <1>0. /\ UNCHANGED <<storeVars, bytes, verifier, sent, witnessed>> /\ UNCHANGED <<objects, jobs, records>>
        /\ StoreInv' /\ Grows /\ Goto(r, "died") /\ Fault
    BY StoreGrows DEF RequestDies, Inv, storeVars
  <1>1. faults' \in 0..MaxFaults /\ faults <= faults' /\ faults' >= 1
    BY <1>0, Facts, PipelineAssumption DEF Fault
  <1>2. PICK row \in RequestRow :
          /\ request' = [request EXCEPT ![r] = row] /\ row.at = "died"
          /\ row.answer = request[r].answer
          /\ row.object = request[r].object /\ row.key = request[r].key
          /\ row.ifMatch = request[r].ifMatch
    BY <1>0, RequestRows DEF Stage
  <1>3. Steady /\ request'[r].at = "died"
    BY <1>0, <1>1, <1>2, Facts, RequestSteady
  <1>4. /\ rpc' \in [Call -> Rpc] /\ OneCall'
        /\ \A d \in Call : rpc'[d] = rpc[d] \/ CallOK(d)'
        /\ \A d \in Call : rpc'[d] = rpc[d] /\ rpc[d].waited => rpc[d].by # r
    <2>1. ASSUME NEW c \in Call, Awaits(r, c), Abandon(c)
          PROVE  /\ rpc' \in [Call -> Rpc] /\ OneCall'
                 /\ \A d \in Call : rpc'[d] = rpc[d] \/ CallOK(d)'
                 /\ \A d \in Call : rpc'[d] = rpc[d] /\ rpc[d].waited => rpc[d].by # r
      <3>1. faults' >= IF request'[rpc[c].by].at = "died" THEN 1 ELSE 2
        BY <1>1, <1>3, <2>1 DEF Awaits
      <3> QED
        BY <1>0, <1>3, <2>1, <3>1, Abandoned
    <2>2. CASE (\A c \in Call : ~Awaits(r, c)) /\ UNCHANGED rpc
      BY <2>2, Facts DEF Awaits, Inv, OneCall
    <2> QED
      BY <2>1, <2>2 DEF RequestDies
  <1>5. row.answer = "accepted" => Recorded(r)
    BY <1>2 DEF Inv, RequestOK
  <1> QED
    BY <1>0, <1>1, <1>2, <1>4, <1>5, Facts, RequestGoes
-----------------------------------------------------------------------------
\* The verifiers.

LEMMA VerifierRows ==
  ASSUME NEW v \in Verifier, NEW at \in {"idle", "claiming", "observing", "finishing"},
         NEW o \in Object \union {Nobody}, NEW version \in Nat, SetVerifier(v, at, o, version)
  PROVE  \E row \in VerifierRow :
           /\ row = [at |-> at, object |-> o, version |-> version]
           /\ verifier' = [verifier EXCEPT ![v] = row]
  <1>1. [at |-> at, object |-> o, version |-> version] \in VerifierRow
    BY DEF VerifierRow
  <1>2. verifier' = [verifier EXCEPT ![v] = [at |-> at, object |-> o, version |-> version]]
    BY DEF SetVerifier
  <1> QED
    BY <1>1, <1>2

\* What the store holds stays as it is under a verifier's step, and so does
\* what is said of a version.
LEMMA VerifierSteady ==
  ASSUME Inv, UNCHANGED <<storeVars, bytes, request, sent>>, Remembered,
         faults' \in 0..MaxFaults, faults <= faults'
  PROVE  /\ StoreInv' /\ Steady
         /\ \A o, version : Current(o, version)' <=> Current(o, version)
  <1>1. StoreInv' /\ Grows
    BY StoreGrows DEF Inv
  <1>2. Steady
    BY <1>1 DEF Steady, Remembered
  <1>3. UNCHANGED objects
    BY DEF storeVars
  <1> QED
    BY <1>1, <1>2, <1>3 DEF Current

LEMMA DeliverInv ==
  ASSUME Inv, NEW v \in Verifier, NEW o \in Object, Deliver(v, o)
  PROVE  Inv'
  <1>0. /\ UNCHANGED <<storeVars, bytes, request, sent>> /\ verifier[v].at = "idle" /\ o \in sent
        /\ faults' \in 0..MaxFaults /\ faults <= faults' /\ Remembered
    BY Facts DEF Deliver, VerifierIs, Remembered
  <1>1. \A c \in Call : rpc[c].waited => rpc[c].by # v
    BY <1>0, Waiting
  <1>2. PICK version \in Nat : version = objects[o].version
    BY Facts
  <1>3. CASE /\ SetVerifier(v, "claiming", o, version)
             /\ \E c \in Call : Send(c, "claim", v, o, version, "none")
    <2>1. PICK row \in VerifierRow : row = [at |-> "claiming", object |-> o, version |-> version]
                                     /\ verifier' = [verifier EXCEPT ![v] = row]
      BY <1>3, VerifierRows
    <2>2. PICK c \in Call : Send(c, "claim", v, o, version, "none")
      BY <1>3
    <2>3. PICK new : new = [kind |-> "claim", by |-> v, waited |-> TRUE, object |-> o,
                            version |-> version, arg |-> "none", answer |-> "none"]
      OBVIOUS
    <2>4. new \in Rpc /\ rpc' = [rpc EXCEPT ![c] = new]
      BY <2>2, <2>3 DEF Send, Rpc
    <2>5. /\ rpc' \in [Call -> Rpc] /\ rpc'[c] = new /\ verifier'[v] = row
          /\ \A d \in Call : d # c => rpc'[d] = rpc[d]
      BY <2>1, <2>4, Facts
    <2>6. CallOK(c)'
      BY <2>1, <2>3, <2>5 DEF CallOK, ClaimOK
    <2>7. OneCall'
      BY <1>1, <2>3, <2>4, OneCallKept
    <2>8. VerifierOK(v)'
      BY <1>0, <2>1, <2>5 DEF VerifierOK
    <2>9. \A d \in Call : rpc'[d] = rpc[d] \/ CallOK(d)'
      BY <2>5, <2>6
    <2> QED
      BY <1>0, <1>1, <2>1, <2>5, <2>7, <2>8, <2>9, VerifierMoves
  <1>4. CASE /\ objects[o].state = "verifying" /\ SetVerifier(v, "observing", o, version)
             /\ UNCHANGED rpc
    <2>1. PICK row \in VerifierRow : row = [at |-> "observing", object |-> o, version |-> version]
                                     /\ verifier' = [verifier EXCEPT ![v] = row]
      BY <1>4, VerifierRows
    <2>2. verifier'[v] = row /\ rpc' \in [Call -> Rpc] /\ OneCall' /\ \A c \in Call : rpc'[c] = rpc[c]
      BY <1>4, <2>1, Facts DEF Inv, OneCall
    <2>3. Current(o, version)'
      BY <1>0, <1>2, <1>4, VerifierSteady DEF Current
    <2>4. VerifierOK(v)'
      BY <1>0, <2>1, <2>2, <2>3 DEF VerifierOK, Current
    <2> QED
      BY <1>0, <1>1, <2>1, <2>2, <2>4, VerifierMoves
  <1> QED
    BY <1>2, <1>3, <1>4 DEF Deliver

\* A verifier goes on with the version it claimed, or ends its delivery.
LEMMA TakeAnswerInv ==
  ASSUME Inv, NEW v \in Verifier, NEW c \in Call, TakeClaim(v, c) \/ TakeFinish(v, c)
  PROVE  Inv'
  <1>0. /\ UNCHANGED <<storeVars, bytes, request, sent>> /\ TakeAnswer(c)
        /\ rpc[c].waited /\ rpc[c].by = v /\ Awaits(v, c)
        /\ faults' \in 0..MaxFaults /\ faults <= faults' /\ Remembered
    BY Facts DEF TakeClaim, TakeFinish, Answered, Awaits, Remembered
  <1>1. /\ rpc' \in [Call -> Rpc] /\ OneCall'
        /\ \A d \in Call : rpc'[d] = rpc[d] \/ CallOK(d)'
        /\ \A d \in Call : rpc'[d] = rpc[d] /\ rpc[d].waited => rpc[d].by # v
    <2>1. CallOK(c)'
      BY <1>0, Facts DEF TakeAnswer, CallOK, FreeRpc
    <2> QED
      BY <1>0, <2>1, LetGo, RpcRows DEF TakeAnswer
  <1>2. CASE verifier' = [verifier EXCEPT ![v] = Idle]
    <2>1. verifier'[v] = Idle /\ Idle \in VerifierRow /\ Idle.at = "idle"
      BY <1>2, Facts DEF Idle, VerifierRow
    <2>2. VerifierOK(v)'
      BY <2>1 DEF VerifierOK
    <2> QED
      BY <1>0, <1>1, <1>2, <2>1, <2>2, VerifierMoves
  <1>3. CASE /\ verifier[v].at = "claiming" /\ rpc[c].answer = "claimed"
             /\ SetVerifier(v, "observing", verifier[v].object, verifier[v].version + 1)
    <2>1. ClaimOK(c)
      BY <1>0, <1>3, Waiting DEF Inv, CallOK
    <2>2. PICK o \in Object, version \in Nat :
            /\ o = verifier[v].object /\ version = verifier[v].version + 1
            /\ o = rpc[c].object /\ version = rpc[c].version + 1 /\ o \in sent
      BY <1>0, <1>3, <2>1, Facts DEF ClaimOK, Inv, VerifierOK
    <2>3. Current(o, version)'
      BY <1>0, <1>3, <2>1, <2>2, VerifierSteady DEF ClaimOK
    <2>4. PICK row \in VerifierRow : row = [at |-> "observing", object |-> o, version |-> version]
                                     /\ verifier' = [verifier EXCEPT ![v] = row]
      BY <1>3, <2>2, VerifierRows
    <2>5. verifier'[v] = row
      BY <2>4, Facts
    <2>6. VerifierOK(v)'
      BY <1>0, <2>2, <2>3, <2>4, <2>5 DEF VerifierOK, Current
    <2> QED
      BY <1>0, <1>1, <2>4, <2>6, VerifierMoves
  <1> QED
    BY <1>2, <1>3 DEF TakeClaim, TakeFinish, VerifierIs

\* The verdict that is sent rests on what was seen, and that was seen while the
\* object was being verified, or the verdict comes too late.
LEMMA ObserveObjectInv ==
  ASSUME Inv, NEW v \in Verifier, ObserveObject(v)
  PROVE  Inv'
  <1>0. /\ UNCHANGED <<storeVars, bytes, request, sent>> /\ verifier[v].at = "observing"
        /\ faults' \in 0..MaxFaults /\ faults <= faults'
    BY Facts DEF ObserveObject, VerifierIs
  <1>0a. Remembered
    BY Facts DEF ObserveObject, Remembered, Witness
  <1>1. \A c \in Call : rpc[c].waited => rpc[c].by # v
    BY <1>0, Waiting
  <1>2. PICK o \in Object, version \in Nat :
          /\ o = verifier[v].object /\ version = verifier[v].version
          /\ o \in sent /\ Current(o, version)
    BY <1>0, Facts DEF Inv, VerifierOK
  <1>3. PICK c \in Call, verdict \in Terminal :
          /\ verdict \in {"ready", "rejected"} => bytes[o] = "match"
          /\ Send(c, "finish", v, o, version, verdict)
    BY <1>2 DEF ObserveObject, VerdictsOn, Terminal
  <1>4. PICK new : new = [kind |-> "finish", by |-> v, waited |-> TRUE, object |-> o,
                          version |-> version, arg |-> verdict, answer |-> "none"]
    OBVIOUS
  <1>5. new \in Rpc /\ rpc' = [rpc EXCEPT ![c] = new]
    BY <1>3, <1>4 DEF Send, Rpc
  <1>6. PICK row \in VerifierRow : row = [at |-> "finishing", object |-> o, version |-> version]
                                   /\ verifier' = [verifier EXCEPT ![v] = row]
    BY <1>2, VerifierRows DEF ObserveObject
  <1>7. /\ rpc' \in [Call -> Rpc] /\ rpc'[c] = new /\ verifier'[v] = row
        /\ \A d \in Call : d # c => rpc'[d] = rpc[d]
    BY <1>5, <1>6, Facts
  <1>8. Earned(o, version, verdict)'
    <2>1. version <= objects[o].version /\ UNCHANGED objects
      BY <1>0, <1>2 DEF Current, storeVars
    <2>2. CASE version = objects[o].version
      <3>1. bytes[o] \in witnessed'[o]
        BY <1>2, <2>2, Facts DEF ObserveObject, Current
      <3> QED
        BY <1>3, <2>1, <3>1 DEF Earned, Backed
    <2> QED
      BY <2>1, <2>2 DEF Earned
  <1>9. CallOK(c)'
    BY <1>0, <1>2, <1>4, <1>6, <1>7, <1>8 DEF CallOK, FinishOK, Earned, Backed
  <1>10. OneCall'
    BY <1>1, <1>4, <1>5, OneCallKept
  <1>11. VerifierOK(v)'
    <2>1. Current(o, version)'
      BY <1>0, <1>0a, <1>2, VerifierSteady
    <2> QED
      BY <1>0, <1>2, <1>6, <1>7, <2>1 DEF VerifierOK, Current
  <1>12. \A d \in Call : rpc'[d] = rpc[d] \/ CallOK(d)'
    BY <1>7, <1>9
  <1> QED
    BY <1>0, <1>0a, <1>1, <1>6, <1>7, <1>10, <1>11, <1>12, VerifierMoves

LEMMA InterruptedInv ==
  ASSUME Inv, NEW v \in Verifier, VerifierInterrupted(v)
  PROVE  Inv'
  <1>0. /\ UNCHANGED <<storeVars, bytes, request, sent>> /\ Fault /\ Remembered
        /\ verifier' = [verifier EXCEPT ![v] = Idle]
    BY Facts DEF VerifierInterrupted, Remembered
  <1>1. faults' \in 0..MaxFaults /\ faults <= faults'
    BY <1>0, Facts, PipelineAssumption DEF Fault
  <1>2. verifier'[v] = Idle /\ Idle \in VerifierRow /\ Idle.at = "idle"
    BY <1>0, Facts DEF Idle, VerifierRow
  <1>3. VerifierOK(v)'
    BY <1>2 DEF VerifierOK
  <1>4. /\ rpc' \in [Call -> Rpc] /\ OneCall'
        /\ \A d \in Call : rpc'[d] = rpc[d] \/ CallOK(d)'
        /\ \A d \in Call : rpc'[d] = rpc[d] /\ rpc[d].waited => rpc[d].by # v
    <2>1. ASSUME NEW c \in Call, Awaits(v, c), Abandon(c)
          PROVE  /\ rpc' \in [Call -> Rpc] /\ OneCall'
                 /\ \A d \in Call : rpc'[d] = rpc[d] \/ CallOK(d)'
                 /\ \A d \in Call : rpc'[d] = rpc[d] /\ rpc[d].waited => rpc[d].by # v
      <3>1. rpc[c].kind # "commit"
        BY <2>1, Waiting DEF Awaits
      <3>2. StoreInv' /\ Steady
        BY <1>0, <1>1, VerifierSteady
      <3> QED
        BY <2>1, <3>1, <3>2, Abandoned
    <2>2. CASE (\A c \in Call : ~Awaits(v, c)) /\ UNCHANGED rpc
      BY <2>2, Facts DEF Awaits, Inv, OneCall
    <2> QED
      BY <2>1, <2>2 DEF VerifierInterrupted
  <1> QED
    BY <1>0, <1>1, <1>2, <1>3, <1>4, VerifierMoves

-----------------------------------------------------------------------------
LEMMA PipelineInitInv == PipelineInit => Inv
  <1> SUFFICES ASSUME PipelineInit PROVE Inv
    OBVIOUS
  <1>1. StoreInv
    BY StoreInitInv DEF PipelineInit
  <1>2. /\ bytes = [o \in Object |-> "none"] /\ rpc = [c \in Call |-> FreeRpc]
        /\ verifier = [v \in Verifier |-> Idle] /\ sent = {} /\ faults = 0
        /\ request \in [Request -> [at : {"called"}, object : Object, key : Key,
                                    ifMatch : Hash, answer : {"none"}]]
        /\ \A o \in Object : objects[o].state = "absent"
        /\ witnessed = [o \in Object |-> {}]
    BY DEF PipelineInit, StoreInit
  <1>3. FreeRpc \in Rpc /\ FreeRpc.kind = "free" /\ ~FreeRpc.waited
    BY DEF FreeRpc, Rpc
  <1>4. PipelineTypeOK
    <2>1. Idle \in VerifierRow
      BY DEF Idle, VerifierRow
    <2>2. request \in [Request -> RequestRow]
      BY <1>2 DEF RequestRow, Stage, Answer
    <2> QED
      BY <1>1, <1>2, <1>3, <2>1, <2>2, PipelineAssumption
         DEF PipelineTypeOK, StoreInv, RequestRow, VerifierRow
  <1>5. OneCall /\ \A c \in Call : CallOK(c)
    BY <1>2, <1>3 DEF OneCall, CallOK
  <1>6. /\ \A r \in Request : RequestOK(r)
        /\ \A v \in Verifier : VerifierOK(v)
        /\ \A o \in Object : Judged(o)
    BY <1>2 DEF RequestOK, VerifierOK, Judged, Idle, Terminal
  <1> QED
    BY <1>1, <1>2, <1>4, <1>5, <1>6 DEF Inv

LEMMA PipelineStepInv == Inv /\ [PipelineNext]_pipelineVars => Inv'
  <1> SUFFICES ASSUME Inv, [PipelineNext]_pipelineVars PROVE Inv'
    OBVIOUS
  <1>1. CASE UNCHANGED pipelineVars
    <2>1. /\ UNCHANGED <<storeVars, rpc, callers, faults>> /\ UNCHANGED <<bytes, objects>>
          /\ StoreInv' /\ Grows
      BY <1>1, StoreGrows DEF pipelineVars, storeVars, Inv
    <2> QED
      BY <2>1, Facts, QuietInv
  <1>2. ASSUME NEW c \in Call, RpcStep(c) \/ RpcFails(c) PROVE Inv'
    BY <1>2, QuietSteps, FailedCallInv, CommitRunsInv, VerifyRunsInv DEF RpcStep
  <1>3. ASSUME NEW r \in Request, RequestStep(r) \/ RequestFails(r) \/ RequestDies(r)
                 \/ \E c \in Call : RecoverTimesOut(r, c)
        PROVE  Inv'
    BY <1>3, RequestAlone, ObserveInv, TakeCommitInv, RecoverInv, RequestDiesInv DEF RequestStep
  <1>4. ASSUME NEW v \in Verifier, VerifierStep(v) \/ VerifierInterrupted(v) PROVE Inv'
    BY <1>4, DeliverInv, TakeAnswerInv, ObserveObjectInv, InterruptedInv DEF VerifierStep
  <1> QED
    BY <1>1, <1>2, <1>3, <1>4, QuietSteps DEF PipelineNext

LEMMA AlwaysInv == PipelineSpec => []Inv
  <1> QED
    BY PipelineInitInv, PipelineStepInv, PTL DEF PipelineSpec

\* completeUpload and verifyUploadedObject, whatever overlaps or is lost:
\* locals are typed and no verifier works on a version ahead of its row.
THEOREM PipelineInvariant == PipelineSpec => []PipelineInv
  <1>1. Inv => PipelineInv
    BY DEF Inv, PipelineInv, VerifiersCurrent, VerifierOK, Current
  <1> QED
    BY <1>1, AlwaysInv, PTL

\* An accepted completion has its object uploaded and its own record.
THEOREM AcceptedHolds == PipelineSpec => []AcceptedIsRecorded
  <1>1. ASSUME Inv, NEW r \in Request, request[r].answer = "accepted"
        PROVE  /\ jobs[request[r].object].state # "absent"
               /\ records[request[r].key] = [object |-> request[r].object, hash |-> request[r].ifMatch]
    <2>1. Recorded(r) /\ request[r].object \in Object /\ request[r].key \in Key
      BY <1>1, Facts DEF Inv, RequestOK
    <2>2. records[request[r].key] # NoRecord /\ records[request[r].key].object = request[r].object
      BY <1>1, <2>1, Facts, StoreAssumption DEF Recorded
    <2> QED
      BY <1>1, <2>1, <2>2 DEF Recorded, Inv, StoreInv, RecordsBacked, RowsAgree
  <1>2. Inv => AcceptedIsRecorded
    BY <1>1 DEF AcceptedIsRecorded
  <1> QED
    BY <1>2, AlwaysInv, PTL

\* A commit that may still run has been fenced in vain, or its request died.
THEOREM AmbiguityIsRecovered == PipelineSpec => []AmbiguousIsRecovered
  <1>1. ASSUME Inv, NEW r \in Request, NEW c \in Call,
               rpc[c].by = r, rpc[c].kind = "commit", ~rpc[c].waited
        PROVE  faults >= IF request[r].at = "died" THEN 1 ELSE 2
    BY <1>1 DEF Inv, CallOK, CommitOK
  <1>2. Inv => AmbiguousIsRecovered
    BY <1>1 DEF AmbiguousIsRecovered
  <1> QED
    BY <1>2, AlwaysInv, PTL

\* Messages announce only uploads that are committed.
THEOREM MessagesFollowCommits == PipelineSpec => []SentAfterCommit
  <1>1. Inv => SentAfterCommit
    BY DEF Inv, SentAfterCommit, VerifierOK
  <1> QED
    BY <1>1, AlwaysInv, PTL

\* The Workers' every step is a step of ObjectStore, or changes none of it.
THEOREM WorkersAreClients == PipelineSpec => ImplementsStore
  <1>1. PipelineInit => StoreInit
    BY DEF PipelineInit
  <1>2. Inv /\ [PipelineNext]_pipelineVars => [StoreNext]_storeVars
    BY StepIsStore
  <1> QED
    BY <1>1, <1>2, AlwaysInv, PTL DEF PipelineSpec, ImplementsStore, StoreSpec

\* Whatever is put into Storage meanwhile and however calls outlive the verifiers
\* that sent them, a verdict rests on what a verifier saw during verification,
\* and 'ready' on two observations that matched, its own and the completion's.
THEOREM VerdictsAreWitnessed == PipelineSpec => []VerdictsWitnessed
  <1>1. Inv /\ ReadyHasEvidence => VerdictsWitnessed
    BY DEF Inv, Judged, ReadyHasEvidence, VerdictsWitnessed
  <1> QED
    BY <1>1, AlwaysInv, WorkersAreClients, ReadyNeedsEvidence, PTL DEF ImplementsStore

\* With its retries, lost calls and redeliveries the pipeline keeps the promise
\* of the abstract object lifecycle: uploaded once, one verdict, on evidence.
THEOREM PipelineKeepsLifecycle == PipelineSpec => ImplementsLifecycle
  BY WorkersAreClients, StoreImplementsLifecycle DEF ImplementsStore
=============================================================================
