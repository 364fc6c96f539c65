-------------------------- MODULE ObjectStoreProofs --------------------------
(***************************************************************************)
(* Theorems about ObjectStore: whatever versions any number of callers     *)
(* bring, object, intent, job and record tell one story, and every object  *)
(* goes through ObjectLifecycle once.                                      *)
(*                                                                         *)
(* The argument: RowsAgree makes the state of the job a function of the    *)
(* state of the object, so the guard of one table stands for the other's.  *)
(***************************************************************************)
EXTENDS ObjectStore, TLAPS

\* The rows of one object.
Agree(o) ==
  /\ intents[o] = "consumed" <=> jobs[o].state # "absent"
  /\ objects[o].state = "absent" <=> objects[o].version = 0
  /\ objects[o].state \in {"absent", "pending_upload"} <=> jobs[o].state = "absent"
  /\ objects[o].state = "uploaded" <=> jobs[o].state = "queued"
  /\ objects[o].state = "verifying" <=> jobs[o].state = "running"
  /\ objects[o].state = "ready" <=> jobs[o].state = "succeeded"
  /\ objects[o].state \in {"rejected", "quarantined"} <=> jobs[o].state = "failed"

LEMMA InvParts ==
  StoreInv <=> StoreTypeOK /\ RecordsBacked /\ \A o \in Object : Agree(o)
  BY DEF StoreInv, RowsAgree, Agree

LEMMA StoreInitInv == StoreInit => StoreInv
  <1> SUFFICES ASSUME StoreInit PROVE StoreInv
    OBVIOUS
  <1>1. StoreTypeOK
    BY DEF StoreInit, StoreTypeOK, FenceInit, FenceTypeOK, FenceState, ObjectRow, ObjectState, JobRow
  <1>2. \A o \in Object : Agree(o)
    BY DEF StoreInit, Agree
  <1>3. RecordsBacked
    BY DEF StoreInit, RecordsBacked
  <1> QED
    BY <1>1, <1>2, <1>3, InvParts

\* A step on the rows of one object: the others agree as before, and a record
\* stays backed as long as a consumed intent stays consumed.
LEMMA OneObject ==
  ASSUME StoreInv, NEW o \in Object, NEW row \in ObjectRow, NEW job \in JobRow,
         NEW intent \in {"absent", "issued", "consumed"},
         objects' = [objects EXCEPT ![o] = row],
         jobs' = [jobs EXCEPT ![o] = job],
         intents' = [intents EXCEPT ![o] = intent],
         intents[o] = "consumed" => intent = "consumed",
         lapsed' = lapsed, fences' = fences, admitted' \subseteq admitted,
         \/ records' = records
         \/ \E k \in Key, h \in Hash :
              records' = [records EXCEPT ![k] = [object |-> o, hash |-> h]] /\ intent = "consumed",
         Agree(o)'
  PROVE  StoreInv'
  <1>1. StoreTypeOK /\ RecordsBacked /\ \A q \in Object : Agree(q)
    BY InvParts
  <1>2. records' \in [Key -> Record \union {NoRecord}]
    BY <1>1 DEF StoreTypeOK, Record
  <1>3. StoreTypeOK'
    BY <1>1, <1>2 DEF StoreTypeOK, FenceTypeOK
  <1>4. \A q \in Object : q # o =>
          /\ objects'[q] = objects[q] /\ jobs'[q] = jobs[q] /\ intents'[q] = intents[q]
    BY <1>1 DEF StoreTypeOK
  <1>5. \A q \in Object : Agree(q)'
    BY <1>1, <1>4 DEF Agree
  <1>6. intents'[o] = intent
    BY <1>1 DEF StoreTypeOK
  <1>7. RecordsBacked'
    <2> SUFFICES ASSUME NEW k \in Key, records'[k] # NoRecord
                 PROVE  intents'[records'[k].object] = "consumed"
      BY DEF RecordsBacked
    <2>1. CASE records'[k] = records[k]
      <3>1. records[k].object \in Object /\ intents[records[k].object] = "consumed"
        BY <1>1, <2>1 DEF StoreTypeOK, Record, RecordsBacked
      <3> QED
        BY <1>4, <1>6, <2>1, <3>1
    <2>2. CASE records'[k] # records[k]
      <3>1. records'[k].object = o /\ intent = "consumed"
        BY <1>1, <2>2 DEF StoreTypeOK
      <3> QED
        BY <1>6, <3>1
    <2> QED
      BY <2>1, <2>2
  <1> QED
    BY <1>3, <1>5, <1>7 DEF StoreInv, RowsAgree, Agree

LEMMA Typed ==
  ASSUME StoreInv, NEW o \in Object
  PROVE  /\ objects[o] \in ObjectRow /\ jobs[o] \in JobRow /\ Agree(o)
         /\ intents[o] \in {"absent", "issued", "consumed"}
         /\ objects' = objects => objects' = [objects EXCEPT ![o] = objects[o]]
         /\ intents' = intents => intents' = [intents EXCEPT ![o] = intents[o]]
         /\ jobs' = jobs => jobs' = [jobs EXCEPT ![o] = jobs[o]]
  BY InvParts DEF StoreTypeOK

LEMMA CreateInv ==
  ASSUME StoreInv, NEW o \in Object, CreateUploadIntent(o)
  PROVE  StoreInv'
  <1> DEFINE row == [objects[o] EXCEPT !.state = "pending_upload", !.version = 1]
  <1>1. /\ objects' = [objects EXCEPT ![o] = row] /\ intents' = [intents EXCEPT ![o] = "issued"]
        /\ UNCHANGED <<fences, lapsed, jobs, records, admitted>> /\ objects[o].state = "absent"
    BY Typed, InvParts DEF CreateUploadIntent, StoreTypeOK, ObjectRow
  <1>2. row \in ObjectRow /\ row.state = "pending_upload" /\ row.version # 0
    <2>1. objects[o] \in ObjectRow
      BY Typed
    <2>2. row \in ObjectRow /\ row.state = "pending_upload"
      BY <2>1 DEF ObjectRow, ObjectState
    <2>3. row.version = 1
      BY <2>1 DEF ObjectRow
    <2> QED
      BY <2>2, <2>3
  <1>3. jobs[o].state = "absent" /\ intents[o] # "consumed"
    BY <1>1, Typed DEF Agree
  <1> HIDE DEF row
  <1>4. Agree(o)'
    BY <1>1, <1>2, <1>3, InvParts DEF Agree, StoreTypeOK
  <1> QED
    BY <1>1, <1>2, <1>3, <1>4, Typed, OneObject

LEMMA CompleteInv ==
  ASSUME StoreInv, NEW c \in Call, NEW k \in Key, NEW h \in Hash, NEW o \in Object,
         NEW version \in Nat, NEW observed \in Observation,
         CompleteUploadIntent(c, k, h, o, version, observed)
  PROVE  StoreInv'
  <1> DEFINE row == [state |-> "uploaded", version |-> version + 1, observed |-> observed]
             job == [state |-> "queued", version |-> 1]
  <1>1. /\ objects' = [objects EXCEPT ![o] = row] /\ intents' = [intents EXCEPT ![o] = "consumed"]
        /\ jobs' = [jobs EXCEPT ![o] = job]
        /\ records' = [records EXCEPT ![k] = [object |-> o, hash |-> h]]
        /\ UNCHANGED <<fences, lapsed>> /\ admitted' \subseteq admitted
    BY DEF CompleteUploadIntent, EndCall
  <1>2. /\ row \in ObjectRow /\ job \in JobRow /\ row.state = "uploaded" /\ job.state = "queued"
        /\ row.version # 0
    BY DEF ObjectRow, ObjectState, JobRow
  <1> HIDE DEF row, job
  <1>3. Agree(o)'
    BY <1>1, <1>2, InvParts DEF Agree, StoreTypeOK
  <1> QED
    BY <1>1, <1>2, <1>3, OneObject

LEMMA StartInv ==
  ASSUME StoreInv, NEW c \in Call, NEW o \in Object, NEW version \in Nat,
         StartVerification(c, o, version)
  PROVE  StoreInv'
  <1> DEFINE row == [objects[o] EXCEPT !.state = "verifying", !.version = @ + 1]
             job == [state |-> "running", version |-> jobs[o].version + 1]
  <1>1. /\ objects[o] \in ObjectRow /\ jobs[o] \in JobRow
        /\ intents[o] = "consumed" /\ jobs[o].state = "queued"
    BY Typed DEF StartVerification, Startable, Agree
  <1>2. /\ objects' = [objects EXCEPT ![o] = row] /\ jobs' = [jobs EXCEPT ![o] = job]
        /\ UNCHANGED <<fences, intents, lapsed, records>> /\ admitted' \subseteq admitted
    <2>1. objects' = [objects EXCEPT ![o] = row]
      BY <1>1, InvParts DEF StartVerification, StoreTypeOK, ObjectRow
    <2> QED
      BY <1>1, <2>1 DEF StartVerification, EndCall
  <1>3. /\ row \in ObjectRow /\ job \in JobRow /\ row.state = "verifying" /\ job.state = "running"
        /\ row.version # 0
    <2>1. objects[o].version + 1 \in Nat /\ objects[o].version + 1 # 0 /\ jobs[o].version + 1 \in Nat
      BY <1>1 DEF ObjectRow, JobRow
    <2> QED
      BY <1>1, <2>1 DEF ObjectRow, ObjectState, JobRow
  <1> HIDE DEF row, job
  <1>4. Agree(o)'
    BY <1>1, <1>2, <1>3, InvParts DEF Agree, StoreTypeOK
  <1>5. intents' = [intents EXCEPT ![o] = "consumed"]
    BY <1>1, <1>2, Typed
  <1> QED
    BY <1>1, <1>2, <1>3, <1>4, <1>5, OneObject

LEMMA FinishInv ==
  ASSUME StoreInv, NEW c \in Call, NEW o \in Object, NEW version \in Nat, NEW verdict \in Terminal,
         FinishVerification(c, o, version, verdict)
  PROVE  StoreInv'
  <1> DEFINE row == [objects[o] EXCEPT !.state = verdict, !.version = @ + 1]
             job == [state |-> IF verdict = "ready" THEN "succeeded" ELSE "failed",
                     version |-> jobs[o].version + 1]
  <1>1. /\ objects[o] \in ObjectRow /\ jobs[o] \in JobRow /\ intents[o] = "consumed"
    BY Typed DEF FinishVerification, VerdictDue, Agree
  <1>2. /\ objects' = [objects EXCEPT ![o] = row] /\ jobs' = [jobs EXCEPT ![o] = job]
        /\ UNCHANGED <<fences, intents, lapsed, records>> /\ admitted' \subseteq admitted
    <2>1. objects' = [objects EXCEPT ![o] = row]
      BY <1>1, InvParts DEF FinishVerification, StoreTypeOK, ObjectRow
    <2> QED
      BY <2>1 DEF FinishVerification, EndCall, CloseJob
  <1>3. /\ row \in ObjectRow /\ job \in JobRow /\ row.state = verdict /\ row.version # 0
        /\ job.state = IF verdict = "ready" THEN "succeeded" ELSE "failed"
    <2>1. objects[o].version + 1 \in Nat /\ objects[o].version + 1 # 0 /\ jobs[o].version + 1 \in Nat
      BY <1>1 DEF ObjectRow, JobRow
    <2> QED
      BY <1>1, <2>1 DEF ObjectRow, ObjectState, JobRow
  <1> HIDE DEF row, job
  <1>4. Agree(o)'
    BY <1>1, <1>2, <1>3, InvParts DEF Agree, StoreTypeOK, Terminal
  <1>5. intents' = [intents EXCEPT ![o] = "consumed"]
    BY <1>1, <1>2, Typed
  <1> QED
    BY <1>1, <1>2, <1>3, <1>4, <1>5, OneObject

LEMMA StoreStepInv == StoreInv /\ [StoreNext]_storeVars => StoreInv'
  <1> SUFFICES ASSUME StoreInv, [StoreNext]_storeVars PROVE StoreInv'
    OBVIOUS
  <1>0. StoreTypeOK
    BY InvParts
  <1>1. CASE UNCHANGED <<objects, intents, jobs, records>> /\ FenceTypeOK'
             /\ lapsed' \subseteq Object /\ admitted' \subseteq Call
    BY <1>0, <1>1 DEF StoreInv, StoreTypeOK, RowsAgree, RecordsBacked
  <1>2. CASE FenceStep /\ UNCHANGED <<objects, intents, lapsed, jobs, records, admitted>>
    <2>1. FenceTypeOK'
      BY <1>0, <1>2 DEF StoreTypeOK, FenceTypeOK, FenceStep, BeginRestoreFence, CompleteRestoreFence,
                        FenceState, Epoch
    <2> QED
      BY <1>0, <1>1, <1>2, <2>1 DEF StoreTypeOK
  <1>3. ASSUME NEW o \in Object, CreateUploadIntent(o) \/ IntentLapses(o) PROVE StoreInv'
    BY <1>0, <1>1, <1>3, CreateInv DEF IntentLapses, StoreTypeOK, FenceTypeOK
  <1>4. ASSUME NEW c \in Call, PassGate(c) \/ ChangeNothing(c) PROVE StoreInv'
    BY <1>0, <1>1, <1>4 DEF PassGate, ChangeNothing, EndCall, StoreTypeOK, FenceTypeOK
  <1>5. ASSUME NEW c \in Call, NEW o \in Object, NEW version \in 1..objects[o].version,
               \/ \E k \in Key, h \in Hash, observed \in Observation :
                    CompleteUploadIntent(c, k, h, o, version, observed)
               \/ StartVerification(c, o, version)
               \/ \E verdict \in Terminal : FinishVerification(c, o, version, verdict)
        PROVE  StoreInv'
    <2>1. version \in Nat
      BY <1>0 DEF StoreTypeOK, ObjectRow
    <2> QED
      BY <1>5, <2>1, CompleteInv, StartInv, FinishInv
  <1>6. CASE UNCHANGED storeVars
    BY <1>0, <1>1, <1>6 DEF storeVars, StoreTypeOK, FenceTypeOK
  <1> QED
    BY <1>2, <1>3, <1>4, <1>5, <1>6 DEF StoreNext

\* Whatever stale versions the callers bring, object, intent, job and record
\* tell one story.
THEOREM ObjectsStayConsistent == StoreSpec => []StoreInv
  <1>1. StoreInit => StoreInv
    BY StoreInitInv
  <1>2. StoreInv /\ [StoreNext]_storeVars => StoreInv'
    BY StoreStepInv
  <1> QED
    BY <1>1, <1>2, PTL DEF StoreSpec

-----------------------------------------------------------------------------
\* What a step may do to an object, with the evidence it needs: the facts the
\* properties of steps and the refinement rest on.

\* A step that moves an object: one object, one version on, and where to.
Moves(o) ==
  LET old == objects[o]
      new == objects'[o]
  IN  /\ objects' = [objects EXCEPT ![o] = new]
      /\ new.version = old.version + 1
      /\ \/ old.state = "absent" /\ new.state = "pending_upload" /\ new.observed = old.observed
         \/ old.state = "pending_upload" /\ new.state = "uploaded" /\ new.observed \in Observation
         \/ old.state = "uploaded" /\ new.state = "verifying" /\ new.observed = old.observed
         \/ old.state = "verifying" /\ new.state \in Terminal /\ new.observed = old.observed
            /\ (new.state = "ready" => old.observed = "match")

LEMMA EveryMove == StoreInv /\ [StoreNext]_storeVars => UNCHANGED objects \/ \E o \in Object : Moves(o)
  <1> SUFFICES ASSUME StoreInv, [StoreNext]_storeVars
               PROVE  UNCHANGED objects \/ \E o \in Object : Moves(o)
    OBVIOUS
  <1>0. objects \in [Object -> ObjectRow] /\ \A o \in Object : Agree(o)
    BY InvParts DEF StoreTypeOK
  <1>1. ASSUME NEW o \in Object, CreateUploadIntent(o) PROVE Moves(o)
    <2>1. objects[o] \in ObjectRow /\ objects[o].version = 0
      BY <1>0, <1>1 DEF Agree, CreateUploadIntent
    <2>2. objects'[o] = [objects[o] EXCEPT !.state = "pending_upload", !.version = 1]
          /\ objects' = [objects EXCEPT ![o] = objects'[o]]
      BY <1>0, <1>1, <2>1 DEF CreateUploadIntent, ObjectRow
    <2>3. /\ objects'[o].state = "pending_upload" /\ objects'[o].version = 1
          /\ objects'[o].observed = objects[o].observed
      BY <2>1, <2>2 DEF ObjectRow
    <2> QED
      BY <1>1, <2>1, <2>2, <2>3 DEF Moves, CreateUploadIntent
  <1>2. ASSUME NEW c \in Call, NEW k \in Key, NEW h \in Hash, NEW o \in Object, NEW version \in Nat,
               NEW observed \in Observation, CompleteUploadIntent(c, k, h, o, version, observed)
        PROVE  Moves(o)
    <2>1. /\ objects'[o] = [state |-> "uploaded", version |-> version + 1, observed |-> observed]
          /\ objects' = [objects EXCEPT ![o] = objects'[o]]
          /\ objects[o].state = "pending_upload" /\ objects[o].version = version
      BY <1>0, <1>2 DEF CompleteUploadIntent, Completable
    <2> QED
      BY <2>1 DEF Moves
  <1>3. ASSUME NEW c \in Call, NEW o \in Object, NEW version, StartVerification(c, o, version)
        PROVE  Moves(o)
    <2>1. /\ objects[o] \in ObjectRow /\ objects[o].state = "uploaded"
          /\ objects'[o] = [objects[o] EXCEPT !.state = "verifying", !.version = @ + 1]
          /\ objects' = [objects EXCEPT ![o] = objects'[o]]
      BY <1>0, <1>3 DEF StartVerification, Startable, ObjectRow
    <2> QED
      BY <2>1 DEF Moves, ObjectRow
  <1>4. ASSUME NEW c \in Call, NEW o \in Object, NEW version, NEW verdict \in Terminal,
               FinishVerification(c, o, version, verdict)
        PROVE  Moves(o)
    <2>1. /\ objects[o] \in ObjectRow /\ objects[o].state = "verifying"
          /\ objects'[o] = [objects[o] EXCEPT !.state = verdict, !.version = @ + 1]
          /\ objects' = [objects EXCEPT ![o] = objects'[o]]
          /\ verdict = "ready" => objects[o].observed = "match"
      BY <1>0, <1>4 DEF FinishVerification, VerdictDue, ObservedAsDeclared, ObjectRow
    <2> QED
      BY <2>1 DEF Moves, ObjectRow
  <1>5. \A o \in Object : 1..objects[o].version \subseteq Nat
    BY <1>0 DEF ObjectRow
  <1> QED
    BY <1>1, <1>2, <1>3, <1>4, <1>5 DEF StoreNext, storeVars, IntentLapses, PassGate, ChangeNothing

\* A version of an object names one row, and a verdict is final.
THEOREM VersionsNameRows == StoreSpec => VerdictsFinal
  <1>1. StoreInv /\ [StoreNext]_storeVars =>
          [\A o \in Object : objects'[o] # objects[o] =>
             /\ objects'[o].version = objects[o].version + 1
             /\ objects[o].state \notin Terminal]_storeVars
    <2> SUFFICES ASSUME StoreInv, [StoreNext]_storeVars, NEW o \in Object, objects'[o] # objects[o]
                 PROVE  /\ objects'[o].version = objects[o].version + 1
                        /\ objects[o].state \notin Terminal
      OBVIOUS
    <2>1. PICK q \in Object : Moves(q)
      BY EveryMove
    <2>2. q = o
      BY <2>1, InvParts DEF Moves, StoreTypeOK
    <2> QED
      BY <2>1, <2>2 DEF Moves, Terminal
  <1> QED
    BY <1>1, ObjectsStayConsistent, PTL DEF StoreSpec, VerdictsFinal

LEMMA MoveIsLifecycleStep ==
  ASSUME StoreInv, NEW o \in Object, Moves(o)
  PROVE  [Lifecycle!LifecycleNext]_(Lifecycle!lifecycleVars)
  <1>0. objects \in [Object -> ObjectRow]
    BY InvParts DEF StoreTypeOK
  <1> DEFINE new == objects'[o]
  <1>1. /\ ObjectPhase' = [ObjectPhase EXCEPT ![o] = Phase(new)]
        /\ Evidence' = [Evidence EXCEPT ![o] = new.observed]
        /\ ObjectPhase[o] = Phase(objects[o]) /\ Evidence[o] = objects[o].observed
    BY <1>0 DEF Moves, ObjectPhase, Evidence
  <1>2. Evidence = [Evidence EXCEPT ![o] = objects[o].observed]
    BY DEF Evidence
  <1>3. CASE objects[o].state = "absent" /\ new.state = "pending_upload"
    <2>1. Phase(new) = "declared" /\ Phase(objects[o]) = "absent" /\ new.observed = objects[o].observed
      BY <1>3 DEF Phase, Moves, Terminal
    <2>2. Lifecycle!Declare(o)
      BY <1>1, <1>2, <2>1 DEF Lifecycle!Declare
    <2> QED
      BY <2>2 DEF Lifecycle!LifecycleNext
  <1>4. CASE objects[o].state = "pending_upload" /\ new.state = "uploaded"
    <2>1. Phase(new) = "uploaded" /\ Phase(objects[o]) = "declared"
      BY <1>4 DEF Phase
    <2>2. new.observed \in {"match", "differs"}
      BY <1>4 DEF Moves, Observation, Terminal
    <2>3. Lifecycle!Upload(o, new.observed)
      BY <1>1, <2>1 DEF Lifecycle!Upload
    <2> QED
      BY <2>2, <2>3 DEF Lifecycle!LifecycleNext
  <1>5. CASE objects[o].state = "uploaded" /\ new.state = "verifying"
    <2>1. /\ Phase(new) = "uploaded" /\ Phase(objects[o]) = "uploaded"
          /\ new.observed = objects[o].observed
      BY <1>5 DEF Phase, Moves, Terminal
    <2>2. ObjectPhase = [ObjectPhase EXCEPT ![o] = Phase(objects[o])]
      BY DEF ObjectPhase
    <2> QED
      BY <1>1, <1>2, <2>1, <2>2 DEF Lifecycle!lifecycleVars
  <1>6. CASE objects[o].state = "verifying" /\ new.state \in Terminal
    <2>1. /\ Phase(new) = new.state /\ Phase(objects[o]) = "uploaded"
          /\ new.observed = objects[o].observed
          /\ new.state = "ready" => objects[o].observed = "match"
      BY <1>6 DEF Phase, Moves, Terminal
    <2>2. Lifecycle!Decide(o, new.state)
      BY <1>1, <1>2, <2>1 DEF Lifecycle!Decide
    <2> QED
      BY <1>6, <2>2 DEF Lifecycle!LifecycleNext, Lifecycle!Verdict, Terminal
  <1> QED
    BY <1>3, <1>4, <1>5, <1>6 DEF Moves

\* Any history of the tables is a history of ObjectLifecycle: uploaded once,
\* one verdict, and 'ready' only on evidence that matches.
THEOREM StoreImplementsLifecycle == StoreSpec => ImplementsLifecycle
  <1>1. StoreInit => Lifecycle!LifecycleInit
    BY DEF StoreInit, Lifecycle!LifecycleInit, ObjectPhase, Evidence, Phase
  <1>2. StoreInv /\ [StoreNext]_storeVars =>
          [Lifecycle!LifecycleNext]_(Lifecycle!lifecycleVars)
    <2>1. UNCHANGED objects => UNCHANGED (Lifecycle!lifecycleVars)
      BY DEF Lifecycle!lifecycleVars, ObjectPhase, Evidence
    <2> QED
      BY <2>1, EveryMove, MoveIsLifecycleStep
  <1> QED
    BY <1>1, <1>2, ObjectsStayConsistent, PTL DEF StoreSpec, ImplementsLifecycle, Lifecycle!LifecycleSpec

\* While a restore reconciles nobody is admitted, and no job moves but at the
\* end of a call admitted before.
THEOREM FenceFreezesObjects == StoreSpec => FencedObjectsFrozen
  <1>1. [StoreNext]_storeVars =>
          [~ExternalEffectsAllowed =>
             /\ admitted' \subseteq admitted
             /\ admitted' = admitted => UNCHANGED jobs]_storeVars
    <2> SUFFICES ASSUME [StoreNext]_storeVars, ~ExternalEffectsAllowed
                 PROVE  /\ admitted' \subseteq admitted
                        /\ admitted' = admitted => UNCHANGED jobs
      OBVIOUS
    <2>1. CASE UNCHANGED <<admitted, jobs>>
      BY <2>1
    <2>2. ASSUME NEW c \in Call, EndCall(c)
          PROVE  admitted' \subseteq admitted /\ admitted' # admitted
      BY <2>2 DEF EndCall
    <2>3. ASSUME NEW c \in Call, NEW o \in Object, NEW version,
                 \/ \E k \in Key, h \in Hash, observed \in Observation :
                      CompleteUploadIntent(c, k, h, o, version, observed)
                 \/ StartVerification(c, o, version)
                 \/ \E verdict \in Terminal : FinishVerification(c, o, version, verdict)
          PROVE  EndCall(c)
      BY <2>3 DEF CompleteUploadIntent, StartVerification, FinishVerification
    <2>4. ASSUME NEW c \in Call, PassGate(c) \/ ChangeNothing(c) PROVE EndCall(c)
      BY <2>4 DEF PassGate, ChangeNothing
    <2>5. ASSUME NEW o \in Object, CreateUploadIntent(o) \/ IntentLapses(o)
          PROVE  UNCHANGED <<admitted, jobs>>
      BY <2>5 DEF CreateUploadIntent, IntentLapses
    <2> QED
      BY <2>1, <2>2, <2>3, <2>4, <2>5 DEF StoreNext, storeVars
  <1> QED
    BY <1>1, PTL DEF StoreSpec, FencedObjectsFrozen

\* The record of a completion appears while its intent is still issued, and no
\* record names an object whose intent is.
LEMMA CompletedStep ==
  ASSUME StoreInv, CompletedOnce, [StoreNext]_storeVars
  PROVE  CompletedOnce'
  <1>1. CASE UNCHANGED records
    BY <1>1 DEF CompletedOnce
  <1>2. ASSUME NEW c \in Call, NEW o \in Object, NEW version, NEW k \in Key, NEW h \in Hash,
               NEW observed, CompleteUploadIntent(c, k, h, o, version, observed)
        PROVE  CompletedOnce'
    <2>1. /\ records[k] = NoRecord /\ intents[o] = "issued"
          /\ records' = [records EXCEPT ![k] = [object |-> o, hash |-> h]]
          /\ records \in [Key -> Record \union {NoRecord}]
      BY <1>2, InvParts DEF CompleteUploadIntent, Completable, StoreTypeOK
    <2>2. \A l \in Key : records[l] # NoRecord => records[l].object # o
      BY <2>1 DEF StoreInv, RecordsBacked
    <2>3. /\ records'[k].object = o
          /\ \A l \in Key : l # k => records'[l] = records[l]
      BY <2>1
    <2> SUFFICES ASSUME NEW l \in Key, NEW m \in Key, records'[l] # NoRecord,
                        records'[m] # NoRecord, records'[l].object = records'[m].object
                 PROVE  l = m
      BY DEF CompletedOnce
    <2>4. CASE l # k /\ m # k
      BY <2>3, <2>4 DEF CompletedOnce
    <2>5. CASE l = k \/ m = k
      BY <2>2, <2>3, <2>5
    <2> QED
      BY <2>4, <2>5
  <1> QED
    BY <1>1, <1>2
    DEF StoreNext, storeVars, CreateUploadIntent, IntentLapses, PassGate, ChangeNothing,
        StartVerification, FinishVerification

\* However many keys a client makes up for one upload, one completes it.
THEOREM CompletionsAreUnique == StoreSpec => []CompletedOnce
  <1>1. StoreInit => CompletedOnce
    BY DEF StoreInit, CompletedOnce
  <1> QED
    BY <1>1, CompletedStep, ObjectsStayConsistent, PTL DEF StoreSpec

\* 'ready' only on evidence: what the completion observed is the declaration.
ReadyHasEvidence == \A o \in Object : objects[o].state = "ready" => ObservedAsDeclared(o)

\* apply_object_verification makes no object ready that complete_upload_intent
\* saw differ from its declaration, whatever a later caller observed.
THEOREM ReadyNeedsEvidence == StoreSpec => []ReadyHasEvidence
  <1>1. StoreInit => ReadyHasEvidence
    BY DEF StoreInit, ReadyHasEvidence
  <1>2. StoreInv /\ ReadyHasEvidence /\ [StoreNext]_storeVars => ReadyHasEvidence'
    <2> SUFFICES ASSUME StoreInv, ReadyHasEvidence, [StoreNext]_storeVars, NEW o \in Object,
                        objects'[o].state = "ready"
                 PROVE  objects'[o].observed = "match"
      BY DEF ReadyHasEvidence, ObservedAsDeclared
    <2>1. CASE objects'[o] = objects[o]
      BY <2>1 DEF ReadyHasEvidence, ObservedAsDeclared
    <2>2. CASE objects'[o] # objects[o]
      <3>1. PICK q \in Object : Moves(q)
        BY <2>2, EveryMove
      <3>2. q = o
        BY <2>2, <3>1, InvParts DEF Moves, StoreTypeOK
      <3> QED
        BY <3>1, <3>2 DEF Moves, Terminal
    <2> QED
      BY <2>1, <2>2
  <1> QED
    BY <1>1, <1>2, ObjectsStayConsistent, PTL DEF StoreSpec
=============================================================================
