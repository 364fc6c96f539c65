------------------------ MODULE ProviderEffectsProofs ------------------------
(***************************************************************************)
(* Theorems about ProviderEffects: whatever answers are lost, executions   *)
(* die and reconcilers come first, for any number of operations and        *)
(* executions an operation has one sender and at most one effect, and is   *)
(* closed as what the provider did.                                        *)
(*                                                                         *)
(* The argument: markPending is a compare-and-swap out of 'planned', a     *)
(* state no write leads back to, so one execution at most gets to know     *)
(* that it claimed the operation, and only that one ever sends.            *)
(***************************************************************************)
EXTENDS ProviderEffects, TLAPS

LEMMA InitInv == Init => EffectInv
  <1> SUFFICES ASSUME Init PROVE EffectInv
    OBVIOUS
  <1> USE ProviderAssumption DEF Init, EffectInv
  <1>1. TypeOK
    BY DEF TypeOK, State, Terminal, Claimed, Answer
  <1>2. OneClaim /\ \A e \in Execution : ExecutionOK(e)
    BY DEF OneClaim, ExecutionOK, ClaimedState, Claimed
  <1>3. /\ \A o \in Operation : operations[o] = [state |-> "absent", version |-> 0, attempts |-> 0]
        /\ \A o \in Operation : \A answer : Answers(o, answer) => answer = "none"
        /\ \A o \in Operation : effects[o] = 0
    BY DEF Answers
  <1>4. (\A o \in Operation : RowOK(o)) /\ OpenHasRoom
    BY <1>3 DEF RowOK, OpenHasRoom
  <1>5. \A p \in Reconciler : ReconcilerOK(p)
    BY DEF ReconcilerOK, Terminal
  <1> QED
    BY <1>1, <1>2, <1>4, <1>5

AnswersSame ==
  \A o : /\ Answers(o, "accepted")' <=> Answers(o, "accepted")
         /\ Answers(o, "rejected")' <=> Answers(o, "rejected")

\* A write of an outcome: what the rows are afterwards, and what cannot be
\* undone by it.
LEMMA WriteInv ==
  ASSUME EffectInv, NEW o \in Operation, NEW version \in Nat, NEW next \in State,
         Applicable(o, version, next), Write(o, next), effects' = effects,
         AnswersSame,
         next = "pending" => version \in {1, 2},
         next = "confirmed" => Answers(o, "accepted"),
         next = "failed" => Answers(o, "rejected")
  PROVE  /\ operations' \in [Operation -> [state : State, version : Nat, attempts : 0..EvidenceLimit]]
         /\ operations'[o].state = next
         /\ \A q \in Operation : RowOK(q)'
         /\ \A q \in Operation : ClaimedState(q) => ClaimedState(q)'
         /\ \A q \in Operation : operations[q].state = "failed" => operations'[q].state = "failed"
         /\ \A q \in Operation : operations[q].state # "absent" => operations'[q].state # "absent"
  <1> DEFINE row == [state |-> next, version |-> operations[o].version + 1,
                     attempts |-> operations[o].attempts + 1]
  <1>1. /\ operations \in [Operation -> [state : State, version : Nat, attempts : 0..EvidenceLimit]]
        /\ \A q \in Operation : RowOK(q)
    BY DEF EffectInv, TypeOK
  <1>2. operations' = [operations EXCEPT ![o] = row]
    BY DEF Write
  <1>3. operations[o].version = version /\ next \in Successors(operations[o].state)
        /\ operations[o].attempts < EvidenceLimit
    BY DEF Applicable
  <1>4. row \in [state : State, version : Nat, attempts : 0..EvidenceLimit]
    BY <1>1, <1>3, ProviderAssumption
  <1>5. operations[o].state # "absent" /\ next \notin {"absent", "planned"}
        /\ (operations[o].state = "failed" => next = "failed")
        /\ (next = "pending" => operations[o].state \in {"planned", "pending"})
    BY <1>1, <1>3 DEF Successors, Terminal, State
  <1>6. RowOK(o)'
    BY <1>1, <1>2, <1>3, <1>4, <1>5, ProviderAssumption DEF RowOK, AnswersSame
  <1> HIDE DEF row
  <1>7. ASSUME NEW q \in Operation, q # o PROVE RowOK(q)'
    BY <1>1, <1>2, <1>7 DEF RowOK, AnswersSame
  <1>8. operations'[o] = row /\ row.state = next
    BY <1>1, <1>2 DEF row
  <1> QED
    BY <1>1, <1>2, <1>4, <1>5, <1>6, <1>7, <1>8 DEF ClaimedState

Rows == [Operation -> [state : State, version : Nat, attempts : 0..EvidenceLimit]]
Locals == [at : {"called", "marking", "answered", "died"} \union Claimed,
           op : Operation \union {NoOperation}, version : Nat, claim : Nat,
           next : State, answer : Answer]
Calls == [Execution -> {"none", "flying", "accepted", "rejected", "refused"}]

LEMMA Types ==
  TypeOK <=> /\ operations \in Rows
             /\ execution \in [Execution -> Locals]
             /\ call \in Calls
             /\ reconciler \in [Reconciler ->
                  [at : {"called", "reading", "writing", "answered"},
                   op : Operation \union {NoOperation}, version : Nat, evidence : State]]
             /\ sends \in [Execution -> 0..MaxAttempts]
             /\ effects \in [Operation -> Nat]
  BY DEF TypeOK, Rows, Locals, Calls

\* What the rows and the calls of one step must satisfy for the executions it
\* does not move, the reconcilers and the room left.
RowsOK ==
  /\ operations' \in Rows
  /\ \A o \in Operation : RowOK(o)'
  /\ \A o \in Operation : ClaimedState(o) => ClaimedState(o)'
  /\ \A o \in Operation : operations[o].state = "failed" => operations'[o].state = "failed"
  /\ \A o \in Operation : operations[o].state # "absent" => operations'[o].state # "absent"

AnswersStay ==
  \A o : /\ Answers(o, "accepted") => Answers(o, "accepted")'
         /\ Answers(o, "rejected") => Answers(o, "rejected")'

\* A step of one execution: it claims at most a planned operation, and the
\* rest follows from its own locals.
LEMMA OneExecution ==
  ASSUME EffectInv, NEW e \in Execution, NEW x \in Locals,
         execution' = [execution EXCEPT ![e] = x],
         call' \in Calls, sends' \in [Execution -> 0..MaxAttempts], effects' \in [Operation -> Nat],
         \A f \in Execution \ {e} : call'[f] = call[f] /\ sends'[f] = sends[f],
         reconciler' = reconciler, RowsOK, AnswersStay,
         x.claim = 0 \/ (x.claim = execution[e].claim /\ x.op = execution[e].op)
                     \/ operations[x.op].state = "planned",
         ExecutionOK(e)'
  PROVE  EffectInv'
  <1>1. /\ execution \in [Execution -> Locals]
        /\ TypeOK'
    BY Types DEF EffectInv, TypeOK, Rows, Locals, Calls, RowsOK
  <1>2. /\ execution'[e] = x
        /\ \A f \in Execution \ {e} : execution'[f] = execution[f]
    BY <1>1
  <1>3. OneClaim'
    <2>1. \A f \in Execution : execution[f].claim = 2 =>
            execution[f].op \in Operation /\ ClaimedState(execution[f].op)
      BY DEF EffectInv, ExecutionOK
    <2>2. OneClaim
      BY DEF EffectInv
    <2> QED
      BY <1>2, <2>1, <2>2 DEF OneClaim, ClaimedState
  <1>4. ASSUME NEW f \in Execution, f # e PROVE ExecutionOK(f)'
    <2>1. ExecutionOK(f) /\ execution'[f] = execution[f] /\ call'[f] = call[f] /\ sends'[f] = sends[f]
      BY <1>2, <1>4 DEF EffectInv
    <2> QED
      BY <2>1 DEF ExecutionOK, RowsOK
  <1>5. ASSUME NEW p \in Reconciler PROVE ReconcilerOK(p)'
    <2>1. ReconcilerOK(p)
      BY DEF EffectInv
    <2> QED
      BY <2>1 DEF ReconcilerOK, AnswersStay
  <1>6. OpenHasRoom'
    <2> SUFFICES ASSUME NEW o \in Operation, operations'[o].state \notin Terminal
                 PROVE  operations'[o].attempts + 1 <= EvidenceLimit
      BY DEF OpenHasRoom
    <2>1. /\ RowOK(o)'
          /\ operations'[o] \in [state : State, version : Nat, attempts : 0..EvidenceLimit]
      BY DEF RowsOK, Rows
    <2>2. operations'[o].attempts \in {0, 1, 2}
      BY <2>1 DEF RowOK, State
    <2> QED
      BY <2>2, ProviderAssumption
  <1> QED
    BY <1>1, <1>3, <1>4, <1>5, <1>6 DEF EffectInv, RowsOK

LEMMA QuietRows ==
  ASSUME EffectInv, UNCHANGED <<operations, effects>>, AnswersSame
  PROVE  RowsOK /\ AnswersStay
  BY DEF EffectInv, TypeOK, Rows, RowsOK, AnswersStay, AnswersSame, RowOK, ClaimedState

\* A step that changes nothing but the locals of one execution.
LEMMA LocalStep ==
  ASSUME EffectInv, NEW e \in Execution, NEW x \in Locals,
         execution' = [execution EXCEPT ![e] = x],
         UNCHANGED <<operations, call, reconciler, sends, effects>>,
         x.op = execution[e].op \/ call[e] = "none",
         x.claim = 0 \/ (x.claim = execution[e].claim /\ x.op = execution[e].op),
         ExecutionOK(e)'
  PROVE  EffectInv'
  <1>1. execution \in [Execution -> Locals] /\ call \in Calls
        /\ sends \in [Execution -> 0..MaxAttempts] /\ effects \in [Operation -> Nat]
    BY Types DEF EffectInv
  <1>2. AnswersSame
    BY <1>1 DEF AnswersSame, Answers
  <1>3. RowsOK /\ AnswersStay
    BY <1>2, QuietRows
  <1> QED
    BY <1>1, <1>3, OneExecution

LEMMA ReadCanonicalInv ==
  ASSUME EffectInv, NEW e \in Execution, NEW o \in Operation, ReadCanonical(e, o)
  PROVE  EffectInv'
  <1> DEFINE x == execution'[e]
  <1>1. execution[e] \in Locals /\ ExecutionOK(e) /\ operations[o].version \in Nat
        /\ execution[e].at = "called" /\ operations[o].state # "absent"
    BY Types DEF EffectInv, Rows, ReadCanonical, At
  <1>2. execution[e].claim = 0 /\ call[e] = "none" /\ ~(sends[e] > 0)
    BY <1>1 DEF ExecutionOK
  <1> DEFINE new == IF operations[o].state = "planned"
                      THEN [execution[e] EXCEPT !.at = "marking", !.op = o, !.version = operations[o].version]
                      ELSE [execution[e] EXCEPT !.at = "answered", !.op = o, !.answer = "skip"]
  <1>a. execution' = [execution EXCEPT ![e] = new] /\ execution \in [Execution -> Locals]
    BY Types DEF EffectInv, ReadCanonical
  <1>b. new \in Locals
    BY <1>1 DEF Locals, Answer
  <1>c. /\ new.claim = 0 /\ new.op = o /\ new.next = execution[e].next
        /\ \/ new.at = "marking" /\ new.answer = "none"
           \/ new.at = "answered" /\ new.answer = "skip" /\ ClaimedState(o)
    BY <1>1, <1>2 DEF Locals, ExecutionOK, ClaimedState
  <1> HIDE DEF new
  <1>3. /\ x \in Locals /\ execution' = [execution EXCEPT ![e] = x] /\ x.claim = 0 /\ x.op = o
        /\ \/ x.at = "marking" /\ x.answer = "none"
           \/ x.at = "answered" /\ x.answer = "skip" /\ ClaimedState(o)
        /\ x.next = execution[e].next
    BY <1>a, <1>b, <1>c
  <1>4. ExecutionOK(e)'
    BY <1>1, <1>2, <1>3 DEF ReadCanonical, ExecutionOK, ClaimedState, Claimed
  <1> QED
    BY <1>2, <1>3, <1>4, LocalStep DEF ReadCanonical

\* A step that moves an execution on, or answers, without changing a claim.
LEMMA MoveInv ==
  ASSUME EffectInv, NEW e \in Execution, NEW x \in Locals,
         execution' = [execution EXCEPT ![e] = x],
         UNCHANGED <<operations, call, reconciler, sends, effects>>,
         x.op = execution[e].op, x.claim = execution[e].claim,
         \/ x.at = "died" /\ x.answer = "none"
         \/ x.at = "answered" /\ x.answer \in {"retry", "error"}
         \/ x.at \in Claimed /\ x.answer = "none" /\ execution[e].at \in Claimed,
         x.next \in {"pending", "failed"},
         x.at = "sending" => call[e] # "none",
         x.at = "sleeping" => sends[e] < MaxAttempts /\ call[e] = "refused",
         x.at = "saving" /\ x.next = "failed" => call[e] = "rejected"
  PROVE  EffectInv'
  <1>1. execution \in [Execution -> Locals] /\ ExecutionOK(e)
    BY Types DEF EffectInv
  <1>2. execution'[e] = x
    BY <1>1
  <1>3. ExecutionOK(e)'
    BY <1>1, <1>2 DEF ExecutionOK, ClaimedState, Claimed
  <1> QED
    BY <1>3, LocalStep

LEMMA NotStartedInv ==
  ASSUME EffectInv, NEW e \in Execution, NotStarted(e)
  PROVE  EffectInv'
  <1>1. execution \in [Execution -> Locals] /\ ExecutionOK(e)
    BY Types DEF EffectInv
  <1>2. PICK answer \in {"retry", "error"} :
          execution' = [execution EXCEPT ![e] = [@ EXCEPT !.at = "answered", !.answer = answer]]
    BY <1>1 DEF NotStarted, Respond, Locals
  <1> DEFINE x == [execution[e] EXCEPT !.at = "answered", !.answer = answer]
  <1>3. /\ x \in Locals /\ x.op = execution[e].op /\ x.claim = execution[e].claim
        /\ x.next \in {"pending", "failed"} /\ x.at = "answered" /\ x.answer = answer
    BY <1>1 DEF Locals, Answer, ExecutionOK
  <1>4. execution' = [execution EXCEPT ![e] = x]
    BY <1>2
  <1> HIDE DEF x
  <1> QED
    BY <1>3, <1>4, MoveInv DEF NotStarted

LEMMA DiesInv ==
  ASSUME EffectInv, NEW e \in Execution, Dies(e)
  PROVE  EffectInv'
  <1> DEFINE x == [execution[e] EXCEPT !.at = "died"]
  <1>1. execution \in [Execution -> Locals] /\ ExecutionOK(e)
    BY Types DEF EffectInv
  <1>2. /\ x \in Locals /\ x.op = execution[e].op /\ x.claim = execution[e].claim
        /\ x.next \in {"pending", "failed"} /\ x.at = "died" /\ x.answer = "none"
    BY <1>1 DEF Dies, Locals, ExecutionOK, Claimed
  <1>3. execution' = [execution EXCEPT ![e] = x]
    BY <1>1 DEF Dies, Goto
  <1> HIDE DEF x
  <1> QED
    BY <1>2, <1>3, MoveInv DEF Dies

\* TakeAnswer and Ambiguous: on to a sleep, or to a write the answer justifies.
LEMMA AnswerTakenInv ==
  ASSUME EffectInv, NEW e \in Execution, TakeAnswer(e) \/ Ambiguous(e)
  PROVE  EffectInv'
  <1>1. /\ execution \in [Execution -> Locals] /\ ExecutionOK(e) /\ sends[e] \in 0..MaxAttempts
        /\ execution[e].at = "sending" /\ execution[e].answer = "none"
        /\ UNCHANGED <<operations, call, reconciler, sends, effects>>
    BY Types DEF EffectInv, TakeAnswer, Ambiguous, At, ExecutionOK
  <1>2. CASE Goto(e, "sleeping") /\ call[e] = "refused" /\ sends[e] < MaxAttempts
    <2> DEFINE x == [execution[e] EXCEPT !.at = "sleeping"]
    <2>1. /\ x \in Locals /\ x.op = execution[e].op /\ x.claim = execution[e].claim
          /\ x.next \in {"pending", "failed"} /\ x.at = "sleeping" /\ x.answer = "none"
      BY <1>1 DEF Locals, ExecutionOK, Claimed
    <2>2. execution' = [execution EXCEPT ![e] = x]
      BY <1>1, <1>2 DEF Goto
    <2> HIDE DEF x
    <2> QED
      BY <1>1, <1>2, <2>1, <2>2, MoveInv DEF Claimed
  <1>3. ASSUME NEW next \in {"pending", "failed"}, Save(e, next),
               next = "failed" => call[e] = "rejected"
        PROVE  EffectInv'
    <2> DEFINE x == [execution[e] EXCEPT !.at = "saving", !.next = next]
    <2>1. /\ x \in Locals /\ x.op = execution[e].op /\ x.claim = execution[e].claim
          /\ x.next = next /\ x.at = "saving" /\ x.answer = "none"
      BY <1>1 DEF Locals, Claimed, State, Terminal
    <2>2. execution' = [execution EXCEPT ![e] = x]
      BY <1>1, <1>3 DEF Save
    <2> HIDE DEF x
    <2> QED
      BY <1>1, <1>3, <2>1, <2>2, MoveInv DEF Claimed
  <1> QED
    BY <1>2, <1>3 DEF TakeAnswer, Ambiguous

LEMMA SendInv ==
  ASSUME EffectInv, NEW e \in Execution, Send(e)
  PROVE  EffectInv'
  <1>1. /\ execution \in [Execution -> Locals] /\ call \in Calls
        /\ sends \in [Execution -> 0..MaxAttempts] /\ effects \in [Operation -> Nat]
        /\ ExecutionOK(e)
    BY Types DEF EffectInv
  <1>2. /\ call' = [call EXCEPT ![e] = "flying"] /\ sends' = [sends EXCEPT ![e] = sends[e] + 1]
        /\ call[e] = "none" /\ sends[e] < MaxAttempts
        /\ UNCHANGED <<operations, execution, reconciler, effects>>
    BY <1>1 DEF Send, At, ExecutionOK
  <1>3. call' \in Calls /\ sends' \in [Execution -> 0..MaxAttempts]
    BY <1>1, <1>2, ProviderAssumption DEF Calls
  <1>4. AnswersSame
    BY <1>1, <1>2 DEF AnswersSame, Answers, Calls
  <1>5. RowsOK /\ AnswersStay
    BY <1>2, <1>4, QuietRows
  <1>6. ExecutionOK(e)'
    BY <1>1, <1>2 DEF Send, At, ExecutionOK, ClaimedState, Claimed, Calls
  <1>7. execution' = [execution EXCEPT ![e] = execution[e]]
    BY <1>1, <1>2
  <1> QED
    BY <1>1, <1>2, <1>3, <1>5, <1>6, <1>7, OneExecution DEF Calls

LEMMA ProviderActsInv ==
  ASSUME EffectInv, NEW e \in Execution, ProviderActs(e)
  PROVE  EffectInv'
  <1>0. PICK o \in Operation : o = execution[e].op /\ execution[e].claim = 2
    BY DEF EffectInv, ProviderActs, ExecutionOK
  <1>1. /\ execution \in [Execution -> Locals] /\ call \in Calls /\ operations \in Rows
        /\ sends \in [Execution -> 0..MaxAttempts] /\ effects \in [Operation -> Nat]
        /\ ExecutionOK(e) /\ execution[e].claim = 2 /\ execution[e].op = o
        /\ call[e] = "flying" /\ UNCHANGED <<operations, execution, reconciler, sends>>
    BY <1>0, Types DEF EffectInv, ProviderActs
  <1>2. PICK answer \in {"accepted", "rejected", "refused"} :
          /\ call' = [call EXCEPT ![e] = answer]
          /\ answer = "accepted" => effects' = [effects EXCEPT ![o] = effects[o] + 1]
          /\ answer # "accepted" => effects' = effects
    BY <1>0 DEF ProviderActs
  \* Nobody else has an answer for o, so there was no effect yet.
  <1>3. \A f \in Execution : execution[f].op = o /\ call[f] # "none" => f = e
    BY <1>1 DEF EffectInv, OneClaim, ExecutionOK
  <1>4. ~Answers(o, "accepted") /\ ~Answers(o, "rejected") /\ effects[o] = 0
    <2>1. ~Answers(o, "accepted") /\ ~Answers(o, "rejected")
      BY <1>1, <1>3 DEF Answers
    <2>2. RowOK(o)
      BY <1>1 DEF EffectInv
    <2> QED
      BY <2>1, <2>2 DEF RowOK
  <1>5. /\ Answers(o, "accepted")' <=> answer = "accepted"
        /\ Answers(o, "rejected")' <=> answer = "rejected"
        /\ \A q : q # o => /\ Answers(q, "accepted")' <=> Answers(q, "accepted")
                           /\ Answers(q, "rejected")' <=> Answers(q, "rejected")
    BY <1>1, <1>2, <1>3 DEF Answers, Calls
  <1>6. AnswersStay
    BY <1>4, <1>5 DEF AnswersStay
  <1>7. RowOK(o)'
    <2>1. RowOK(o)
      BY <1>1 DEF EffectInv
    <2>2. (answer = "accepted" => effects'[o] = 1) /\ (answer # "accepted" => effects'[o] = 0)
      BY <1>1, <1>2, <1>4
    <2> QED
      BY <1>1, <1>4, <1>5, <2>1, <2>2 DEF RowOK
  <1>8. ASSUME NEW q \in Operation, q # o PROVE RowOK(q)'
    <2>1. RowOK(q)
      BY DEF EffectInv
    <2>2. effects'[q] = effects[q]
      BY <1>1, <1>2, <1>8
    <2> QED
      BY <1>1, <1>5, <1>8, <2>1, <2>2 DEF RowOK
  <1>9. RowsOK
    BY <1>1, <1>7, <1>8 DEF RowsOK, ClaimedState
  <1>10. ExecutionOK(e)'
    BY <1>1, <1>2 DEF ExecutionOK, ClaimedState, Calls
  <1>11. /\ call' \in Calls /\ effects' \in [Operation -> Nat]
         /\ execution' = [execution EXCEPT ![e] = execution[e]]
         /\ \A f \in Execution \ {e} : call'[f] = call[f]
    BY <1>1, <1>2 DEF Calls
  <1> QED
    BY <1>1, <1>6, <1>9, <1>10, <1>11, OneExecution

LEMMA SleepInv ==
  ASSUME EffectInv, NEW e \in Execution, Sleep(e)
  PROVE  EffectInv'
  <1>1. /\ execution \in [Execution -> Locals] /\ call \in Calls
        /\ sends \in [Execution -> 0..MaxAttempts] /\ effects \in [Operation -> Nat]
        /\ ExecutionOK(e) /\ execution[e].at = "sleeping" /\ execution[e].answer = "none"
        /\ call[e] = "refused" /\ sends[e] < MaxAttempts
        /\ UNCHANGED <<operations, reconciler, sends, effects>>
    BY Types DEF EffectInv, Sleep, At, ExecutionOK
  <1>2. CASE Save(e, "pending") /\ UNCHANGED call
    <2> DEFINE x == [execution[e] EXCEPT !.at = "saving", !.next = "pending"]
    <2>1. /\ x \in Locals /\ x.op = execution[e].op /\ x.claim = execution[e].claim
          /\ x.next = "pending" /\ x.at = "saving" /\ x.answer = "none"
      BY <1>1 DEF Locals, Claimed, State
    <2>2. execution' = [execution EXCEPT ![e] = x]
      BY <1>1, <1>2 DEF Save
    <2> HIDE DEF x
    <2> QED
      BY <1>1, <1>2, <2>1, <2>2, MoveInv DEF Claimed
  <1>3. CASE Goto(e, "sending") /\ call' = [call EXCEPT ![e] = "none"]
    <2> DEFINE x == [execution[e] EXCEPT !.at = "sending"]
    <2>1. /\ x \in Locals /\ x.op = execution[e].op /\ x.claim = execution[e].claim
          /\ x.next = execution[e].next /\ x.at = "sending" /\ x.answer = "none"
      BY <1>1 DEF Locals, Claimed
    <2>2. execution' = [execution EXCEPT ![e] = x] /\ execution'[e] = x
      BY <1>1, <1>3 DEF Goto
    <2> HIDE DEF x
    <2>3. AnswersSame
      BY <1>1, <1>3, <2>1, <2>2 DEF AnswersSame, Answers, Calls
    <2>4. RowsOK /\ AnswersStay
      BY <1>1, <2>3, QuietRows
    <2>5. call' \in Calls /\ call'[e] = "none" /\ \A f \in Execution \ {e} : call'[f] = call[f]
      BY <1>1, <1>3 DEF Calls
    <2>6. ExecutionOK(e)'
      BY <1>1, <2>1, <2>2, <2>5 DEF ExecutionOK, ClaimedState, Claimed
    <2> QED
      BY <1>1, <2>1, <2>2, <2>4, <2>5, <2>6, OneExecution
  <1> QED
    BY <1>2, <1>3 DEF Sleep

\* A write, or none: the rows are fine either way.
LEMMA ThrowsRows ==
  ASSUME EffectInv, NEW o \in Operation, NEW version \in Nat, NEW next \in State,
         Throws(o, version, next), effects' = effects, AnswersSame,
         Applicable(o, version, next) /\ next = "pending" => version \in {1, 2},
         next = "confirmed" => Answers(o, "accepted"),
         next = "failed" => Answers(o, "rejected")
  PROVE  RowsOK /\ AnswersStay
  <1>1. AnswersStay
    BY DEF AnswersStay, AnswersSame
  <1>2. CASE UNCHANGED operations
    BY <1>2, QuietRows
  <1>3. CASE Applicable(o, version, next) /\ Write(o, next)
    BY <1>1, <1>3, WriteInv DEF RowsOK, Rows
  <1> QED
    BY <1>2, <1>3 DEF Throws

\* The last step of an execution: its answer, with whatever it wrote.
LEMMA RespondInv ==
  ASSUME EffectInv, NEW e \in Execution, NEW answer \in Answer \ {"none"},
         Respond(e, answer), UNCHANGED <<call, reconciler, sends, effects>>, RowsOK, AnswersStay,
         answer \in {"skip", "pending", "failed"} =>
           /\ execution[e].op \in Operation
           /\ operations'[execution[e].op].state \notin {"absent", "planned"},
         answer = "failed" => call[e] = "rejected" /\ operations'[execution[e].op].state = "failed"
  PROVE  EffectInv'
  <1> DEFINE x == [execution[e] EXCEPT !.at = "answered", !.answer = answer]
  <1>1. /\ execution \in [Execution -> Locals] /\ call \in Calls
        /\ sends \in [Execution -> 0..MaxAttempts] /\ effects \in [Operation -> Nat]
        /\ ExecutionOK(e)
    BY Types DEF EffectInv
  <1>2. execution' = [execution EXCEPT ![e] = x] /\ execution'[e] = x
    BY <1>1 DEF Respond
  <1>3. /\ x \in Locals /\ x.op = execution[e].op /\ x.claim = execution[e].claim
        /\ x.next = execution[e].next /\ x.at = "answered" /\ x.answer = answer
    BY <1>1 DEF Locals
  <1> HIDE DEF x
  <1>4. ExecutionOK(e)'
    BY <1>1, <1>2, <1>3 DEF ExecutionOK, ClaimedState, RowsOK, Claimed
  <1> QED
    BY <1>1, <1>2, <1>3, <1>4, OneExecution

LEMMA RespondSame ==
  ASSUME EffectInv, NEW e \in Execution, NEW answer, Respond(e, answer), call' = call
  PROVE  AnswersSame
  <1>1. execution \in [Execution -> Locals]
    BY Types DEF EffectInv
  <1>2. \A f \in Execution : execution'[f].op = execution[f].op
    BY <1>1 DEF Respond, Locals
  <1> QED
    BY <1>2 DEF AnswersSame, Answers

LEMMA MarkPendingInv ==
  ASSUME EffectInv, NEW e \in Execution, MarkPending(e)
  PROVE  EffectInv'
  <1>0. PICK o \in Operation : o = execution[e].op
    BY DEF EffectInv, ExecutionOK, MarkPending, At
  <1>1. /\ execution \in [Execution -> Locals] /\ call \in Calls /\ operations \in Rows
        /\ sends \in [Execution -> 0..MaxAttempts] /\ effects \in [Operation -> Nat]
        /\ ExecutionOK(e) /\ RowOK(o)
        /\ execution[e].at = "marking" /\ execution[e].answer = "none" /\ execution[e].claim = 0
        /\ call[e] = "none" /\ ~(sends[e] > 0)
        /\ UNCHANGED <<call, reconciler, sends, effects>>
    BY Types DEF EffectInv, MarkPending, At, ExecutionOK
  <1>2. CASE Respond(e, "skip") /\ operations[o].state # "planned" /\ UNCHANGED operations
    <2>1. AnswersSame
      BY <1>1, <1>2, RespondSame
    <2>2. RowsOK /\ AnswersStay
      BY <1>1, <1>2, <2>1, QuietRows
    <2>3. operations[o].state # "absent"
      BY <1>0, <1>1 DEF ExecutionOK
    <2> QED
      BY <1>0, <1>1, <1>2, <2>2, <2>3, RespondInv DEF Answer
  <1>3. CASE Respond(e, "retry") /\ UNCHANGED operations
    <2>1. AnswersSame
      BY <1>1, <1>3, RespondSame
    <2>2. RowsOK /\ AnswersStay
      BY <1>1, <1>3, <2>1, QuietRows
    <2> QED
      BY <1>1, <1>3, <2>2, RespondInv DEF Answer
  <1>4. CASE /\ operations[o].state = "planned" /\ Applicable(o, execution[e].version, "pending")
             /\ Write(o, "pending")
             /\ execution' = [execution EXCEPT ![e].at = "sending", ![e].claim = operations[o].version + 1]
    <2> DEFINE x == [execution[e] EXCEPT !.at = "sending", !.claim = 2]
    <2>1. operations[o].version = 1 /\ execution[e].version = 1
      BY <1>1, <1>4 DEF RowOK, Applicable
    <2>2. execution' = [execution EXCEPT ![e] = x] /\ execution'[e] = x
      <3> HIDE DEF x
      <3>1. execution[e] \in Locals
        BY <1>1
      <3>2. x = [[execution[e] EXCEPT !.at = "sending"] EXCEPT !.claim = operations[o].version + 1]
        BY <2>1, <3>1 DEF Locals, x
      <3> QED
        BY <1>1, <1>4, <3>2
    <2>3. /\ x \in Locals /\ x.op = o /\ x.op = execution[e].op /\ x.claim = 2
          /\ x.next = execution[e].next /\ x.at = "sending" /\ x.answer = "none"
      BY <1>0, <1>1 DEF Locals, Claimed
    <2> HIDE DEF x
    <2>4. AnswersSame
      BY <1>1, <2>2, <2>3 DEF AnswersSame, Answers
    <2>5. RowsOK /\ AnswersStay /\ operations'[o].state = "pending"
      BY <1>1, <1>4, <2>1, <2>4, WriteInv DEF RowsOK, Rows, AnswersStay, AnswersSame, State
    <2>6. ExecutionOK(e)'
      BY <1>1, <2>2, <2>3, <2>5, ProviderAssumption DEF ExecutionOK, ClaimedState, Claimed
    <2> QED
      BY <1>1, <1>4, <2>2, <2>3, <2>5, <2>6, OneExecution
  <1> QED
    BY <1>0, <1>2, <1>3, <1>4 DEF MarkPending, OpOf

LEMMA MarkPendingThrowsInv ==
  ASSUME EffectInv, NEW e \in Execution, MarkPendingThrows(e)
  PROVE  EffectInv'
  <1>0. PICK o \in Operation : o = execution[e].op
    BY DEF EffectInv, ExecutionOK, MarkPendingThrows, At
  <1>1. /\ execution \in [Execution -> Locals] /\ RowOK(o)
        /\ Respond(e, "error") /\ UNCHANGED <<call, reconciler, sends, effects>>
    BY Types DEF EffectInv, MarkPendingThrows
  <1>2. execution[e].version \in Nat
    BY <1>1 DEF Locals
  <1>3. AnswersSame
    BY <1>1, RespondSame
  <1>4. RowsOK /\ AnswersStay
    <2>1. CASE operations[o].state = "planned"
      <3>1. Throws(o, execution[e].version, "pending")
        BY <1>0, <2>1 DEF MarkPendingThrows, OpOf
      <3>2. Applicable(o, execution[e].version, "pending") => execution[e].version = 1
        BY <1>1, <2>1 DEF Applicable, RowOK
      <3> QED
        BY <1>1, <1>2, <1>3, <3>1, <3>2, ThrowsRows DEF State
    <2>2. CASE operations[o].state # "planned"
      BY <1>0, <1>1, <1>3, <2>2, QuietRows DEF MarkPendingThrows, OpOf
    <2> QED
      BY <2>1, <2>2
  <1> QED
    BY <1>1, <1>4, RespondInv DEF Answer

\* What saveAttempt may write, at the version of the claim.
LEMMA Saving ==
  ASSUME EffectInv, NEW e \in Execution, execution[e].at = "saving"
  PROVE  /\ execution[e].op \in Operation /\ execution[e].claim = 2
         /\ execution[e].next \in {"pending", "failed"}
         /\ ClaimedState(execution[e].op)
         /\ execution[e].next = "failed" =>
              call[e] = "rejected" /\ Answers(execution[e].op, "rejected")
  BY DEF EffectInv, ExecutionOK, Claimed, Answers

LEMMA SaveAttemptInv ==
  ASSUME EffectInv, NEW e \in Execution, SaveAttempt(e)
  PROVE  EffectInv'
  <1>0. PICK o \in Operation, next \in {"pending", "failed"} :
          /\ o = execution[e].op /\ next = execution[e].next /\ execution[e].claim = 2
          /\ ClaimedState(o)
          /\ next = "failed" => call[e] = "rejected" /\ Answers(o, "rejected")
    BY Saving DEF SaveAttempt, At
  <1>1. UNCHANGED <<call, reconciler, sends, effects>>
    BY DEF SaveAttempt
  <1>2. CASE Applicable(o, 2, next) /\ Write(o, next) /\ Respond(e, next)
    <2>1. AnswersSame
      BY <1>1, <1>2, RespondSame
    <2>2. RowsOK /\ AnswersStay /\ operations'[o].state = next
      BY <1>0, <1>1, <1>2, <2>1, WriteInv DEF RowsOK, Rows, AnswersStay, AnswersSame, State, Terminal
    <2> QED
      BY <1>0, <1>1, <1>2, <2>2, RespondInv DEF Answer
  <1>3. CASE Respond(e, "error") /\ UNCHANGED operations
    <2>1. AnswersSame
      BY <1>1, <1>3, RespondSame
    <2>2. RowsOK /\ AnswersStay
      BY <1>1, <1>3, <2>1, QuietRows
    <2> QED
      BY <1>1, <1>3, <2>2, RespondInv DEF Answer
  <1> QED
    BY <1>0, <1>2, <1>3 DEF SaveAttempt

LEMMA SaveAttemptThrowsInv ==
  ASSUME EffectInv, NEW e \in Execution, SaveAttemptThrows(e)
  PROVE  EffectInv'
  <1>0. PICK o \in Operation, next \in {"pending", "failed"} :
          /\ o = execution[e].op /\ next = execution[e].next /\ execution[e].claim = 2
          /\ next = "failed" => Answers(o, "rejected")
    BY Saving DEF SaveAttemptThrows, At
  <1>1. /\ UNCHANGED <<call, reconciler, sends, effects>> /\ Respond(e, "error")
        /\ Throws(o, 2, next)
    BY <1>0 DEF SaveAttemptThrows
  <1>2. AnswersSame
    BY <1>1, RespondSame
  <1>3. RowsOK /\ AnswersStay
    BY <1>0, <1>1, <1>2, ThrowsRows DEF State, Terminal
  <1> QED
    BY <1>1, <1>3, RespondInv DEF Answer

Brings == [at : {"called", "reading", "writing", "answered"},
           op : Operation \union {NoOperation}, version : Nat, evidence : State]

\* A step of which no execution takes notice.
LEMMA BesideExecutions ==
  ASSUME EffectInv, UNCHANGED <<execution, call, sends, effects>>, RowsOK,
         reconciler' \in [Reconciler -> Brings], \A p \in Reconciler : ReconcilerOK(p)'
  PROVE  EffectInv'
  <1>1. TypeOK'
    BY Types DEF EffectInv, TypeOK, Rows, RowsOK, Brings
  <1>2. OneClaim'
    BY DEF EffectInv, OneClaim
  <1>3. ASSUME NEW e \in Execution PROVE ExecutionOK(e)'
    <2>1. ExecutionOK(e) /\ execution'[e] = execution[e] /\ call'[e] = call[e] /\ sends'[e] = sends[e]
      BY DEF EffectInv
    <2> QED
      BY <2>1 DEF ExecutionOK, ClaimedState, RowsOK
  <1>4. OpenHasRoom'
    <2> SUFFICES ASSUME NEW o \in Operation, operations'[o].state \notin Terminal
                 PROVE  operations'[o].attempts + 1 <= EvidenceLimit
      BY DEF OpenHasRoom
    <2>1. /\ RowOK(o)'
          /\ operations'[o] \in [state : State, version : Nat, attempts : 0..EvidenceLimit]
      BY DEF RowsOK, Rows
    <2>2. operations'[o].attempts \in {0, 1, 2}
      BY <2>1 DEF RowOK, State
    <2> QED
      BY <2>2, ProviderAssumption
  <1> QED
    BY <1>1, <1>2, <1>3, <1>4 DEF EffectInv, RowsOK

LEMMA SameAnswers ==
  ASSUME UNCHANGED <<execution, call>>
  PROVE  AnswersSame
  BY DEF AnswersSame, Answers

LEMMA CreateOperationInv ==
  ASSUME EffectInv, NEW o \in Operation, CreateOperation(o)
  PROVE  EffectInv'
  <1> DEFINE row == [operations[o] EXCEPT !.state = "planned", !.version = 1]
  <1>1. /\ operations \in Rows /\ reconciler \in [Reconciler -> Brings]
        /\ operations' = [operations EXCEPT ![o] = row] /\ operations[o].state = "absent"
        /\ UNCHANGED <<execution, call, reconciler, sends, effects>> /\ RowOK(o)
    BY Types DEF EffectInv, CreateOperation, Brings, Rows
  <1>2. /\ row \in [state : State, version : Nat, attempts : 0..EvidenceLimit]
        /\ row.state = "planned" /\ row.version = 1 /\ row.attempts = 0
    BY <1>1 DEF Rows, State, RowOK
  <1> HIDE DEF row
  <1>3. AnswersSame
    BY <1>1, SameAnswers
  <1>4. RowOK(o)'
    BY <1>1, <1>2, <1>3 DEF RowOK, AnswersSame, Rows
  <1>5. ASSUME NEW q \in Operation, q # o PROVE RowOK(q)'
    <2>1. RowOK(q) /\ operations'[q] = operations[q]
      BY <1>1, <1>5 DEF EffectInv
    <2> QED
      BY <1>1, <1>3, <2>1 DEF RowOK, AnswersSame
  <1>6. RowsOK
    BY <1>1, <1>2, <1>4, <1>5 DEF RowsOK, Rows, ClaimedState
  <1>7. \A p \in Reconciler : ReconcilerOK(p)'
    BY <1>1, <1>3 DEF EffectInv, ReconcilerOK, AnswersSame
  <1> QED
    BY <1>1, <1>6, <1>7, BesideExecutions

\* One reconciler moves on, with what it brought, and may have written it.
LEMMA OneReconciler ==
  ASSUME EffectInv, NEW p \in Reconciler, NEW x \in Brings,
         reconciler' = [reconciler EXCEPT ![p] = x],
         UNCHANGED <<execution, call, sends, effects>>, RowsOK,
         ReconcilerOK(p)'
  PROVE  EffectInv'
  <1>1. reconciler \in [Reconciler -> Brings]
    BY Types DEF EffectInv, Brings
  <1>2. AnswersSame
    BY SameAnswers
  <1>3. ASSUME NEW q \in Reconciler, q # p PROVE ReconcilerOK(q)'
    <2>1. ReconcilerOK(q) /\ reconciler'[q] = reconciler[q]
      BY <1>1, <1>3 DEF EffectInv
    <2> QED
      BY <1>2, <2>1 DEF ReconcilerOK, AnswersSame
  <1>4. reconciler' \in [Reconciler -> Brings]
    BY <1>1
  <1> QED
    BY <1>3, <1>4, BesideExecutions

LEMMA BeginReconciliationInv ==
  ASSUME EffectInv, NEW p \in Reconciler, NEW o \in Operation, BeginReconciliation(p, o)
  PROVE  EffectInv'
  <1>1. PICK version \in 1..operations[o].version, evidence \in Evidence(o) :
          reconciler' = [reconciler EXCEPT ![p] =
            [at |-> "reading", op |-> o, version |-> version, evidence |-> evidence]]
    BY DEF BeginReconciliation
  <1> DEFINE x == [at |-> "reading", op |-> o, version |-> version, evidence |-> evidence]
  <1>2. operations[o].version \in Nat /\ reconciler \in [Reconciler -> Brings]
    BY Types DEF EffectInv, Rows, Brings
  <1>3. /\ evidence \in Terminal
        /\ evidence = "confirmed" => Answers(o, "accepted")
        /\ evidence = "failed" => Answers(o, "rejected")
    BY DEF Evidence, Answers, Terminal
  <1>4. x \in Brings /\ x.at = "reading" /\ x.op = o /\ x.evidence = evidence
    BY <1>2, <1>3 DEF Brings, State
  <1> HIDE DEF x
  <1>5. UNCHANGED <<operations, execution, call, sends, effects>> /\ reconciler'[p] = x
    BY <1>1, <1>2 DEF BeginReconciliation, x
  <1>6. AnswersSame
    BY <1>5, SameAnswers
  <1>7. RowsOK
    BY <1>5, <1>6, QuietRows
  <1>8. ReconcilerOK(p)'
    BY <1>3, <1>4, <1>5, <1>6 DEF ReconcilerOK, AnswersSame
  <1>9. reconciler' = [reconciler EXCEPT ![p] = x]
    BY <1>1 DEF x
  <1> QED
    BY <1>4, <1>5, <1>7, <1>8, <1>9, OneReconciler

\* The two later steps of a reconciler.
LEMMA ReconcilerMoves ==
  ASSUME EffectInv, NEW p \in Reconciler, NEW at \in {"writing", "answered"},
         reconciler[p].at # "called", reconciler' = [reconciler EXCEPT ![p].at = at],
         UNCHANGED <<execution, call, sends, effects>>, RowsOK
  PROVE  EffectInv'
  <1> DEFINE x == [reconciler[p] EXCEPT !.at = at]
  <1>1. reconciler \in [Reconciler -> Brings] /\ ReconcilerOK(p)
    BY Types DEF EffectInv, Brings
  <1>2. x \in Brings /\ x.op = reconciler[p].op /\ x.evidence = reconciler[p].evidence
        /\ x.at = at
    BY <1>1 DEF Brings
  <1>3. reconciler' = [reconciler EXCEPT ![p] = x] /\ reconciler'[p] = x
    BY <1>1
  <1> HIDE DEF x
  <1>4. AnswersSame
    BY SameAnswers
  <1>5. ReconcilerOK(p)'
    BY <1>1, <1>2, <1>3, <1>4 DEF ReconcilerOK, AnswersSame
  <1> QED
    BY <1>2, <1>3, <1>5, OneReconciler

\* What a reconciler may write.
LEMMA Reconciling ==
  ASSUME EffectInv, NEW p \in Reconciler, reconciler[p].at # "called"
  PROVE  /\ reconciler[p].op \in Operation /\ reconciler[p].version \in Nat
         /\ reconciler[p].evidence \in Terminal
         /\ reconciler[p].evidence = "confirmed" => Answers(reconciler[p].op, "accepted")
         /\ reconciler[p].evidence = "failed" => Answers(reconciler[p].op, "rejected")
  <1>1. reconciler[p] \in Brings /\ ReconcilerOK(p)
    BY Types DEF EffectInv, Brings
  <1> QED
    BY <1>1 DEF Brings, ReconcilerOK

LEMMA ReconcilerInv ==
  ASSUME EffectInv, NEW p \in Reconciler, ReconcilerStep(p)
  PROVE  EffectInv'
  <1>1. CASE \E o \in Operation : BeginReconciliation(p, o)
    BY <1>1, BeginReconciliationInv
  <1>2. CASE ReadForReconciliation(p)
    <2>1. UNCHANGED <<operations, execution, call, sends, effects>>
      BY <1>2 DEF ReadForReconciliation
    <2>2. RowsOK
      BY <2>1, SameAnswers, QuietRows
    <2>3. PICK at \in {"writing", "answered"} : reconciler' = [reconciler EXCEPT ![p].at = at]
      BY <1>2 DEF ReadForReconciliation
    <2> QED
      BY <1>2, <2>1, <2>2, <2>3, ReconcilerMoves DEF ReadForReconciliation
  <1>3. CASE Reconcile(p)
    <2>1. UNCHANGED <<execution, call, sends, effects>> /\ reconciler[p].at # "called"
          /\ Throws(reconciler[p].op, reconciler[p].version, reconciler[p].evidence)
          /\ reconciler' = [reconciler EXCEPT ![p].at = "answered"]
      BY <1>3 DEF Reconcile
    <2>2. RowsOK
      BY <2>1, Reconciling, SameAnswers, ThrowsRows DEF State, Terminal
    <2> QED
      BY <2>1, <2>2, ReconcilerMoves
  <1> QED
    BY <1>1, <1>2, <1>3 DEF ReconcilerStep

LEMMA StepInv == EffectInv /\ [Next]_vars => EffectInv'
  <1> SUFFICES ASSUME EffectInv, [Next]_vars PROVE EffectInv'
    OBVIOUS
  <1>1. CASE UNCHANGED vars
    BY <1>1 DEF vars, EffectInv, TypeOK, OneClaim, ExecutionOK, ClaimedState, RowOK, Answers,
                OpenHasRoom, ReconcilerOK
  <1>2. CASE \E o \in Operation : CreateOperation(o)
    BY <1>2, CreateOperationInv
  <1>3. ASSUME NEW e \in Execution, ExecutionStep(e) PROVE EffectInv'
    BY <1>3, NotStartedInv, MarkPendingInv, MarkPendingThrowsInv, ReadCanonicalInv, SendInv,
       AnswerTakenInv, SleepInv, SaveAttemptInv, SaveAttemptThrowsInv, DiesInv DEF ExecutionStep
  <1>4. ASSUME NEW e \in Execution, ProviderActs(e) PROVE EffectInv'
    BY <1>4, ProviderActsInv
  <1>5. ASSUME NEW p \in Reconciler, ReconcilerStep(p) PROVE EffectInv'
    BY <1>5, ReconcilerInv
  <1> QED
    BY <1>1, <1>2, <1>3, <1>4, <1>5 DEF Next

\* Executions, late provider answers, reconcilers and rows stay consistent,
\* however their steps interleave.
THEOREM EffectInvariant == Spec => []EffectInv
  <1>1. Init => EffectInv
    BY InitInv
  <1>2. EffectInv /\ [Next]_vars => EffectInv'
    BY StepInv
  <1> QED
    BY <1>1, <1>2, PTL DEF Spec

\* At most one execution ever calls the provider for an operation.
THEOREM SenderIsUnique == Spec => []OneSender
  <1>1. EffectInv => OneSender
    BY DEF EffectInv, OneClaim, ExecutionOK, OneSender
  <1> QED
    BY <1>1, EffectInvariant, PTL

\* What an execution tells its caller is what the canonical row says.
THEOREM AnswersAreTrue == Spec => []AnswersAreCanonical
  <1>1. EffectInv => AnswersAreCanonical
    BY DEF EffectInv, ExecutionOK, ClaimedState, AnswersAreCanonical, OpOf
  <1> QED
    BY <1>1, EffectInvariant, PTL

-----------------------------------------------------------------------------
\* The refinement of EffectContract: every step is one of the contract's, or
\* none.

StateOf == [o \in Operation |-> operations[o].state]

LEMMA RefusedHasNoEffect ==
  ASSUME EffectInv, NEW o \in Operation, Answers(o, "rejected")
  PROVE  effects[o] = 0
  <1>1. ~Answers(o, "accepted")
    BY DEF EffectInv, OneClaim, ExecutionOK, Answers
  <1> QED
    BY <1>1 DEF EffectInv, RowOK

LEMMA WriteIsContractStep ==
  ASSUME EffectInv, NEW o \in Operation, NEW version, NEW next \in {"pending"} \union Terminal,
         Applicable(o, version, next), Write(o, next), effects' = effects,
         next = "confirmed" => Answers(o, "accepted"),
         next = "failed" => Answers(o, "rejected")
  PROVE  [Contract!Next]_(Contract!contractVars)
  <1>1. /\ operations \in Rows /\ RowOK(o)
        /\ next \in Successors(operations[o].state)
    BY Types DEF EffectInv, Applicable
  <1>2. StateOf' = [StateOf EXCEPT ![o] = next] /\ StateOf[o] = operations[o].state
    BY <1>1 DEF Write, StateOf, Rows
  <1>3. CASE next = operations[o].state
    <2>1. StateOf' = StateOf
      BY <1>2, <1>3 DEF StateOf
    <2> QED
      BY <2>1 DEF Contract!contractVars, StateOf
  <1>4. CASE operations[o].state = "planned" /\ next = "pending"
    <2>1. Contract!Claim(o)
      BY <1>2, <1>4 DEF Contract!Claim, StateOf
    <2> QED
      BY <2>1 DEF Contract!Next
  <1>5. CASE operations[o].state \in {"planned", "pending"} /\ next \in Terminal
    <2>1. next = "confirmed" => operations[o].state = "pending" /\ effects[o] = 1
      BY <1>1, <1>5 DEF Successors, RowOK
    <2>2. next = "failed" => effects[o] = 0
      BY RefusedHasNoEffect
    <2>3. Contract!Close(o, next)
      BY <1>2, <1>5, <2>1, <2>2 DEF Contract!Close, StateOf
    <2> QED
      BY <1>5, <2>3 DEF Contract!Next, Terminal
  <1> QED
    BY <1>1, <1>3, <1>4, <1>5 DEF Successors, Rows, State, Terminal

LEMMA ThrowsIsContractStep ==
  ASSUME EffectInv, NEW o \in Operation, NEW version, NEW next \in {"pending"} \union Terminal,
         Throws(o, version, next), effects' = effects,
         next = "confirmed" => Answers(o, "accepted"),
         next = "failed" => Answers(o, "rejected")
  PROVE  [Contract!Next]_(Contract!contractVars)
  <1>1. CASE UNCHANGED operations
    BY <1>1 DEF Contract!contractVars
  <1> QED
    BY <1>1, WriteIsContractStep DEF Throws

LEMMA EffectIsContractStep ==
  ASSUME EffectInv, NEW e \in Execution, ProviderActs(e)
  PROVE  [Contract!Next]_(Contract!contractVars)
  <1>1. CASE UNCHANGED <<operations, effects>>
    BY <1>1 DEF Contract!contractVars
  <1>2. CASE ~UNCHANGED <<operations, effects>>
    <2> DEFINE o == execution[e].op
    <2>1. /\ o \in Operation /\ ClaimedState(o) /\ execution[e].claim = 2
          /\ call[e] = "flying" /\ operations' = operations
          /\ effects' = [effects EXCEPT ![o] = effects[o] + 1]
          /\ RowOK(o) /\ operations \in Rows /\ effects \in [Operation -> Nat]
      BY <1>2, Types DEF EffectInv, ProviderActs, ExecutionOK
    <2>2. ~Answers(o, "accepted") /\ ~Answers(o, "rejected")
      BY <2>1 DEF EffectInv, OneClaim, ExecutionOK, Answers
    <2>3. effects[o] = 0 /\ operations[o].state \in {"pending", "manual_review"}
      BY <2>1, <2>2 DEF RowOK, ClaimedState, Rows, State, Terminal
    <2>4. StateOf' = StateOf /\ StateOf[o] = operations[o].state
      BY <2>1 DEF StateOf
    <2> HIDE DEF o
    <2>5. Contract!TakeEffect(o)
      BY <2>1, <2>3, <2>4 DEF Contract!TakeEffect, StateOf
    <2> QED
      BY <2>1, <2>5 DEF Contract!Next
  <1> QED
    BY <1>1, <1>2

LEMMA ExecutionIsContractStep ==
  ASSUME EffectInv, NEW e \in Execution, ExecutionStep(e)
  PROVE  [Contract!Next]_(Contract!contractVars)
  <1>1. CASE UNCHANGED <<operations, effects>>
    BY <1>1 DEF Contract!contractVars
  <1>2. CASE MarkPending(e) /\ ~UNCHANGED operations
    <2>1. execution[e].op \in Operation
      BY <1>2 DEF EffectInv, ExecutionOK, MarkPending, At
    <2> QED
      BY <1>2, <2>1, WriteIsContractStep DEF MarkPending
  <1>3. CASE MarkPendingThrows(e) /\ ~UNCHANGED operations
    <2>1. execution[e].op \in Operation
      BY <1>3 DEF EffectInv, ExecutionOK, MarkPendingThrows, At
    <2> QED
      BY <1>3, <2>1, ThrowsIsContractStep DEF MarkPendingThrows
  <1>4. CASE SaveAttempt(e) /\ ~UNCHANGED operations
    BY <1>4, Saving, WriteIsContractStep DEF SaveAttempt, At, Terminal
  <1>5. CASE SaveAttemptThrows(e)
    BY <1>5, Saving, ThrowsIsContractStep DEF SaveAttemptThrows, At, Terminal
  <1> QED
    BY <1>1, <1>2, <1>3, <1>4, <1>5
    DEF ExecutionStep, NotStarted, ReadCanonical, MarkPending, MarkPendingThrows, Send, TakeAnswer,
        Ambiguous, Sleep, SaveAttempt, Dies

LEMMA ContractStep == EffectInv /\ [Next]_vars => [Contract!Next]_(Contract!contractVars)
  <1> SUFFICES ASSUME EffectInv, [Next]_vars PROVE [Contract!Next]_(Contract!contractVars)
    OBVIOUS
  <1>1. CASE UNCHANGED vars
    BY <1>1 DEF vars, Contract!contractVars
  <1>2. ASSUME NEW o \in Operation, CreateOperation(o)
        PROVE  [Contract!Next]_(Contract!contractVars)
    <2>1. StateOf' = [StateOf EXCEPT ![o] = "planned"] /\ StateOf[o] = "absent"
      BY <1>2, Types DEF EffectInv, CreateOperation, StateOf, Rows
    <2>2. Contract!Plan(o)
      BY <1>2, <2>1 DEF Contract!Plan, CreateOperation, StateOf
    <2> QED
      BY <2>2 DEF Contract!Next
  <1>3. ASSUME NEW p \in Reconciler, ReconcilerStep(p)
        PROVE  [Contract!Next]_(Contract!contractVars)
    <2>1. CASE UNCHANGED <<operations, effects>>
      BY <2>1 DEF Contract!contractVars
    <2>2. CASE Reconcile(p)
      BY <2>2, Reconciling, ThrowsIsContractStep DEF Reconcile
    <2> QED
      BY <1>3, <2>1, <2>2 DEF ReconcilerStep, BeginReconciliation, ReadForReconciliation
  <1> QED
    BY <1>1, <1>2, <1>3, ExecutionIsContractStep, EffectIsContractStep DEF Next

LEMMA ContractInit == Init => Contract!Init
  BY DEF Init, Contract!Init

\* Executions, reconcilers and the provider together implement the contract:
\* an operation is claimed once, takes effect at most once, and is closed once
\* and as what the provider did.
THEOREM EffectsImplementContract == Spec => ImplementsContract
  <1>1. Init => Contract!Init
    BY ContractInit
  <1>2. EffectInv /\ [Next]_vars => [Contract!Next]_(Contract!contractVars)
    BY ContractStep
  <1> QED
    BY <1>1, <1>2, EffectInvariant, PTL DEF Spec, ImplementsContract, Contract!Spec

-----------------------------------------------------------------------------
\* What becomes of an operation nobody works on.

LEMMA WritesOne ==
  ASSUME EffectInv, NEW q, NEW next, Write(q, next), NEW o \in Operation,
         operations'[o] # operations[o]
  PROVE  o = q /\ operations'[o].state = next
  BY Types DEF EffectInv, Write, Rows

\* An execution takes up an operation only where it is planned.
LEMMA EntersPlanned ==
  ASSUME EffectInv, NEW e \in Execution, ExecutionStep(e), execution'[e].at \in Claimed
  PROVE  /\ execution'[e].op = execution[e].op
         /\ execution[e].at \in Claimed \/ OpOf(e).state = "planned"
  <1>1. execution \in [Execution -> Locals] /\ execution[e] \in Locals
    BY Types DEF EffectInv
  <1>2. ASSUME NEW answer, Respond(e, answer) PROVE FALSE
    BY <1>1, <1>2 DEF Respond, Locals, Claimed
  <1>3. CASE NotStarted(e) \/ MarkPendingThrows(e) \/ SaveAttempt(e) \/ SaveAttemptThrows(e)
    BY <1>2, <1>3 DEF NotStarted, MarkPendingThrows, SaveAttempt, SaveAttemptThrows
  <1>4. ASSUME NEW o \in Operation, ReadCanonical(e, o) PROVE FALSE
    BY <1>1, <1>4 DEF ReadCanonical, Locals, Claimed
  <1>5. CASE MarkPending(e)
    BY <1>1, <1>2, <1>5 DEF MarkPending, OpOf, Locals
  <1>6. CASE Dies(e)
    BY <1>1, <1>6 DEF Dies, Goto, Locals, Claimed
  <1>7. CASE Send(e)
    BY <1>7 DEF Send, At, Claimed
  <1>8. CASE TakeAnswer(e) \/ Ambiguous(e) \/ Sleep(e)
    BY <1>1, <1>8 DEF TakeAnswer, Ambiguous, Sleep, Save, Goto, At, Locals, Claimed
  <1> QED
    BY <1>3, <1>4, <1>5, <1>6, <1>7, <1>8 DEF ExecutionStep

\* An execution writes and sends for the operation it claims or has claimed.
LEMMA WritesOwn ==
  ASSUME EffectInv, NEW e \in Execution, ExecutionStep(e), NEW o \in Operation
  PROVE  /\ operations'[o] # operations[o] =>
              execution[e].op = o /\ (execution[e].at \in Claimed \/ OpOf(e).state = "planned")
         /\ \A f \in Execution : sends'[f] # sends[f] => f = e /\ execution[e].at \in Claimed
  <1>1. ASSUME operations'[o] # operations[o]
        PROVE  execution[e].op = o /\ (execution[e].at \in Claimed \/ OpOf(e).state = "planned")
    <2>1. CASE MarkPending(e) \/ MarkPendingThrows(e)
      BY <1>1, <2>1, WritesOne DEF MarkPending, MarkPendingThrows, Throws
    <2>2. CASE SaveAttempt(e) \/ SaveAttemptThrows(e)
      BY <1>1, <2>2, WritesOne DEF SaveAttempt, SaveAttemptThrows, Throws, At, Claimed
    <2> QED
      BY <1>1, <2>1, <2>2
      DEF ExecutionStep, NotStarted, ReadCanonical, Send, TakeAnswer, Ambiguous, Sleep, Dies
  <1>2. ASSUME NEW f \in Execution, sends'[f] # sends[f]
        PROVE  f = e /\ execution[e].at \in Claimed
    <2>1. Send(e)
      BY <1>2
      DEF ExecutionStep, NotStarted, ReadCanonical, MarkPending, MarkPendingThrows, TakeAnswer,
          Ambiguous, Sleep, SaveAttempt, SaveAttemptThrows, Dies
    <2>2. sends \in [Execution -> 0..MaxAttempts]
      BY Types DEF EffectInv
    <2> QED
      BY <1>2, <2>1, <2>2 DEF Send, At, Claimed
  <1> QED
    BY <1>1, <1>2

LEMMA OrphanStep ==
  ASSUME EffectInv, Next, NEW o \in Operation, Orphaned(o)
  PROVE  /\ Orphaned(o)' \/ operations'[o].state \in Terminal
         /\ \A e \in Execution : sends'[e] # sends[e] => execution[e].op # o
         /\ operations'[o] # operations[o] =>
              \E p \in Reconciler :
                /\ reconciler[p].at = "writing" /\ reconciler[p].op = o
                /\ operations'[o].state = reconciler[p].evidence
  <1>0. /\ operations[o].state = "pending"
        /\ \A e \in Execution : execution[e].op = o => execution[e].at \notin Claimed
    BY DEF Orphaned
  <1>1. ASSUME operations'[o] # operations[o]
        PROVE  \E p \in Reconciler :
                 /\ reconciler[p].at = "writing" /\ reconciler[p].op = o
                 /\ operations'[o].state = reconciler[p].evidence
    <2>1. ASSUME NEW e \in Execution, ExecutionStep(e) PROVE FALSE
      BY <1>0, <1>1, <2>1, WritesOwn DEF OpOf
    <2>2. ASSUME NEW q \in Operation, CreateOperation(q) PROVE FALSE
      <3>1. operations \in Rows
        BY Types DEF EffectInv
      <3> QED
        BY <1>0, <1>1, <2>2, <3>1 DEF CreateOperation, Rows
    <2>3. PICK p \in Reconciler : Reconcile(p)
      BY <1>1, <2>1, <2>2
      DEF Next, ProviderActs, ReconcilerStep, BeginReconciliation, ReadForReconciliation
    <2>4. Write(reconciler[p].op, reconciler[p].evidence) /\ reconciler[p].at = "writing"
      BY <1>1, <2>3 DEF Reconcile, Throws
    <2> QED
      BY <1>1, <2>4, WritesOne
  <1>2. ASSUME NEW e \in Execution, sends'[e] # sends[e] PROVE execution[e].op # o
    <2>1. PICK f \in Execution : ExecutionStep(f)
      BY <1>2
      DEF Next, CreateOperation, ProviderActs, ReconcilerStep, BeginReconciliation,
          ReadForReconciliation, Reconcile
    <2> QED
      BY <1>0, <1>2, <2>1, WritesOwn
  <1>3. ASSUME NEW e \in Execution, execution'[e].op = o, execution'[e].at \in Claimed
        PROVE  FALSE
    <2>1. execution'[e] # execution[e]
      BY <1>0, <1>3
    <2>2. PICK f \in Execution : ExecutionStep(f)
      BY <2>1
      DEF Next, CreateOperation, ProviderActs, ReconcilerStep, BeginReconciliation,
          ReadForReconciliation, Reconcile
    <2>3. \A g \in Execution : g # f => execution'[g] = execution[g]
      BY <2>2, Types
      DEF EffectInv, ExecutionStep, NotStarted, ReadCanonical, MarkPending, MarkPendingThrows,
          Send, TakeAnswer, Ambiguous, Sleep, SaveAttempt, SaveAttemptThrows, Dies, Respond,
          Goto, Save
    <2>4. f = e
      BY <2>1, <2>3
    <2> QED
      BY <1>0, <1>3, <2>2, <2>4, EntersPlanned DEF OpOf
  <1>4. CASE operations'[o] = operations[o]
    BY <1>0, <1>2, <1>3, <1>4 DEF Orphaned
  <1>5. CASE operations'[o] # operations[o]
    <2>1. \A p \in Reconciler : reconciler[p].evidence \in Terminal
      BY DEF EffectInv, ReconcilerOK
    <2> QED
      BY <1>1, <1>2, <1>5, <2>1
  <1> QED
    BY <1>4, <1>5

\* An operation whose claimant ended, died or never learnt that it had claimed
\* it is never sent for again: whatever is redelivered, it stays as it is until
\* a reconciler closes it.  So a retryable failure left pending is not retried.
THEOREM OrphansWaitForReconciliation == Spec => OrphansAreReconciled
  <1>1. EffectInv /\ [Next]_vars =>
          [\A o \in Operation : Orphaned(o) =>
             /\ Orphaned(o)' \/ operations'[o].state \in Terminal
             /\ \A e \in Execution : sends'[e] # sends[e] => execution[e].op # o
             /\ operations'[o] # operations[o] =>
                  \E p \in Reconciler :
                    /\ reconciler[p].at = "writing" /\ reconciler[p].op = o
                    /\ operations'[o].state = reconciler[p].evidence]_vars
    BY OrphanStep
  <1> QED
    BY <1>1, EffectInvariant, PTL DEF Spec, OrphansAreReconciled
=============================================================================
