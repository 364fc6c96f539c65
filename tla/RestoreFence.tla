----------------------------- MODULE RestoreFence -----------------------------
(***************************************************************************)
(* The restore fence: one row per restore epoch, kept in the table         *)
(* platform_private.restore_fences.  While a row is 'reconciling' every    *)
(* claim, heartbeat and outcome of the platform is refused; the Worker     *)
(* reads the typed snapshot and refuses on its own side as well.           *)
(***************************************************************************)
EXTENDS Integers

CONSTANT MaxEpoch        \* bound: restore epochs are 1..MaxEpoch

ASSUME MaxEpochAssumption == MaxEpoch \in Nat \ {0}

VARIABLE fences          \* fences[e]: the state of the row of epoch e

Epoch == 1..MaxEpoch
FenceState == {"absent", "reconciling", "released"}
NoEpoch == 0             \* SQL null

FenceTypeOK == fences \in [Epoch -> FenceState]
FenceInit == fences = [e \in Epoch |-> "absent"]

EpochsIn(states) == {e \in Epoch : fences[e] \in states}

\* SQL max(): null on the empty set.
LatestOf(S) == IF S = {} THEN NoEpoch ELSE CHOOSE e \in S : \A f \in S : f <= e

\* read_restore_fence(): the typed snapshot the Worker and the SQL gate share.
ReadRestoreFence ==
  LET known    == EpochsIn({"reconciling", "released"})
      released == EpochsIn({"released"})
      settled  == EpochsIn({"reconciling"}) = {}
  IN  [expected   |-> IF known = {} THEN 1 ELSE LatestOf(known),
       consumer   |-> IF known = {} THEN 1 ELSE LatestOf(released),
       integrity  |-> settled,
       reconciled |-> settled]

\* The SQL gate: external_effects_allowed().
ExternalEffectsAllowed ==
  ReadRestoreFence.integrity /\ ReadRestoreFence.reconciled

\* parseRestoreFence throws (the caller retries) on a null consumer epoch and
\* on epochs that differ.
FenceReadable(f) == f.consumer # NoEpoch /\ f.expected = f.consumer

\* evaluateRestoreFence, as canRunExternalEffect uses it.
CanRunExternalEffect(f) == FenceReadable(f) /\ f.integrity /\ f.reconciled

\* Mutant: begin_restore_fence as it was before it compared the epochs.
BeginAnyEpoch(e) ==
  /\ fences[e] = "absent"
  /\ EpochsIn({"reconciling"}) = {}
  /\ fences' = [fences EXCEPT ![e] = "reconciling"]

(***************************************************************************)
(* begin_restore_fence: replaying a known epoch changes nothing, a lower   *)
(* epoch than the latest raises, and the unique index on 'reconciling'     *)
(* rows rejects a second open fence.                                       *)
(***************************************************************************)
BeginRestoreFence(e) ==
  /\ fences[e] = "absent"
  /\ \A f \in EpochsIn({"reconciling", "released"}) : f < e
  /\ EpochsIn({"reconciling"}) = {}
  /\ fences' = [fences EXCEPT ![e] = "reconciling"]

\* complete_restore_fence: only the owner runs it, on a reconciling row.
CompleteRestoreFence(e) ==
  /\ fences[e] = "reconciling"
  /\ fences' = [fences EXCEPT ![e] = "released"]

FenceStep == \E e \in Epoch : BeginRestoreFence(e) \/ CompleteRestoreFence(e)

\* The two readings of the fence never part: parseRestoreFence, which compares
\* epochs, throws exactly while the SQL gate, which reads states, is closed.
\* So no restore slips past a Worker that looks at the epochs alone, and none
\* that is over keeps Workers out that the database would admit.
ReadersAgree == FenceReadable(ReadRestoreFence) <=> ExternalEffectsAllowed
=============================================================================
