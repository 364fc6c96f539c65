----------------------- MODULE OwnershipClaimsProofs -----------------------
(***************************************************************************)
(* Theorems about OwnershipClaims: for any number of claims, claimants and *)
(* transactions, one owner at a time, a history without gaps or overlaps,  *)
(* and control that never lapses or weakens.                               *)
(*                                                                         *)
(* The argument: a transaction that holds the live period's row finds it   *)
(* live when it commits, because only the holder ends it; one that holds   *)
(* none can insert only into a party that nobody ever owned, because the   *)
(* step that ends a period begins the next.                                *)
(***************************************************************************)
EXTENDS OwnershipClaims, TLAPS

LEMMA InitInv == Init => OwnershipInv /\ HistoryUnbroken
  <1> SUFFICES ASSUME Init PROVE OwnershipInv /\ HistoryUnbroken
    OBVIOUS
  <1>1. TypeOK
    BY OwnershipAssumption
       DEF Init, TypeOK, ClaimRow, Challenge, Closed, Period, CallRecord, Idle, Time
  <1>2. ClaimsBacked /\ SelfClaimsUnique
    BY DEF Init, ClaimsBacked, SelfClaimsUnique, Level
  <1>3. PeriodsBacked /\ HistoryUnbroken
    BY DEF Init, PeriodsBacked, HistoryUnbroken, Active
  <1>4. (\A c \in Call : CallOK(c)) /\ CallsDisjoint
    BY DEF Init, CallOK, CallsDisjoint, At, Idle
  <1> QED
    BY <1>1, <1>2, <1>3, <1>4 DEF OwnershipInv

\* The types of what a step reads.
LEMMA Types ==
  ASSUME OwnershipInv
  PROVE  /\ clock \in 0..MaxTime /\ MaxTime \in Nat
         /\ claims \in [Claim -> ClaimRow] /\ challenges \in [Claim -> [Method -> Challenge]]
         /\ periods \in [Call -> Period] /\ call \in [Call -> CallRecord]
         /\ \A k \in Claim : claims[k] \in ClaimRow /\ claims[k].since \in 0..MaxTime
         /\ \A p \in Call : periods[p] \in Period /\ periods[p].from \in Nat /\ periods[p].to \in Nat
         /\ \A c \in Call : call[c] \in CallRecord /\ call[c].now \in 0..MaxTime
  BY OwnershipAssumption DEF OwnershipInv, TypeOK, ClaimRow, Period, CallRecord, Time

\* A step of one call that writes nothing yet.
LEMMA CallMoves ==
  ASSUME OwnershipInv, NEW c \in Call, NEW row \in CallRecord,
         call' = [call EXCEPT ![c] = row],
         UNCHANGED <<clock, claims, challenges, periods>>,
         CallOK(c)',
         row.claim # Nothing => \A d \in Call : d # c => call[d].claim # row.claim,
         row.at = "decided" /\ row.seen # Nothing =>
           \A d \in Call : d # c /\ At(d, "decided") => call[d].seen # row.seen
  PROVE  OwnershipInv'
  <1>1. call' \in [Call -> CallRecord] /\ call'[c] = row
        /\ \A d \in Call : d # c => call'[d] = call[d]
    BY Types
  <1>2. TypeOK'
    BY <1>1 DEF OwnershipInv, TypeOK
  <1>3. ClaimsBacked' /\ PeriodsBacked' /\ SelfClaimsUnique'
    BY DEF OwnershipInv, ClaimsBacked, PeriodsBacked, SelfClaimsUnique, Active, PartyFree
  <1>4. \A d \in Call : CallOK(d)'
    BY <1>1 DEF OwnershipInv, CallOK, At, Active
  <1>5. CallsDisjoint'
    BY <1>1 DEF OwnershipInv, CallsDisjoint, At
  <1> QED
    BY <1>2, <1>3, <1>4, <1>5 DEF OwnershipInv

LEMMA TickKeeps == OwnershipInv /\ Tick => OwnershipInv'
  <1> SUFFICES ASSUME OwnershipInv, Tick PROVE OwnershipInv'
    OBVIOUS
  <1>1. clock' = clock + 1 /\ clock' \in 0..MaxTime /\ clock \in 0..MaxTime
    BY Types DEF Tick
  <1>2. TypeOK'
    BY <1>1 DEF OwnershipInv, TypeOK, Tick, Time
  <1>3. ClaimsBacked' /\ SelfClaimsUnique' /\ CallsDisjoint'
    BY DEF OwnershipInv, Tick, ClaimsBacked, SelfClaimsUnique, CallsDisjoint, Active, PartyFree, At
  <1>4. PeriodsBacked'
    BY <1>1, Types DEF OwnershipInv, Tick, PeriodsBacked, Active, PartyFree
  <1>5. \A c \in Call : CallOK(c)'
    BY <1>1, Types DEF OwnershipInv, Tick, CallOK, At, Active
  <1> QED
    BY <1>2, <1>3, <1>4, <1>5 DEF OwnershipInv

LEMMA StartKeeps ==
  ASSUME OwnershipInv, NEW k \in Claim, NEW person \in Person, NEW self \in BOOLEAN,
         StartClaim(k, person, self)
  PROVE  OwnershipInv'
  <1>1. /\ \A j \in Claim : j # k => claims'[j] = claims[j]
        /\ claims'[k] = [state |-> "started", graded |-> FALSE, self |-> self,
                         claimant |-> person, since |-> clock]
        /\ claims' \in [Claim -> ClaimRow]
    BY Types DEF StartClaim, ClaimRow, Time
  <1>2. TypeOK'
    BY <1>1 DEF OwnershipInv, TypeOK, StartClaim
  <1>3. ClaimsBacked'
    BY <1>1 DEF OwnershipInv, StartClaim, ClaimsBacked, Active, PartyFree, Level
  <1>4. SelfClaimsUnique'
    BY <1>1 DEF OwnershipInv, StartClaim, SelfClaimsUnique
  <1>5. PeriodsBacked'
    <2> SUFFICES ASSUME NEW p \in Call, Active(p) PROVE periods[p].claim # k
      BY <1>1 DEF OwnershipInv, StartClaim, PeriodsBacked, Active, PartyFree
    <2> QED
      BY DEF OwnershipInv, StartClaim, PeriodsBacked, Active, Level
  <1>6. \A c \in Call : call[c].claim = k => At(c, "idle")
    BY OwnershipAssumption DEF OwnershipInv, CallOK, StartClaim, ClaimsBacked, At, CallRecord, TypeOK
  <1>7. \A c \in Call : CallOK(c)'
    BY <1>1, <1>6 DEF OwnershipInv, StartClaim, CallOK, At, Active
  <1>8. CallsDisjoint'
    BY DEF OwnershipInv, StartClaim, CallsDisjoint, At
  <1> QED
    BY <1>2, <1>3, <1>4, <1>5, <1>7, <1>8 DEF OwnershipInv

LEMMA IssueKeeps ==
  ASSUME OwnershipInv, NEW k \in Claim, NEW m \in Method, NEW now \in CallTimes(k),
         IssueChallenge(k, m, now)
  PROVE  OwnershipInv'
  <1>0. now \in Nat
    BY Types DEF CallTimes
  <1>1. /\ \A j \in Claim : j # k => claims'[j] = claims[j]
        /\ claims'[k] = [claims[k] EXCEPT !.state = "proving", !.since = clock]
        /\ claims' \in [Claim -> ClaimRow]
    BY Types DEF IssueChallenge, ClaimRow, Time
  <1>2. challenges' \in [Claim -> [Method -> Challenge]]
    BY <1>0, Types, OwnershipAssumption DEF IssueChallenge, Challenge
  <1>3. TypeOK'
    BY <1>1, <1>2 DEF OwnershipInv, TypeOK, IssueChallenge
  <1>4. ClaimsBacked'
    BY <1>1, Types DEF OwnershipInv, IssueChallenge, ClaimsBacked, Active, PartyFree, Level, ClaimRow
  <1>5. SelfClaimsUnique'
    <2>1. \A j \in Claim : claims'[j].self = claims[j].self /\ claims'[j].claimant = claims[j].claimant
      <3>1. claims[k] \in ClaimRow
        BY Types
      <3>2. claims'[k].self = claims[k].self /\ claims'[k].claimant = claims[k].claimant
        BY <1>1, <3>1 DEF ClaimRow
      <3> QED
        BY <1>1, <3>2
    <2> QED
      BY <2>1 DEF OwnershipInv, SelfClaimsUnique
  <1>6. PeriodsBacked'
    <2> SUFFICES ASSUME NEW p \in Call, Active(p) PROVE periods[p].claim # k
      BY <1>1 DEF OwnershipInv, IssueChallenge, PeriodsBacked, Active, PartyFree
    <2> QED
      BY DEF OwnershipInv, IssueChallenge, PeriodsBacked, Active, Level
  <1>7. \A c \in Call : CallOK(c)'
    <2> SUFFICES ASSUME NEW c \in Call PROVE CallOK(c)'
      OBVIOUS
    <2>1. CallOK(c) /\ call[c].claim # k /\ call[c] \in CallRecord
      BY Types DEF OwnershipInv, IssueChallenge, Locked
    <2>2. call[c].claim \in Claim =>
            /\ claims'[call[c].claim] = claims[call[c].claim]
            /\ \A n \in Method : challenges'[call[c].claim][n] = challenges[call[c].claim][n]
      BY <1>1, <2>1, Types DEF IssueChallenge
    <2>3. call' = call /\ periods' = periods /\ clock' = clock
      BY DEF IssueChallenge
    <2>4. call[c].claim \in Claim \union {Nothing} /\ call[c].method \in Method \union {"none"}
      BY <2>1 DEF CallRecord
    <2> QED
      BY <2>1, <2>2, <2>3, <2>4 DEF CallOK, At, Active
  <1>8. CallsDisjoint'
    BY DEF OwnershipInv, IssueChallenge, CallsDisjoint, At
  <1> QED
    BY <1>3, <1>4, <1>5, <1>6, <1>7, <1>8 DEF OwnershipInv

LEMMA RefusedKeeps ==
  ASSUME OwnershipInv, NEW k \in Claim, NEW m \in Method, NEW now \in CallTimes(k),
         ProofRefused(k, m, now)
  PROVE  OwnershipInv'
  <1>1. challenges' \in [Claim -> [Method -> Challenge]]
    <2>1. challenges[k][m] \in Challenge
      BY Types
    <2>2. challenges[k][m].guesses + 1 < MaxGuesses =>
            [challenges[k][m] EXCEPT !.guesses = @ + 1] \in Challenge
      BY <2>1, OwnershipAssumption DEF Challenge
    <2>3. Closed \in Challenge
      BY OwnershipAssumption DEF Challenge, Closed
    <2>4. PICK row \in Challenge : challenges' = [challenges EXCEPT ![k][m] = row]
      <3>1. CASE Live(k, m, now) /\ challenges[k][m].guesses + 1 < MaxGuesses
        BY <2>2, <3>1 DEF ProofRefused
      <3>2. CASE ~(Live(k, m, now) /\ challenges[k][m].guesses + 1 < MaxGuesses)
        BY <2>3, <3>2 DEF ProofRefused
      <3> QED
        BY <3>1, <3>2
    <2> QED
      BY <2>4, Types
  <1>2. TypeOK'
    BY <1>1 DEF OwnershipInv, TypeOK, ProofRefused
  <1>3. ClaimsBacked' /\ PeriodsBacked' /\ SelfClaimsUnique' /\ CallsDisjoint'
    BY DEF OwnershipInv, ProofRefused, ClaimsBacked, PeriodsBacked, SelfClaimsUnique,
           CallsDisjoint, Active, PartyFree, At
  <1>4. \A c \in Call : CallOK(c)'
    <2> SUFFICES ASSUME NEW c \in Call PROVE CallOK(c)'
      OBVIOUS
    <2>1. CallOK(c) /\ call[c].claim # k /\ call[c] \in CallRecord
      BY Types DEF OwnershipInv, ProofRefused, Provable, Locked
    <2>2. call[c].claim \in Claim =>
            \A n \in Method : challenges'[call[c].claim][n] = challenges[call[c].claim][n]
      BY <2>1, Types DEF ProofRefused
    <2>3. call' = call /\ periods' = periods /\ clock' = clock /\ claims' = claims
      BY DEF ProofRefused
    <2>4. call[c].claim \in Claim \union {Nothing} /\ call[c].method \in Method \union {"none"}
      BY <2>1 DEF CallRecord
    <2> QED
      BY <2>1, <2>2, <2>3, <2>4 DEF CallOK, At, Active
  <1> QED
    BY <1>2, <1>3, <1>4 DEF OwnershipInv

-----------------------------------------------------------------------------
\* A transaction that grants control begins on a claim nobody has locked.
LEMMA BeginKeeps ==
  ASSUME OwnershipInv, NEW c \in Call, NEW kind \in {"proof", "convert"}, NEW k \in Claim,
         NEW m \in Method \union {"none"}, NEW level \in Level, NEW now \in CallTimes(k),
         Begin(c, kind, k, m, level, now),
         ~Locked(k),
         kind = "proof" => claims[k].state \in {"proving", "provisional"},
         kind = "convert" => claims[k].graded /\ level = "full" /\ m = "none",
         m # "none" => challenges[k][m].pending
  PROVE  OwnershipInv'
  <1> DEFINE row == [at |-> "granted", kind |-> kind, claim |-> k, method |-> m,
                     level |-> level, now |-> now, seen |-> Nothing]
  <1>1. now \in 0..MaxTime /\ now <= clock
    BY Types DEF CallTimes
  <1>2. row \in CallRecord
    BY <1>1 DEF CallRecord, Time
  <1>3. call' = [call EXCEPT ![c] = row] /\ UNCHANGED <<clock, claims, challenges, periods>>
        /\ periods[c].state = "none"
    BY DEF Begin
  <1>4. call'[c] = row
    BY <1>3, Types
  <1>5. k # Nothing
    BY OwnershipAssumption
  <1>6. CallOK(c)'
    BY <1>1, <1>3, <1>4, <1>5 DEF CallOK, At
  <1>7. \A d \in Call : call[d].claim # k
    BY DEF Locked
  <1> QED
    BY <1>2, <1>3, <1>6, <1>7, CallMoves

LEMMA GrantKeeps ==
  ASSUME OwnershipInv, NEW c \in Call, NEW k \in Claim, NEW now \in CallTimes(k),
         \/ \E m \in Method : AcceptChallenge(c, k, m, now)
         \/ \E level \in Level : AcceptAttestation(c, k, level, now)
         \/ ConvertClaim(c, k, now)
  PROVE  OwnershipInv'
  <1>1. ASSUME NEW m \in Method, AcceptChallenge(c, k, m, now) PROVE OwnershipInv'
    <2>1. LevelOf(m) \in Level
      BY DEF LevelOf, Level
    <2> QED
      BY <1>1, <2>1, BeginKeeps DEF AcceptChallenge, Provable, Live
  <1>2. ASSUME NEW level \in Level, AcceptAttestation(c, k, level, now) PROVE OwnershipInv'
    BY <1>2, BeginKeeps DEF AcceptAttestation, Provable
  <1>3. CASE ConvertClaim(c, k, now)
    <2>1. "full" \in Level
      BY DEF Level
    <2> QED
      BY <1>3, <2>1, BeginKeeps DEF ConvertClaim
  <1> QED
    BY <1>1, <1>2, <1>3

LEMMA FindKeeps ==
  ASSUME OwnershipInv, NEW c \in Call, FindPeriod(c)
  PROVE  OwnershipInv'
  <1>1. CallOK(c) /\ call[c] \in CallRecord /\ At(c, "granted")
    BY Types DEF OwnershipInv, FindPeriod
  <1>2. \A d \in Call : d # c => call[d].claim # call[c].claim
    BY <1>1 DEF OwnershipInv, CallsDisjoint, CallOK, At
  <1>3. ASSUME NEW p \in Call, Active(p),
               call' = [call EXCEPT ![c].at = "waiting", ![c].seen = p],
               UNCHANGED <<clock, claims, challenges, periods>>
        PROVE  OwnershipInv'
    <2> DEFINE row == [call[c] EXCEPT !.at = "waiting", !.seen = p]
    <2>1. row \in CallRecord /\ call' = [call EXCEPT ![c] = row] /\ call'[c] = row
      BY <1>1, <1>3, Types DEF CallRecord
    <2>2. CallOK(c)'
      <3>1. p # Nothing
        BY OwnershipAssumption
      <3>2. /\ call'[c].at = "waiting" /\ call'[c].seen = p
            /\ call'[c].claim = call[c].claim /\ call'[c].kind = call[c].kind
            /\ call'[c].method = call[c].method /\ call'[c].level = call[c].level
            /\ call'[c].now = call[c].now
        <4>1. /\ row.at = "waiting" /\ row.seen = p
              /\ row.claim = call[c].claim /\ row.kind = call[c].kind
              /\ row.method = call[c].method /\ row.level = call[c].level /\ row.now = call[c].now
          BY <1>1 DEF CallRecord
        <4> QED
          BY <2>1, <4>1
      <3> QED
        BY <1>1, <1>3, <3>1, <3>2 DEF CallOK, At
    <2>3. row.at # "decided" /\ row.claim = call[c].claim
      BY <1>1 DEF CallRecord
    <2>4. \A d \in Call : d # c => call[d].claim # row.claim
      BY <1>2, <2>3
    <2> HIDE DEF row
    <2> QED
      BY <1>3, <2>1, <2>2, <2>3, <2>4, CallMoves
  <1>4. ASSUME call' = [call EXCEPT ![c].at = "decided"],
               UNCHANGED <<clock, claims, challenges, periods>>
        PROVE  OwnershipInv'
    <2> DEFINE row == [call[c] EXCEPT !.at = "decided"]
    <2>1. row \in CallRecord /\ call' = [call EXCEPT ![c] = row] /\ call'[c] = row
      BY <1>1, <1>4, Types DEF CallRecord
    <2>2. row.seen = Nothing /\ row.claim = call[c].claim
      BY <1>1 DEF CallOK, At, CallRecord
    <2>3. CallOK(c)'
      BY <1>1, <1>4, <2>1, <2>2 DEF CallOK, At, CallRecord
    <2> QED
      BY <1>2, <1>4, <2>1, <2>2, <2>3, CallMoves
  <1> QED
    BY <1>3, <1>4 DEF FindPeriod

LEMMA LockKeeps ==
  ASSUME OwnershipInv, NEW c \in Call, LockPeriod(c)
  PROVE  OwnershipInv'
  <1> DEFINE seen == IF Active(call[c].seen) THEN call[c].seen ELSE Nothing
             row == [call[c] EXCEPT !.at = "decided", !.seen = seen]
  <1>1. CallOK(c) /\ call[c] \in CallRecord /\ At(c, "waiting")
    BY Types DEF OwnershipInv, LockPeriod
  <1>2. \A d \in Call : d # c => call[d].claim # call[c].claim
    BY <1>1 DEF OwnershipInv, CallsDisjoint, CallOK, At
  <1>3. row \in CallRecord /\ row.claim = call[c].claim /\ row.seen = seen
    BY <1>1 DEF CallRecord
  <1>4. call' = [call EXCEPT ![c] = row] /\ call'[c] = row
        /\ UNCHANGED <<clock, claims, challenges, periods>>
    BY <1>1, Types DEF LockPeriod, CallRecord
  <1>5. CallOK(c)'
    BY <1>1, <1>3, <1>4 DEF CallOK, At, CallRecord, Active
  <1>6. seen # Nothing => \A d \in Call : d # c /\ At(d, "decided") => call[d].seen # seen
    BY DEF LockPeriod
  <1> HIDE DEF seen, row
  <1> QED
    BY <1>2, <1>3, <1>4, <1>5, <1>6, CallMoves

LEMMA RollBackKeeps ==
  ASSUME OwnershipInv, NEW c \in Call, RollBack(c)
  PROVE  OwnershipInv'
  <1>1. Idle \in CallRecord
    BY OwnershipAssumption DEF Idle, CallRecord, Time
  <1>2. call'[c] = Idle /\ call' = [call EXCEPT ![c] = Idle]
        /\ UNCHANGED <<clock, claims, challenges, periods>>
    BY Types DEF RollBack
  <1>3. CallOK(c)'
    BY <1>2, Types DEF CallOK, At, Idle
  <1> QED
    BY <1>1, <1>2, <1>3, CallMoves DEF Idle

-----------------------------------------------------------------------------
\* What a commit does to the claims.
LEMMA CommitClaims ==
  ASSUME OwnershipInv, NEW c \in Call, Commit(c)
  PROVE  /\ call[c].claim \in Claim /\ call[c].level \in Level /\ periods[c].state = "none"
         /\ call[c].now \in 0..MaxTime /\ call[c].now <= clock
         /\ claims' \in [Claim -> ClaimRow]
         /\ \A j \in Claim : j # call[c].claim => claims'[j] = claims[j]
         /\ claims'[call[c].claim].state = call[c].level
         /\ claims'[call[c].claim].graded <=> call[c].level = "full"
         /\ claims[call[c].claim].graded <=> call[c].kind # "proof"
         /\ call[c].kind # "proof" => call[c].level = "full"
         /\ claims'[call[c].claim].self = claims[call[c].claim].self
         /\ claims'[call[c].claim].claimant = claims[call[c].claim].claimant
  <1> DEFINE k == call[c].claim
             row == [claims[k] EXCEPT !.state = call[c].level, !.since = clock,
                                      !.graded = claims[k].graded \/ call[c].level = "full"]
  <1>1. CallOK(c) /\ call[c] \in CallRecord /\ ~At(c, "idle")
    BY Types DEF OwnershipInv, Commit, At
  <1>2. k \in Claim /\ call[c].level \in Level /\ periods[c].state = "none"
        /\ call[c].now \in 0..MaxTime /\ call[c].now <= clock
    BY <1>1, Types DEF CallOK, CallRecord
  <1>3. claims[k] \in ClaimRow /\ (claims[k].state = "full" <=> claims[k].graded)
        /\ claims[k].graded \in BOOLEAN
    BY <1>2, Types DEF OwnershipInv, ClaimsBacked, ClaimRow
  <1>4. IF call[c].kind = "proof"
        THEN claims[k].state \in {"proving", "provisional"}
        ELSE claims[k].graded /\ call[c].level = "full"
    BY <1>1 DEF CallOK
  <1>5. row \in ClaimRow /\ row.state = call[c].level /\ row.self = claims[k].self
        /\ row.claimant = claims[k].claimant
        /\ (row.graded <=> claims[k].graded \/ call[c].level = "full")
    BY <1>2, <1>3, Types DEF ClaimRow, Time
  <1>6. \/ call[c].kind # "proof" /\ claims' = claims
        \/ claims' = [claims EXCEPT ![k] = row]
    BY <1>3, <1>4, Types DEF Commit
  <1> HIDE DEF row, k
  <1>7. claims' \in [Claim -> ClaimRow] /\ \A j \in Claim : j # k => claims'[j] = claims[j]
    BY <1>2, <1>5, <1>6, Types
  <1>8. CASE call[c].kind # "proof" /\ claims' = claims
    BY <1>2, <1>3, <1>4, <1>7, <1>8 DEF k
  <1>9. CASE claims' = [claims EXCEPT ![k] = row]
    <2>1. claims'[k] = row
      BY <1>2, <1>9, Types
    <2>2. claims[k].graded <=> call[c].kind # "proof"
      BY <1>3, <1>4
    <2> QED
      BY <1>2, <1>4, <1>5, <1>7, <2>1, <2>2 DEF k
  <1> QED
    BY <1>6, <1>8, <1>9

\* What it does to the periods, if it grants control: c's is the only live one,
\* and the one that ended, if any, ended when c's began.
LEMMA CommitPeriods ==
  ASSUME OwnershipInv, NEW c \in Call, Commit(c), OpenPeriod(c) \/ ReplacePeriod(c)
  PROVE  /\ periods' \in [Call -> Period]
         /\ periods'[c].state = "active" /\ periods'[c].claim = call[c].claim
         /\ periods'[c].level = call[c].level /\ periods'[c].from = call[c].now
         /\ \A p \in Call : Active(p)' <=> p = c
         /\ OpenPeriod(c) => PartyFree /\ \A p \in Call : p # c => periods[p].state = "none"
                                                             /\ periods'[p] = periods[p]
         /\ ReplacePeriod(c) =>
              /\ call[c].seen \in Call /\ call[c].seen # c /\ Active(call[c].seen)
              /\ call[c].level = "full"
              /\ \A p \in Call : p # c /\ p # call[c].seen => periods'[p] = periods[p]
              /\ periods'[call[c].seen].state = "ended"
              /\ periods'[call[c].seen].to = call[c].now
              /\ periods'[call[c].seen].from = periods[call[c].seen].from
              /\ periods'[call[c].seen].claim = periods[call[c].seen].claim
              /\ periods'[call[c].seen].level = periods[call[c].seen].level
              /\ periods[call[c].seen].from < call[c].now
  <1> DEFINE s == call[c].seen
  <1>1. CallOK(c) /\ call[c] \in CallRecord /\ At(c, "decided")
    BY Types DEF OwnershipInv, Commit
  <1>2. NewPeriod(c) \in Period
    BY CommitClaims, Types DEF NewPeriod, Period, Time
  <1>3. \A p, q \in Call : Active(p) /\ Active(q) => p = q
    BY DEF OwnershipInv, PeriodsBacked
  <1>4. CASE OpenPeriod(c)
    <2>1. periods' = [periods EXCEPT ![c] = NewPeriod(c)] /\ PartyFree /\ s = Nothing
      BY <1>4 DEF OpenPeriod, NoOverlap
    <2>2. \A p \in Call : periods[p].state = "none"
      BY <2>1 DEF OwnershipInv, PeriodsBacked
    <2>3. periods' \in [Call -> Period] /\ periods'[c] = NewPeriod(c)
          /\ \A p \in Call : p # c => periods'[p] = periods[p]
      BY <1>2, <2>1, Types
    <2>4. ~ReplacePeriod(c)
      BY <2>1 DEF ReplacePeriod
    <2> QED
      BY <2>1, <2>2, <2>3, <2>4 DEF NewPeriod, Active
  <1>5. CASE ReplacePeriod(c)
    <2> DEFINE old == [periods[s] EXCEPT !.state = "ended", !.to = call[c].now]
    <2>1. s \in Call /\ Active(s) /\ s # c
      BY <1>1, <1>5, CommitClaims DEF ReplacePeriod, CallOK, CallRecord, Active
    <2>2. call[c].level = "full" /\ periods[s].from < call[c].now
      BY <1>5, CommitClaims, Types, <2>1 DEF ReplacePeriod, Replaces, InOrder
    <2>3. old \in Period /\ old.state = "ended" /\ old.to = call[c].now
          /\ old.from = periods[s].from /\ old.claim = periods[s].claim
          /\ old.level = periods[s].level
      <3>1. periods[s] \in Period
        BY <2>1, Types
      <3>2. call[c].now \in 0..MaxTime
        BY CommitClaims
      <3> QED
        BY <3>1, <3>2 DEF Period, Time
    <2>4. periods' = [periods EXCEPT ![s] = old, ![c] = NewPeriod(c)]
      BY <1>5, <2>1, Types DEF ReplacePeriod
    <2> HIDE DEF old
    <2>5. periods' \in [Call -> Period] /\ periods'[c] = NewPeriod(c) /\ periods'[s] = old
          /\ \A p \in Call : p # c /\ p # s => periods'[p] = periods[p]
      BY <1>2, <2>1, <2>3, <2>4, Types
    <2>6. \A p \in Call : Active(p)' <=> p = c
      BY <1>3, <2>1, <2>3, <2>5 DEF Active, NewPeriod
    <2>7. ~OpenPeriod(c)
      BY <1>5 DEF OpenPeriod, ReplacePeriod
    <2> QED
      BY <2>1, <2>2, <2>3, <2>5, <2>6, <2>7 DEF NewPeriod
  <1> QED
    BY <1>4, <1>5

LEMMA CommitTypes ==
  ASSUME OwnershipInv, NEW c \in Call, Commit(c)
  PROVE  /\ TypeOK'
         /\ call'[c] = Idle /\ \A d \in Call : d # c => call'[d] = call[d]
         /\ \A k \in Claim : k # call[c].claim => challenges'[k] = challenges[k]
  <1>1. Idle \in CallRecord /\ Closed \in Challenge
    BY OwnershipAssumption DEF Idle, CallRecord, Time, Closed, Challenge
  <1>2. call' = [call EXCEPT ![c] = Idle] /\ clock' = clock
    BY DEF Commit
  <1>3. periods' \in [Call -> Period]
    BY CommitPeriods, Types DEF Commit, KeepPeriod
  <1>4. /\ challenges' \in [Claim -> [Method -> Challenge]]
        /\ \A k \in Claim : k # call[c].claim => challenges'[k] = challenges[k]
    <2>1. call[c].method \in Method \union {"none"}
      BY Types DEF CallRecord
    <2> QED
      BY <1>1, <2>1, Types DEF Commit
  <1>5. claims' \in [Claim -> ClaimRow]
    BY CommitClaims
  <1> QED
    BY <1>1, <1>2, <1>3, <1>4, <1>5, Types DEF OwnershipInv, TypeOK

\* The other transactions hold other claims and other periods.
LEMMA CommitCalls ==
  ASSUME OwnershipInv, NEW c \in Call, Commit(c)
  PROVE  (\A d \in Call : CallOK(d)') /\ CallsDisjoint'
  <1>1. call'[c] = Idle /\ \A d \in Call : d # c => call'[d] = call[d]
    BY CommitTypes
  <1>2. CallOK(c)'
    <2>1. 0 <= clock'
      BY Types DEF Commit
    <2> QED
      BY <1>1, <2>1 DEF CallOK, At, Idle
  <1>3. CallsDisjoint'
    BY <1>1 DEF OwnershipInv, CallsDisjoint, At, Idle
  <1>4. ASSUME NEW d \in Call, d # c PROVE CallOK(d)'
    <2>1. CallOK(d) /\ call[d] \in CallRecord /\ call'[d] = call[d] /\ clock' = clock
      BY <1>1, <1>4, Types DEF OwnershipInv, Commit
    <2>2. call[d].claim \in Claim \union {Nothing} /\ call[d].method \in Method \union {"none"}
          /\ call[d].seen \in Call \union {Nothing}
      BY <2>1 DEF CallRecord
    <2>3. call[d].claim # call[c].claim
      BY <1>4, CommitClaims, OwnershipAssumption DEF OwnershipInv, CallsDisjoint
    <2>4. call[d].claim \in Claim =>
            /\ claims'[call[d].claim] = claims[call[d].claim]
            /\ challenges'[call[d].claim] = challenges[call[d].claim]
      BY <2>3, CommitClaims, CommitTypes
    <2>5. ~At(d, "idle") => call[d].claim \in Claim
      BY <2>1, <2>2 DEF CallOK
    <2>6. periods[d].state = "none" => periods'[d].state = "none"
      <3>1. CASE KeepPeriod(c)
        BY <3>1 DEF KeepPeriod
      <3>2. CASE OpenPeriod(c)
        BY <1>4, <3>2, CommitPeriods
      <3>3. CASE ReplacePeriod(c)
        <4>1. Active(d) \/ d # call[c].seen
          BY <3>3, CommitPeriods
        <4> QED
          BY <1>4, <3>3, <4>1, CommitPeriods DEF Active
      <3> QED
        BY <3>1, <3>2, <3>3 DEF Commit
    <2>7. At(d, "decided") /\ call[d].seen # Nothing => Active(call[d].seen)'
      <3> SUFFICES ASSUME At(d, "decided"), call[d].seen # Nothing PROVE Active(call[d].seen)'
        BY <2>1
      <3>1. Active(call[d].seen) /\ call[d].seen \in Call
        BY <2>1, <2>2 DEF CallOK
      <3>2. CASE KeepPeriod(c)
        BY <2>1, <3>1, <3>2 DEF KeepPeriod, Active
      <3>3. CASE OpenPeriod(c)
        BY <3>1, <3>3, CommitPeriods DEF PartyFree
      <3>4. CASE ReplacePeriod(c)
        <4>1. call[d].seen = call[c].seen
          BY <3>1, <3>4, CommitPeriods DEF OwnershipInv, PeriodsBacked
        <4> QED
          BY <1>4, <4>1 DEF OwnershipInv, CallsDisjoint, Commit, At
      <3> QED
        BY <3>2, <3>3, <3>4 DEF Commit
    <2>8. (At(d, "decided") <=> At(d, "decided")') /\ (At(d, "waiting") <=> At(d, "waiting")')
          /\ (At(d, "granted") <=> At(d, "granted")') /\ (At(d, "idle") <=> At(d, "idle")')
      BY <2>1 DEF At
    <2> QED
      BY <2>1, <2>2, <2>4, <2>5, <2>6, <2>7, <2>8 DEF CallOK
  <1> QED
    BY <1>2, <1>3, <1>4

\* Claims and the live period still agree: a full claim leaves a full period
\* behind it, its own or another's.
LEMMA CommitBacked ==
  ASSUME OwnershipInv, NEW c \in Call, Commit(c)
  PROVE  ClaimsBacked' /\ PeriodsBacked' /\ SelfClaimsUnique'
  <1> DEFINE k == call[c].claim
  <1>1. SelfClaimsUnique'
    <2>1. \A j \in Claim : claims'[j].self = claims[j].self /\ claims'[j].claimant = claims[j].claimant
      BY CommitClaims
    <2> QED
      BY <2>1 DEF OwnershipInv, SelfClaimsUnique
  <1>2. clock' = clock
    BY DEF Commit
  <1>3. \A j \in Claim : claims'[j].state = "full" <=> claims'[j].graded
    BY CommitClaims DEF OwnershipInv, ClaimsBacked, Level
  <1>4. CASE KeepPeriod(c)
    <2>1. /\ call[c].seen \in Call /\ Active(call[c].seen) /\ periods' = periods
          /\ \A p \in Call : Active(p) => p = call[c].seen
      BY <1>4, Types DEF OwnershipInv, KeepPeriod, CallOK, PeriodsBacked, Commit, At, CallRecord
    <2>2. /\ periods[call[c].seen].claim \in Claim
          /\ periods[call[c].seen].level \in Level
          /\ claims[periods[call[c].seen].claim].state = periods[call[c].seen].level
      BY <2>1 DEF OwnershipInv, PeriodsBacked, Active
    <2>3. call[c].level = "full" => periods[call[c].seen].level = "full"
      BY <1>4, CommitClaims DEF KeepPeriod, Replaces
    <2>4. periods[call[c].seen].claim = k => call[c].level = periods[call[c].seen].level
      <3> SUFFICES ASSUME periods[call[c].seen].claim = k
                   PROVE  call[c].level = periods[call[c].seen].level
        OBVIOUS
      <3>1. CASE call[c].kind = "proof"
        BY <2>2, <2>3, <3>1, CommitClaims DEF OwnershipInv, ClaimsBacked, Level
      <3>2. CASE call[c].kind # "proof"
        BY <2>3, <3>2, CommitClaims
      <3> QED
        BY <3>1, <3>2
    <2>5. ~PartyFree'
      BY <2>1 DEF PartyFree, Active
    <2>6. ClaimsBacked'
      <3>1. ASSUME NEW j \in Claim, claims'[j].graded, NEW p \in Call, Active(p)'
            PROVE  periods'[p].level = "full"
        <4>1. p = call[c].seen /\ Active(p)
          BY <2>1, <3>1 DEF Active
        <4>2. CASE j = k
          BY <2>1, <2>3, <3>1, <4>1, <4>2, CommitClaims
        <4>3. CASE j # k
          BY <2>1, <3>1, <4>1, <4>3, CommitClaims DEF OwnershipInv, ClaimsBacked
        <4> QED
          BY <4>2, <4>3
      <3> QED
        BY <1>3, <2>5, <3>1 DEF ClaimsBacked
    <2>7. PeriodsBacked'
      <3>1. claims'[periods[call[c].seen].claim].state = periods[call[c].seen].level
        BY <2>2, <2>4, CommitClaims
      <3> QED
        BY <1>2, <2>1, <2>5, <3>1 DEF OwnershipInv, PeriodsBacked, Active
    <2> QED
      BY <1>1, <2>6, <2>7
  <1>5. CASE OpenPeriod(c) \/ ReplacePeriod(c)
    <2>1. ~PartyFree'
      BY <1>5, CommitPeriods DEF PartyFree
    <2>2. ClaimsBacked'
      <3>1. ASSUME NEW j \in Claim, claims'[j].graded PROVE periods'[c].level = "full"
        <4>1. CASE j = k
          BY <1>5, <3>1, <4>1, CommitClaims, CommitPeriods
        <4>2. CASE ReplacePeriod(c)
          BY <4>2, CommitPeriods
        <4>3. CASE j # k /\ OpenPeriod(c)
          <5>1. claims[j].graded /\ claims[j].state = "full"
            BY <3>1, <4>3, CommitClaims DEF OwnershipInv, ClaimsBacked
          <5>2. PartyFree
            BY <4>3, CommitPeriods
          <5> QED
            BY <5>1, <5>2 DEF OwnershipInv, ClaimsBacked, Level
        <4> QED
          BY <1>5, <4>1, <4>2, <4>3
      <3> QED
        BY <1>3, <1>5, <2>1, <3>1, CommitPeriods DEF ClaimsBacked
    <2>3. ASSUME NEW p \in Call, periods'[p].state # "none"
          PROVE  /\ periods'[p].claim \in Claim /\ periods'[p].level \in Level
                 /\ periods'[p].from <= clock
      <3>1. CASE p = c
        BY <1>5, <3>1, CommitClaims, CommitPeriods
      <3>2. CASE p # c
        <4>1. periods[p].state # "none"
          BY <1>5, <2>3, <3>2, CommitPeriods DEF Active
        <4>2. periods'[p].claim = periods[p].claim /\ periods'[p].level = periods[p].level
              /\ periods'[p].from = periods[p].from
          BY <1>5, <3>2, CommitPeriods
        <4> QED
          BY <4>1, <4>2 DEF OwnershipInv, PeriodsBacked
      <3> QED
        BY <3>1, <3>2
    <2>4. claims'[periods'[c].claim].state = periods'[c].level
      BY <1>5, CommitClaims, CommitPeriods
    <2>5. PeriodsBacked'
      BY <1>2, <1>5, <2>1, <2>3, <2>4, CommitPeriods DEF PeriodsBacked
    <2> QED
      BY <1>1, <2>2, <2>5
  <1> QED
    BY <1>4, <1>5 DEF Commit

LEMMA CommitKeeps ==
  ASSUME OwnershipInv, NEW c \in Call, Commit(c)
  PROVE  OwnershipInv'
  BY CommitTypes, CommitCalls, CommitBacked DEF OwnershipInv

LEMMA NextKeeps == OwnershipInv /\ [Next]_vars => OwnershipInv'
  <1> SUFFICES ASSUME OwnershipInv, [Next]_vars PROVE OwnershipInv'
    OBVIOUS
  <1>1. CASE UNCHANGED vars
    BY <1>1 DEF vars, OwnershipInv, TypeOK, ClaimsBacked, PeriodsBacked, SelfClaimsUnique, CallOK,
                CallsDisjoint, Active, PartyFree, At
  <1>2. CASE Tick
    BY <1>2, TickKeeps
  <1>3. ASSUME NEW k \in Claim, NEW person \in Person, NEW self \in BOOLEAN,
               StartClaim(k, person, self)
        PROVE  OwnershipInv'
    BY <1>3, StartKeeps
  <1>4. ASSUME NEW k \in Claim, NEW now \in CallTimes(k), NEW m \in Method,
               IssueChallenge(k, m, now) \/ ProofRefused(k, m, now)
        PROVE  OwnershipInv'
    BY <1>4, IssueKeeps, RefusedKeeps
  <1>5. ASSUME NEW k \in Claim, NEW now \in CallTimes(k), NEW c \in Call,
               \/ \E m \in Method : AcceptChallenge(c, k, m, now)
               \/ \E level \in Level : AcceptAttestation(c, k, level, now)
               \/ ConvertClaim(c, k, now)
        PROVE  OwnershipInv'
    BY <1>5, GrantKeeps
  <1>6. ASSUME NEW c \in Call, FindPeriod(c) \/ LockPeriod(c) \/ Commit(c) \/ RollBack(c)
        PROVE  OwnershipInv'
    BY <1>6, FindKeeps, LockKeeps, CommitKeeps, RollBackKeeps
  <1> QED
    BY <1>1, <1>2, <1>3, <1>4, <1>5, <1>6 DEF Next

-----------------------------------------------------------------------------
\* At every moment of rpc_submit_claim_proof and rpc_convert_claim, for any
\* number of them at once, claims, proofs, locks and periods tell one story.
THEOREM OwnershipInvariant == Spec => []OwnershipInv
  <1>1. Init => OwnershipInv
    BY InitInv
  <1> QED
    BY <1>1, NextKeeps, PTL DEF Spec

-----------------------------------------------------------------------------
LEMMA OnlyCommitsChangePeriods ==
  [Next]_vars => UNCHANGED periods \/ \E c \in Call : Commit(c)
  <1> SUFFICES ASSUME [Next]_vars, ~\E c \in Call : Commit(c) PROVE UNCHANGED periods
    OBVIOUS
  <1>1. CASE Tick \/ UNCHANGED vars
    BY <1>1 DEF Tick, vars
  <1>2. ASSUME NEW k \in Claim, NEW person \in Person, NEW self \in BOOLEAN,
               StartClaim(k, person, self)
        PROVE  UNCHANGED periods
    BY <1>2 DEF StartClaim
  <1>3. ASSUME NEW k \in Claim, NEW now \in CallTimes(k), NEW m \in Method,
               IssueChallenge(k, m, now) \/ ProofRefused(k, m, now)
        PROVE  UNCHANGED periods
    BY <1>3 DEF IssueChallenge, ProofRefused
  <1>4. ASSUME NEW k \in Claim, NEW now \in CallTimes(k), NEW c \in Call,
               \/ \E m \in Method : AcceptChallenge(c, k, m, now)
               \/ \E level \in Level : AcceptAttestation(c, k, level, now)
               \/ ConvertClaim(c, k, now)
        PROVE  UNCHANGED periods
    BY <1>4 DEF AcceptChallenge, AcceptAttestation, ConvertClaim, Begin
  <1>5. ASSUME NEW c \in Call, FindPeriod(c) \/ LockPeriod(c) \/ RollBack(c)
        PROVE  UNCHANGED periods
    BY <1>5 DEF FindPeriod, LockPeriod, RollBack
  <1> QED
    BY <1>1, <1>2, <1>3, <1>4, <1>5 DEF Next

LEMMA HistoryKept == OwnershipInv /\ HistoryUnbroken /\ [Next]_vars => HistoryUnbroken'
  <1> SUFFICES ASSUME OwnershipInv, HistoryUnbroken, [Next]_vars PROVE HistoryUnbroken'
    OBVIOUS
  <1>1. CASE UNCHANGED periods
    BY <1>1 DEF HistoryUnbroken, Before
  <1>2. ASSUME NEW c \in Call, Commit(c) PROVE HistoryUnbroken'
    <2>1. CASE KeepPeriod(c)
      BY <2>1 DEF KeepPeriod, HistoryUnbroken, Before
    <2>2. CASE OpenPeriod(c)
      <3>1. periods'[c].state = "active" /\ \A p \in Call : p # c => periods'[p].state = "none"
        BY <1>2, <2>2, CommitPeriods
      <3> QED
        BY <3>1 DEF HistoryUnbroken
    <2>3. CASE ReplacePeriod(c)
      <3>0. PICK s : s = call[c].seen
        OBVIOUS
      <3>1. /\ s \in Call /\ s # c /\ periods[s].state = "active" /\ periods[c].state = "none"
            /\ periods'[c].state = "active" /\ periods'[c].from = call[c].now
            /\ \A p \in Call : p # c /\ p # s => periods'[p] = periods[p]
            /\ periods'[s].state = "ended" /\ periods'[s].to = call[c].now
            /\ periods'[s].from = periods[s].from /\ periods[s].from < call[c].now
            /\ call[c].now \in Nat /\ \A p \in Call : periods[p].from \in Nat /\ periods[p].to \in Nat
        BY <1>2, <2>3, <3>0, CommitPeriods, CommitClaims, Types DEF Active
      \* An earlier period ended before the one that now ends began.
      <3>2. ASSUME NEW p \in Call, p # c, p # s, periods'[p].state # "none"
            PROVE  Before(p, s) /\ Before(p, s)' /\ Before(p, c)'
        <4>1. periods'[p] = periods[p]
          BY <3>1, <3>2
        <4>2. Before(p, s)
          BY <3>1, <3>2, <4>1 DEF HistoryUnbroken, Before
        <4> QED
          BY <3>1, <4>1, <4>2 DEF Before
      <3>3. Before(s, c)'
        BY <3>1 DEF Before
      <3>4. ASSUME NEW p \in Call, periods'[p].state # "none",
                   NEW q \in Call, periods'[q].state # "none", p # q
            PROVE  Before(p, q)' \/ Before(q, p)'
        <4>1. CASE p \in {c, s} \/ q \in {c, s}
          BY <3>2, <3>3, <3>4, <4>1
        <4>2. CASE p \notin {c, s} /\ q \notin {c, s}
          BY <3>1, <3>4, <4>2 DEF HistoryUnbroken, Before
        <4> QED
          BY <4>1, <4>2
      <3>5. ASSUME NEW p \in Call, periods'[p].state = "ended"
            PROVE  /\ periods'[p].from < periods'[p].to
                   /\ \E q \in Call : periods'[q].state # "none" /\ periods'[q].from = periods'[p].to
        <4>1. CASE p = s
          BY <3>1, <4>1
        <4>2. CASE p # s
          <5>1. p # c /\ periods'[p] = periods[p]
            BY <3>1, <3>5, <4>2
          <5>2. PICK q \in Call : periods[q].state # "none" /\ periods[q].from = periods[p].to
            BY <3>5, <5>1 DEF HistoryUnbroken
          <5>3. periods'[q].state # "none" /\ periods'[q].from = periods[q].from
            BY <3>1, <5>2
          <5>4. periods[p].from < periods[p].to
            BY <3>5, <5>1 DEF HistoryUnbroken
          <5> QED
            BY <5>1, <5>2, <5>3, <5>4
        <4> QED
          BY <4>1, <4>2
      <3> QED
        BY <3>4, <3>5 DEF HistoryUnbroken
    <2> QED
      BY <1>2, <2>1, <2>2, <2>3 DEF Commit
  <1> QED
    BY <1>1, <1>2, OnlyCommitsChangePeriods

\* The dated history of a party has no gap and no overlap, although now_at is
\* taken before the waits of rpc_submit_claim_proof and rpc_convert_claim.
THEOREM HistoryIsUnbroken == Spec => []HistoryUnbroken
  <1>1. Init => OwnershipInv /\ HistoryUnbroken
    BY InitInv
  <1>2. OwnershipInv /\ HistoryUnbroken /\ [Next]_vars => (OwnershipInv /\ HistoryUnbroken)'
    BY NextKeeps, HistoryKept
  <1> QED
    BY <1>1, <1>2, PTL DEF Spec

-----------------------------------------------------------------------------
LEMMA NoTitle == PartyFree => TitleOf = [claim |-> Nothing, level |-> "none"]
  BY DEF TitleOf

LEMMA LiveTitle ==
  ASSUME OwnershipInv, NEW p \in Call, Active(p)
  PROVE  TitleOf = [claim |-> periods[p].claim, level |-> periods[p].level]
  <1>1. \A q \in Call : Active(q) <=> q = p
    BY DEF OwnershipInv, PeriodsBacked
  <1>2. LivePeriod = p
    BY <1>1 DEF LivePeriod
  <1>3. ~PartyFree
    BY DEF PartyFree
  <1> QED
    BY <1>2, <1>3 DEF TitleOf

LEMMA LiveTitleNext ==
  ASSUME NEW p \in Call, \A q \in Call : Active(q)' <=> q = p
  PROVE  TitleOf' = [claim |-> periods'[p].claim, level |-> periods'[p].level]
  <1>1. LivePeriod' = p
    BY DEF LivePeriod
  <1>2. ~PartyFree'
    BY DEF PartyFree
  <1> QED
    BY <1>1, <1>2 DEF TitleOf

LEMMA CommitTitle ==
  ASSUME OwnershipInv, NEW c \in Call, Commit(c)
  PROVE  Ownership!TitleNext \/ UNCHANGED <<TitleOf, Graded>>
  <1>0. PICK k, level : k = call[c].claim /\ level = call[c].level
    OBVIOUS
  <1>1. /\ k \in Claim /\ level \in {"provisional", "full"}
        /\ claims[k].graded <=> call[c].kind # "proof"
        /\ call[c].kind # "proof" => level = "full"
    BY <1>0, CommitClaims DEF Level
  <1>2. Graded' = IF level = "full" THEN Graded \union {k} ELSE Graded
    BY <1>0, CommitClaims DEF Graded
  <1>3. \A p \in Call : Active(p) /\ claims[k].graded => periods[p].level = "full"
    BY <1>0, CommitClaims DEF OwnershipInv, ClaimsBacked
  <1>4. CASE KeepPeriod(c)
    <2>1. /\ call[c].seen \in Call /\ Active(call[c].seen) /\ periods' = periods
      BY <1>4, Types DEF OwnershipInv, KeepPeriod, CallOK, Commit, At, CallRecord
    <2>2. TitleOf' = TitleOf
      BY <2>1 DEF TitleOf, LivePeriod, PartyFree, Active
    <2>3. TitleOf.level = periods[call[c].seen].level /\ TitleOf.level \in Level
      BY <2>1, LiveTitle DEF OwnershipInv, PeriodsBacked, Active
    <2>4. CASE call[c].kind # "proof"
      <3>1. Graded' = Graded
        BY <1>1, <1>2, <2>4 DEF Graded
      <3> QED
        BY <2>2, <3>1
    <2>5. CASE call[c].kind = "proof" /\ level = "full"
      <3>1. TitleOf.level = "full"
        BY <1>0, <1>4, <2>3, <2>5 DEF KeepPeriod, Replaces
      <3>2. Ownership!Prove(k)
        BY <1>2, <2>2, <2>5, <3>1 DEF Ownership!Prove, Graded
      <3> QED
        BY <1>1, <3>2 DEF Ownership!TitleNext
    <2>6. CASE call[c].kind = "proof" /\ level = "provisional"
      <3>1. Graded' = Graded
        BY <1>2, <2>6
      <3> QED
        BY <2>2, <3>1
    <2> QED
      BY <1>1, <2>4, <2>5, <2>6
  <1>5. CASE OpenPeriod(c)
    <2>1. PartyFree /\ TitleOf' = Ownership!Title(k, level)
      BY <1>0, <1>5, CommitPeriods, LiveTitleNext DEF Ownership!Title
    <2>2. TitleOf.level = "none"
      BY <2>1, NoTitle
    <2>3. call[c].kind = "proof"
      BY <1>1, <2>1 DEF OwnershipInv, ClaimsBacked, Level
    <2>4. CASE level = "full"
      <3>1. Ownership!Prove(k)
        BY <1>2, <2>1, <2>2, <2>4 DEF Ownership!Prove, Graded
      <3> QED
        BY <1>1, <3>1 DEF Ownership!TitleNext
    <2>5. CASE level = "provisional"
      <3>1. Ownership!Support(k)
        BY <1>2, <2>1, <2>2, <2>5 DEF Ownership!Support, Graded
      <3> QED
        BY <1>1, <3>1 DEF Ownership!TitleNext
    <2> QED
      BY <1>1, <2>4, <2>5
  <1>6. CASE ReplacePeriod(c)
    <2>1. /\ call[c].seen \in Call /\ Active(call[c].seen) /\ level = "full"
          /\ TitleOf' = Ownership!Title(k, "full")
      BY <1>0, <1>6, CommitPeriods, LiveTitleNext DEF Ownership!Title
    <2>2. TitleOf.level = periods[call[c].seen].level
      BY <2>1, LiveTitle
    <2>3. CASE call[c].kind = "proof"
      <3>1. TitleOf.level # "full"
        BY <1>0, <1>6, <2>1, <2>2, <2>3 DEF ReplacePeriod, Replaces
      <3>2. Ownership!Prove(k)
        BY <1>2, <2>1, <3>1 DEF Ownership!Prove, Graded
      <3> QED
        BY <1>1, <3>2 DEF Ownership!TitleNext
    <2>4. CASE call[c].kind # "proof"
      <3>1. TitleOf.level = "full" /\ k \in Graded /\ Graded' = Graded
        BY <1>1, <1>2, <1>3, <2>1, <2>2, <2>4 DEF Graded
      <3>2. Ownership!Convert(k)
        BY <2>1, <3>1 DEF Ownership!Convert, Graded
      <3> QED
        BY <1>1, <3>2 DEF Ownership!TitleNext
    <2> QED
      BY <2>3, <2>4
  <1> QED
    BY <1>4, <1>5, <1>6 DEF Commit

LEMMA OthersKeepTitle ==
  ASSUME OwnershipInv, [Next]_vars, UNCHANGED periods, ~\E c \in Call : Commit(c)
  PROVE  UNCHANGED <<TitleOf, Graded>>
  <1>1. TitleOf' = TitleOf
    BY DEF TitleOf, LivePeriod, PartyFree, Active
  <1>2. CASE UNCHANGED claims
    BY <1>1, <1>2 DEF Graded
  <1>3. ASSUME NEW k \in Claim, NEW person \in Person, NEW self \in BOOLEAN,
               StartClaim(k, person, self)
        PROVE  Graded' = Graded
    <2>1. \A j \in Claim : claims'[j].graded <=> claims[j].graded
      BY <1>3, Types DEF StartClaim, OwnershipInv, ClaimsBacked
    <2> QED
      BY <2>1 DEF Graded
  <1>4. ASSUME NEW k \in Claim, NEW m \in Method, NEW now \in CallTimes(k),
               IssueChallenge(k, m, now)
        PROVE  Graded' = Graded
    <2>1. claims[k] \in ClaimRow
      BY Types
    <2>2. \A j \in Claim : claims'[j].graded <=> claims[j].graded
      BY <1>4, <2>1, Types DEF IssueChallenge, ClaimRow
    <2> QED
      BY <2>2 DEF Graded
  <1>5. CASE Tick \/ UNCHANGED vars
    BY <1>2, <1>5 DEF Tick, vars
  <1>6. ASSUME NEW k \in Claim, NEW m \in Method, NEW now \in CallTimes(k), ProofRefused(k, m, now)
        PROVE  UNCHANGED <<TitleOf, Graded>>
    BY <1>2, <1>6 DEF ProofRefused
  <1>7. ASSUME NEW k \in Claim, NEW now \in CallTimes(k), NEW c \in Call,
               \/ \E m \in Method : AcceptChallenge(c, k, m, now)
               \/ \E level \in Level : AcceptAttestation(c, k, level, now)
               \/ ConvertClaim(c, k, now)
        PROVE  UNCHANGED <<TitleOf, Graded>>
    BY <1>2, <1>7 DEF AcceptChallenge, AcceptAttestation, ConvertClaim, Begin
  <1>8. ASSUME NEW c \in Call, FindPeriod(c) \/ LockPeriod(c) \/ RollBack(c)
        PROVE  UNCHANGED <<TitleOf, Graded>>
    BY <1>2, <1>8 DEF FindPeriod, LockPeriod, RollBack
  <1> QED
    BY <1>1, <1>3, <1>4, <1>5, <1>6, <1>7, <1>8 DEF Next

\* The rows give a party an owner as OwnershipTitle does: the steps between
\* the locks of concurrent commands add up to single ones.
THEOREM ClaimsImplementTitle == Spec => ImplementsTitle
  <1>1. Init => Ownership!TitleInit
    <2> SUFFICES ASSUME Init PROVE Ownership!TitleInit
      OBVIOUS
    <2>1. PartyFree
      BY DEF Init, PartyFree, Active
    <2>2. Graded = {}
      BY DEF Init, Graded
    <2> QED
      BY <2>1, <2>2, NoTitle DEF Ownership!TitleInit, Ownership!Title
  <1>2. OwnershipInv /\ [Next]_vars => [Ownership!TitleNext]_(Ownership!titleVars)
    <2> SUFFICES ASSUME OwnershipInv, [Next]_vars
                 PROVE  Ownership!TitleNext \/ UNCHANGED Ownership!titleVars
      OBVIOUS
    <2>1. Ownership!titleVars = <<TitleOf, Graded>>
          /\ Ownership!titleVars' = <<TitleOf', Graded'>>
      BY DEF Ownership!titleVars, Graded
    <2>2. CASE \E c \in Call : Commit(c)
      BY <2>1, <2>2, CommitTitle
    <2>3. CASE ~\E c \in Call : Commit(c)
      BY <2>1, <2>3, OthersKeepTitle, OnlyCommitsChangePeriods
    <2> QED
      BY <2>2, <2>3
  <1> QED
    BY <1>1, <1>2, OwnershipInvariant, PTL DEF Spec, ImplementsTitle, Ownership!TitleSpec
-----------------------------------------------------------------------------
\* A transaction that grants control is a proof or a conversion, to its end.
KindNamed == \A c \in Call : ~At(c, "idle") => call[c].kind \in {"proof", "convert"}

\* A step of one call that keeps what it is, or ends it.
LEMMA KindMoves ==
  ASSUME OwnershipInv, KindNamed, NEW c \in Call,
         FindPeriod(c) \/ LockPeriod(c) \/ Commit(c) \/ RollBack(c)
  PROVE  KindNamed'
  <1>1. call[c] \in CallRecord /\ call \in [Call -> CallRecord]
    BY Types
  <1>2. \A d \in Call : d # c => call'[d] = call[d]
    BY <1>1 DEF FindPeriod, LockPeriod, Commit, RollBack
  <1>3. CASE FindPeriod(c) \/ LockPeriod(c)
    <2>1. call'[c].kind = call[c].kind
      BY <1>1, <1>3 DEF FindPeriod, LockPeriod, CallRecord
    <2>2. ~At(c, "idle")
      BY <1>3 DEF FindPeriod, LockPeriod, At
    <2> QED
      BY <1>2, <2>1, <2>2 DEF KindNamed, At
  <1>4. CASE Commit(c) \/ RollBack(c)
    <2>1. call'[c] = Idle
      BY <1>1, <1>4 DEF Commit, RollBack
    <2> QED
      BY <1>2, <2>1 DEF KindNamed, At, Idle
  <1> QED
    BY <1>3, <1>4

LEMMA KindBegins ==
  ASSUME OwnershipInv, KindNamed, NEW k \in Claim, NEW now \in CallTimes(k), NEW c \in Call,
         \/ \E m \in Method : AcceptChallenge(c, k, m, now)
         \/ \E level \in Level : AcceptAttestation(c, k, level, now)
         \/ ConvertClaim(c, k, now)
  PROVE  KindNamed'
  <1>1. PICK kind \in {"proof", "convert"}, m \in Method \union {"none"}, level \in Level :
               Begin(c, kind, k, m, level, now)
    BY DEF AcceptChallenge, AcceptAttestation, ConvertClaim, LevelOf, Level
  <1>2. call'[c].kind = kind /\ \A d \in Call : d # c => call'[d] = call[d]
    BY <1>1, Types DEF Begin
  <1> QED
    BY <1>2 DEF KindNamed, At

LEMMA KindKept == OwnershipInv /\ KindNamed /\ [Next]_vars => KindNamed'
  <1> SUFFICES ASSUME OwnershipInv, KindNamed, [Next]_vars PROVE KindNamed'
    OBVIOUS
  <1>1. CASE UNCHANGED call
    BY <1>1 DEF KindNamed, At
  <1>2. CASE Tick \/ UNCHANGED vars
    BY <1>1, <1>2 DEF Tick, vars
  <1>3. ASSUME NEW k \in Claim, NEW person \in Person, NEW self \in BOOLEAN,
               StartClaim(k, person, self)
        PROVE  KindNamed'
    BY <1>1, <1>3 DEF StartClaim
  <1>4. ASSUME NEW k \in Claim, NEW now \in CallTimes(k), NEW m \in Method,
               IssueChallenge(k, m, now) \/ ProofRefused(k, m, now)
        PROVE  KindNamed'
    BY <1>1, <1>4 DEF IssueChallenge, ProofRefused
  <1> QED
    BY <1>2, <1>3, <1>4, KindBegins, KindMoves DEF Next

\* Full control of a party, once a claim has it, ends only in a conversion that
\* had locked its very period: a proof of a rival claim keeps the period, and
\* the exclusion constraint leaves no other way to insert one.
LEMMA FullMoves ==
  ASSUME OwnershipInv, KindNamed, [Next]_vars, NEW p \in Call, Active(p),
         periods[p].level = "full", periods'[p] # periods[p]
  PROVE  \E c \in Call :
           /\ At(c, "decided") /\ call[c].kind = "convert" /\ call[c].seen = p
           /\ periods'[c].state = "active" /\ periods'[c].level = "full"
  <1>1. PICK c \in Call : Commit(c)
    BY OnlyCommitsChangePeriods
  <1>2. At(c, "decided")
    BY <1>1 DEF Commit
  <1>3. p # c
    BY <1>1, CommitClaims DEF Active
  <1>4. ReplacePeriod(c)
    <2>1. ~KeepPeriod(c)
      BY DEF KeepPeriod
    <2>2. ~OpenPeriod(c)
      BY DEF OpenPeriod, NoOverlap, PartyFree
    <2> QED
      BY <1>1, <2>1, <2>2 DEF Commit
  <1>5. call[c].seen = p /\ periods'[c].state = "active" /\ periods'[c].level = "full"
    BY <1>1, <1>3, <1>4, CommitPeriods
  <1>6. call[c].kind # "proof"
    BY <1>4, <1>5 DEF ReplacePeriod, Replaces
  <1>7. call[c].kind = "convert"
    BY <1>2, <1>6 DEF KindNamed, At
  <1> QED
    BY <1>2, <1>5, <1>7

\* rpc_submit_claim_proof never takes full control from its holder, however
\* strong the proof and however late it commits: rpc_convert_claim alone does.
THEOREM FullControlIsConverted == Spec => FullControlMovesByConversion
  <1>1. Init => OwnershipInv /\ KindNamed
    BY InitInv DEF Init, KindNamed, At, Idle
  <1>2. OwnershipInv /\ KindNamed /\ [Next]_vars => (OwnershipInv /\ KindNamed)'
    BY NextKeeps, KindKept
  <1>3. OwnershipInv /\ KindNamed /\ [Next]_vars =>
          [\A p \in Call : Active(p) /\ periods[p].level = "full" /\ periods'[p] # periods[p] =>
             \E c \in Call :
               /\ At(c, "decided") /\ call[c].kind = "convert" /\ call[c].seen = p
               /\ periods'[c].state = "active" /\ periods'[c].level = "full"]_vars
    BY FullMoves
  <1> QED
    BY <1>1, <1>2, <1>3, PTL DEF Spec, FullControlMovesByConversion
=============================================================================
