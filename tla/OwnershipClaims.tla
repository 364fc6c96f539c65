--------------------------- MODULE OwnershipClaims ---------------------------
(***************************************************************************)
(* Claims on the ownership of one party: claim_cases, their challenges and *)
(* proofs, and the party's dated ownership periods, behind the profile     *)
(* commands that start a claim, issue a challenge, submit a proof and      *)
(* convert a claim.  Claims on another party touch none of these rows.     *)
(*                                                                         *)
(* Every command locks its claim row to the end of its transaction.  The   *)
(* party itself is not locked, so commands on two claims of a party meet   *)
(* only at the period: SELECT ... FOR UPDATE waits for its row and then    *)
(* finds none if it has ended, the exclusion constraint admits one live    *)
(* period, and now_at was taken before any of these waits.                 *)
(*                                                                         *)
(* A call whose version is not its claim's is refused and changes nothing; *)
(* one that is served read a version that is still current, so it began    *)
(* after the claim last changed (`since').  No function of the program     *)
(* opens a contest, so the guards that ask for one always pass.            *)
(***************************************************************************)
EXTENDS Integers

CONSTANTS Claim, Person,
          Method,      \* ways to prove a claim
          FullMethod,  \* those of tier A, which alone give full control
          Call,        \* transactions in flight; at most one period each
          Nothing,     \* SQL null
          MaxTime,     \* bound: the clock
          MaxGuesses,  \* attempts at a challenge (5)
          Lifetime     \* of a challenge (15 minutes)

ASSUME OwnershipAssumption ==
  /\ Nothing \notin Claim \union Person \union Call
  /\ "none" \notin Method
  /\ MaxTime \in Nat
  /\ MaxGuesses \in Nat \ {0}
  /\ Lifetime \in Nat \ {0}

VARIABLES
  clock,
  claims,      \* claims[k]: the row of claim_cases, and whether a proof of full grade was accepted
  challenges,  \* challenges[k][m]: the pending challenge of claim k by method m, if any
  periods,     \* periods[c]: the ownership period call c inserted
  call         \* call[c]: a submit or a convert that grants control

vars == <<clock, claims, challenges, periods, call>>

Level == {"provisional", "full"}
Time == 0..MaxTime

ClaimRow == [state : {"absent", "started", "proving"} \union Level, graded : BOOLEAN, self : BOOLEAN,
             claimant : Person \union {Nothing}, since : Time]
Challenge == [pending : BOOLEAN, guesses : 0..MaxGuesses, expires : Nat]
Period == [state : {"none", "active", "ended"}, claim : Claim \union {Nothing},
           level : Level \union {"none"}, from : Time, to : Time]
CallRecord == [at : {"idle", "granted", "waiting", "decided"}, kind : {"none", "proof", "convert"},
               claim : Claim \union {Nothing}, method : Method \union {"none"},
               level : Level \union {"none"}, now : Time, seen : Call \union {Nothing}]

TypeOK ==
  /\ clock \in Time
  /\ claims \in [Claim -> ClaimRow]
  /\ challenges \in [Claim -> [Method -> Challenge]]
  /\ periods \in [Call -> Period]
  /\ call \in [Call -> CallRecord]

\* Rejected, expired or accepted: never pending again.
Closed == [pending |-> FALSE, guesses |-> 0, expires |-> 0]

Idle == [at |-> "idle", kind |-> "none", claim |-> Nothing, method |-> "none",
         level |-> "none", now |-> 0, seen |-> Nothing]

Init ==
  /\ clock = 0
  /\ claims = [k \in Claim |-> [state |-> "absent", graded |-> FALSE, self |-> FALSE,
                                claimant |-> Nothing, since |-> 0]]
  /\ challenges = [k \in Claim |-> [m \in Method |-> Closed]]
  /\ periods = [c \in Call |-> [state |-> "none", claim |-> Nothing, level |-> "none",
                                from |-> 0, to |-> 0]]
  /\ call = [c \in Call |-> Idle]

Tick ==
  /\ clock < MaxTime
  /\ clock' = clock + 1
  /\ UNCHANGED <<claims, challenges, periods, call>>

At(c, pc) == call[c].at = pc
Locked(k) == \E c \in Call : call[c].claim = k

\* When a call that is served at claim k now may have taken its now_at.
CallTimes(k) == claims[k].since..clock

-----------------------------------------------------------------------------
\* rpc_start_claim: one live self claim per claimant, under the party's lock.
StartClaim(k, person, self) ==
  /\ claims[k].state = "absent"
  /\ self => \A j \in Claim : ~(claims[j].self /\ claims[j].claimant = person)
  /\ claims' = [claims EXCEPT ![k] = [state |-> "started", graded |-> FALSE, self |-> self,
                                      claimant |-> person, since |-> clock]]
  /\ UNCHANGED <<clock, challenges, periods, call>>

Live(k, m, now) == challenges[k][m].pending /\ challenges[k][m].expires > now

\* rpc_issue_claim_challenge: a pending challenge that is over is replaced.
IssueChallenge(k, m, now) ==
  /\ ~Locked(k)
  /\ claims[k].state \in {"started", "proving"}
  /\ ~Live(k, m, now)
  /\ challenges' = [challenges EXCEPT ![k][m] =
       [pending |-> TRUE, guesses |-> 0, expires |-> now + Lifetime]]
  /\ claims' = [claims EXCEPT ![k].state = "proving", ![k].since = clock]
  /\ UNCHANGED <<clock, periods, call>>

Provable(k) == ~Locked(k) /\ claims[k].state \in {"proving", "provisional"}

\* rpc_submit_claim_proof of a challenge that has expired, or with a wrong
\* code: the attempt is committed, the claim does not change.
ProofRefused(k, m, now) ==
  /\ Provable(k)
  /\ challenges[k][m].pending
  /\ challenges' = [challenges EXCEPT ![k][m] =
       IF Live(k, m, now) /\ @.guesses + 1 < MaxGuesses
       THEN [@ EXCEPT !.guesses = challenges[k][m].guesses + 1]
       ELSE Closed]
  /\ UNCHANGED <<clock, claims, periods, call>>

-----------------------------------------------------------------------------
\* Transactions that grant control.  A call inserts one period at most.

Begin(c, kind, k, m, level, now) ==
  /\ At(c, "idle") /\ periods[c].state = "none"
  /\ call' = [call EXCEPT ![c] = [at |-> "granted", kind |-> kind, claim |-> k, method |-> m,
                                  level |-> level, now |-> now, seen |-> Nothing]]
  /\ UNCHANGED <<clock, claims, challenges, periods>>

LevelOf(m) == IF m \in FullMethod THEN "full" ELSE "provisional"

\* rpc_submit_claim_proof: the right code, or the provider's event, for a live
\* challenge; its tier decides the level.
AcceptChallenge(c, k, m, now) ==
  /\ Provable(k)
  /\ Live(k, m, now)
  /\ Begin(c, "proof", k, m, LevelOf(m), now)

\* ... or attesters, two of tier B being as good as tier A.
AcceptAttestation(c, k, level, now) ==
  /\ Provable(k)
  /\ Begin(c, "proof", k, "none", level, now)

\* rpc_convert_claim.
ConvertClaim(c, k, now) ==
  /\ ~Locked(k)
  /\ claims[k].state \in Level
  /\ claims[k].graded
  /\ Begin(c, "convert", k, "none", "full", now)

Active(p) == periods[p].state = "active"

\* select ... where state = 'active' ... for update: the row its snapshot has,
FindPeriod(c) ==
  /\ At(c, "granted")
  /\ IF \E p \in Call : Active(p)
       THEN \E p \in Call : Active(p) /\ call' = [call EXCEPT ![c].at = "waiting", ![c].seen = p]
       ELSE call' = [call EXCEPT ![c].at = "decided"]
  /\ UNCHANGED <<clock, claims, challenges, periods>>

\* once nobody else holds it, if it is still active, or none.
LockPeriod(c) ==
  /\ At(c, "waiting")
  /\ ~\E d \in Call : At(d, "decided") /\ call[d].seen = call[c].seen
  /\ call' = [call EXCEPT ![c].at = "decided",
                          ![c].seen = IF Active(@) THEN @ ELSE Nothing]
  /\ UNCHANGED <<clock, claims, challenges, periods>>

\* Mutant: a proof closes any period of another level.
ReplacesOtherLevel(c) ==
  LET period == periods[call[c].seen]
  IN  IF call[c].kind = "proof"
        THEN period.level # call[c].level
        ELSE period.level # "full" \/ claims[period.claim].claimant # claims[call[c].claim].claimant

\* Whether the period in force gives way: to a proof, a provisional one to full
\* control; to a conversion, also a full one of somebody else.
Replaces(c) ==
  LET period == periods[call[c].seen]
  IN  IF call[c].kind = "proof"
        THEN period.level # call[c].level /\ call[c].level = "full"
        ELSE period.level # "full" \/ claims[period.claim].claimant # claims[call[c].claim].claimant

PartyFree == ~\E p \in Call : Active(p)

\* Mutant: a table without its exclusion constraint.
Unconstrained == TRUE

\* The exclusion constraint on live periods.
NoOverlap == PartyFree

\* Mutant: a period that may end before it started.
AnyOrder(c) == TRUE

\* The check ends_at > starts_at, with this call's now_at.
InOrder(c) == call[c].now > periods[call[c].seen].from

NewPeriod(c) == [state |-> "active", claim |-> call[c].claim, level |-> call[c].level,
                 from |-> call[c].now, to |-> 0]

KeepPeriod(c) ==
  /\ call[c].seen # Nothing /\ ~Replaces(c)
  /\ UNCHANGED periods

OpenPeriod(c) ==
  /\ call[c].seen = Nothing /\ NoOverlap
  /\ periods' = [periods EXCEPT ![c] = NewPeriod(c)]

ReplacePeriod(c) ==
  /\ call[c].seen # Nothing /\ Replaces(c) /\ InOrder(c)
  /\ periods' = [periods EXCEPT ![call[c].seen].state = "ended", ![call[c].seen].to = call[c].now,
                                ![c] = NewPeriod(c)]

\* Proof, claim and period are committed together.
Commit(c) ==
  LET k == call[c].claim
      m == call[c].method
  IN  /\ At(c, "decided")
      /\ KeepPeriod(c) \/ OpenPeriod(c) \/ ReplacePeriod(c)
      /\ claims' = IF call[c].kind = "convert" /\ claims[k].state = "full" THEN claims
                   ELSE [claims EXCEPT ![k].state = call[c].level, ![k].since = clock,
                                       ![k].graded = @ \/ call[c].level = "full"]
      /\ challenges' = IF m = "none" THEN challenges
                       ELSE [challenges EXCEPT ![k][m] = Closed]
      /\ call' = [call EXCEPT ![c] = Idle]
      /\ UNCHANGED clock

\* A constraint raises, or the connection is lost: nothing of it remains.
RollBack(c) ==
  /\ ~At(c, "idle")
  /\ call' = [call EXCEPT ![c] = Idle]
  /\ UNCHANGED <<clock, claims, challenges, periods>>

Next ==
  \/ Tick
  \/ \E k \in Claim :
       \/ \E person \in Person, self \in BOOLEAN : StartClaim(k, person, self)
       \/ \E now \in CallTimes(k) :
            \/ \E m \in Method : IssueChallenge(k, m, now) \/ ProofRefused(k, m, now)
            \/ \E c \in Call :
                 \/ \E m \in Method : AcceptChallenge(c, k, m, now)
                 \/ \E level \in Level : AcceptAttestation(c, k, level, now)
                 \/ ConvertClaim(c, k, now)
  \/ \E c \in Call : FindPeriod(c) \/ LockPeriod(c) \/ Commit(c) \/ RollBack(c)

Spec == Init /\ [][Next]_vars

-----------------------------------------------------------------------------
Before(p, q) == periods[p].state = "ended" /\ periods[p].to <= periods[q].from

\* The ownership history of the party has neither gaps nor overlaps, whatever
\* calls with whatever now_at wait for each other: a period ends when and only
\* when the next one starts, and no two cover one moment.
HistoryUnbroken ==
  \A p \in Call : periods[p].state # "none" =>
    /\ \A q \in Call : periods[q].state # "none" /\ p # q => Before(p, q) \/ Before(q, p)
    /\ periods[p].state = "ended" =>
         /\ periods[p].from < periods[p].to
         /\ \E q \in Call : periods[q].state # "none" /\ periods[q].from = periods[p].to

\* Who has full control keeps it, level and all, until another claim is converted
\* in its place: no proof, however strong or however late it commits, moves it.
FullControlMovesByConversion ==
  [][\A p \in Call : Active(p) /\ periods[p].level = "full" /\ periods'[p] # periods[p] =>
       \E c \in Call :
         /\ At(c, "decided") /\ call[c].kind = "convert" /\ call[c].seen = p
         /\ periods'[c].state = "active" /\ periods'[c].level = "full"]_vars

\* The live period and the claims agree: any claim with control means that the
\* party has an owner, any proven claim that it has one in full.
ClaimsBacked ==
  \A k \in Claim :
    /\ claims[k].state = "full" <=> claims[k].graded
    /\ claims[k].state \in Level => ~PartyFree
    /\ claims[k].graded => \A p \in Call : Active(p) => periods[p].level = "full"

\* One live period, held by a claim that is in its level.
PeriodsBacked ==
  /\ \A p, q \in Call : Active(p) /\ Active(q) => p = q
  /\ \A p \in Call : periods[p].state # "none" =>
       /\ periods[p].claim \in Claim /\ periods[p].level \in Level
       /\ periods[p].from <= clock
       /\ ~PartyFree
       /\ Active(p) => claims[periods[p].claim].state = periods[p].level

\* One live self claim per claimant.
SelfClaimsUnique ==
  \A j, k \in Claim :
    claims[j].self /\ claims[k].self /\ claims[j].claimant = claims[k].claimant => j = k

\* What a transaction knows until it ends: its claim, its challenge and the
\* period it locked are as it found them.
CallOK(c) ==
  LET x == call[c]
  IN  /\ At(c, "idle") <=> x.claim = Nothing
      /\ x.now <= clock
      /\ ~At(c, "idle") =>
           /\ periods[c].state = "none" /\ x.level \in Level
           /\ x.kind = "proof" => claims[x.claim].state \in {"proving", "provisional"}
           /\ x.kind # "proof" => claims[x.claim].graded /\ x.level = "full" /\ x.method = "none"
           /\ x.method # "none" => challenges[x.claim][x.method].pending
      /\ At(c, "granted") => x.seen = Nothing
      /\ At(c, "waiting") => x.seen # Nothing
      /\ At(c, "decided") /\ x.seen # Nothing => Active(x.seen)

CallsDisjoint ==
  \A c, d \in Call : c # d =>
    /\ call[c].claim = call[d].claim => call[c].claim = Nothing
    /\ At(c, "decided") /\ At(d, "decided") /\ call[c].seen = call[d].seen => call[c].seen = Nothing

\* Between any two statements of any transactions, claims, proofs, periods and
\* locks tell one story (and have their types).
OwnershipInv ==
  /\ TypeOK
  /\ ClaimsBacked
  /\ PeriodsBacked
  /\ SelfClaimsUnique
  /\ \A c \in Call : CallOK(c)
  /\ CallsDisjoint

\* The rows behave as OwnershipTitle says: control never lapses or weakens, and
\* full control changes hands only by the conversion of a proven claim.
LivePeriod == CHOOSE p \in Call : Active(p)
TitleOf == IF PartyFree THEN [claim |-> Nothing, level |-> "none"]
           ELSE [claim |-> periods[LivePeriod].claim, level |-> periods[LivePeriod].level]
Graded == {k \in Claim : claims[k].graded}
Ownership == INSTANCE OwnershipTitle WITH title <- TitleOf, proven <- Graded
ImplementsTitle == Ownership!TitleSpec
=============================================================================
