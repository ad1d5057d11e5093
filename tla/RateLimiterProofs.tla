------------------------- MODULE RateLimiterProofs --------------------------
(***************************************************************************)
(* The limiter implements a token bucket for any number of clients, any    *)
(* rate, burst, time to live and sweep interval, whether or not a bucket   *)
(* old enough to be discarded has had the time to fill up.                 *)
(***************************************************************************)
EXTENDS RateLimiter, TLAPS

LEMMA SweptType ==
  ASSUME TypeOK, SweepInv
  PROVE  /\ AfterSweep \in [Clients -> Bucket \cup {None}]
         /\ \A c \in Clients : AfterSweep[c] # None =>
              /\ AfterSweep[c] = buckets[c] /\ AfterSweep[c] \in Bucket
              /\ AfterSweep[c].lastSeen <= now /\ AfterSweep[c].lastSeen = seen[c]
              /\ (IF SweepDue THEN now ELSE lastSweep) - AfterSweep[c].lastSeen <= IdleTTL
         /\ \A c \in Clients : AfterSweep[c] = None /\ buckets[c] # None =>
              now - buckets[c].lastSeen > IdleTTL
<1>1. CASE SweepDue
  <2>1. AfterSweep = Swept(buckets)
    BY <1>1 DEF AfterSweep
  <2> QED
    BY <1>1, <2>1, LimiterAssumption DEF Swept, TypeOK, SweepInv, Bucket
<1>2. CASE ~SweepDue
  <2>1. AfterSweep = buckets
    BY <1>2 DEF AfterSweep
  <2> QED
    BY <1>2, <2>1, LimiterAssumption DEF TypeOK, SweepInv, Bucket
<1> QED BY <1>1, <1>2

LEMMA RefilledType ==
  ASSUME NEW b \in Bucket, now \in Nat, b.lastSeen <= now
  PROVE  Refilled(b) \in 0..Cap
BY LimiterAssumption DEF Bucket, Refilled, AtMost

LEMMA RetryAfterType ==
  ASSUME NEW t \in 0..Cap, t < Cost, now \in Nat
  PROVE  now + RetryAfter(t) * Second \in Nat
<1> DEFINE x == IF Cost - t < Second THEN Second ELSE Cost - t
           q == x \div Second
<1>1. x \in Nat
  BY LimiterAssumption
<1>2. q \in Nat
  <2> HIDE DEF x
  <2> QED BY <1>1, LimiterAssumption
<1>3. q * Second \in Nat
  <2> HIDE DEF q
  <2> QED BY <1>2, LimiterAssumption
<1>4. RetryAfter(t) = q
  BY DEF RetryAfter
<1> HIDE DEF q
<1> QED BY <1>3, <1>4

LEMMA StepInv ==
  ASSUME TypeOK, SweepInv, [Next]_vars
  PROVE  TypeOK' /\ SweepInv'
<1>1. CASE UNCHANGED vars
  BY <1>1 DEF TypeOK, SweepInv, vars
<1>2. CASE Tick
  BY <1>2, LimiterAssumption DEF TypeOK, SweepInv, Tick, Bucket
<1>3. ASSUME NEW c \in Clients, Allow(c)
      PROVE  TypeOK' /\ SweepInv'
  <2> DEFINE bs == AfterSweep
             sw == IF SweepDue THEN now ELSE lastSweep
  <2>1. /\ bs \in [Clients -> Bucket \cup {None}]
        /\ \A d \in Clients : bs[d] # None =>
             /\ bs[d] \in Bucket /\ bs[d].lastSeen <= now /\ bs[d].lastSeen = seen[d]
             /\ sw - bs[d].lastSeen <= IdleTTL
    BY SweptType
  <2>2. /\ lastSweep' = sw /\ sw \in Nat /\ sw <= now /\ now' = now /\ now \in Nat
        /\ seen' = [seen EXCEPT ![c] = now] /\ seen \in [Clients -> Nat]
    BY <1>3 DEF Allow, TypeOK, SweepInv
  <2>3. PICK n \in 0..Cap : buckets' = [bs EXCEPT ![c] = [tokens |-> n, lastSeen |-> now]]
    <3>1. CASE bs[c] = None
      <4>1. Cap - Cost \in 0..Cap
        BY LimiterAssumption
      <4>2. buckets' = [bs EXCEPT ![c] = [tokens |-> Cap - Cost, lastSeen |-> now]]
        BY <1>3, <3>1 DEF Allow, Admit
      <4> QED BY <4>1, <4>2
    <3>2. CASE bs[c] # None
      <4>1. Refilled(bs[c]) \in 0..Cap
        BY <2>1, <2>2, <3>2, RefilledType
      <4> HIDE DEF bs
      <4>2. bs = AfterSweep
        BY DEF bs
      <4> QED BY <1>3, <3>2, <4>1, <4>2, LimiterAssumption DEF Allow, Admit, Refuse
    <3> QED BY <3>1, <3>2
  <2>4. /\ verdict' \in [Clients -> {"none", "admitted", "refused"}]
        /\ spent' \in [Clients -> Nat]
    BY <1>3, LimiterAssumption DEF Allow, Admit, Refuse, TypeOK
  <2>5. promise' \in [Clients -> Nat \cup {None}]
    <3>1. CASE bs[c] # None /\ Refilled(bs[c]) < Cost
      <4>1. Refilled(bs[c]) \in 0..Cap
        BY <2>1, <2>2, <3>1, RefilledType
      <4>2. now + RetryAfter(Refilled(bs[c])) * Second \in Nat
        BY <2>2, <3>1, <4>1, RetryAfterType
      <4>3. promise' = [promise EXCEPT ![c] = now + RetryAfter(Refilled(bs[c])) * Second]
        BY <1>3, <3>1, <4>1, LimiterAssumption DEF Allow, Refuse
      <4> QED BY <4>2, <4>3 DEF TypeOK
    <3>2. CASE ~(bs[c] # None /\ Refilled(bs[c]) < Cost)
      BY <1>3, <3>2 DEF Allow, Admit, TypeOK
    <3> QED BY <3>1, <3>2
  <2> HIDE DEF bs, sw
  <2>6. buckets' \in [Clients -> Bucket \cup {None}]
    BY <2>1, <2>2, <2>3 DEF Bucket
  <2>7. SweepInv'
    BY <2>1, <2>2, <2>3, LimiterAssumption DEF SweepInv, Bucket
  <2> QED BY <2>2, <2>4, <2>5, <2>6, <2>7 DEF TypeOK
<1> QED BY <1>1, <1>2, <1>3 DEF Next

(* Buckets are well formed, and one that survived the last sweep had been  *)
(* idle no longer than its time to live.                                   *)
THEOREM LimiterInvariance == Spec => [](TypeOK /\ SweepInv)
<1>1. Init => TypeOK /\ SweepInv
  BY LimiterAssumption DEF Init, TypeOK, SweepInv
<1>2. TypeOK /\ SweepInv /\ [Next]_vars => (TypeOK /\ SweepInv)'
  BY StepInv
<1> QED BY <1>1, <1>2, PTL DEF Spec

LEMMA TypedLevel ==
  ASSUME TypeOK, SweepInv, NEW c \in Clients
  PROVE  LevelOf(c) \in 0..Cap
<1>1. CASE buckets[c] = None
  BY <1>1, LimiterAssumption DEF LevelOf
<1>2. CASE buckets[c] # None
  <2>1. buckets[c] \in Bucket /\ buckets[c].lastSeen <= now /\ now \in Nat
    BY <1>2 DEF TypeOK, SweepInv
  <2> QED BY <1>2, <2>1, RefilledType DEF LevelOf
<1> QED BY <1>1, <1>2

\* The clients whose buckets a sweep discards now.
Discarded == {c \in Clients : buckets[c] # None /\ AfterSweep[c] = None}

\* The levels a decision starts from.
SweptLevel(c) == IF c \in Discarded THEN Cap ELSE LevelOf(c)

\* A sweep changes the level of a client only if it has been away for long.
LEMMA SweepForgets ==
  ASSUME TypeOK, SweepInv, NEW c \in Clients
  PROVE  /\ SweptLevel(c) = IF AfterSweep[c] = None THEN Cap ELSE Refilled(AfterSweep[c])
         /\ SweptLevel(c) \in 0..Cap
         /\ c \in Discarded => now - seen[c] > IdleTTL
<1>1. CASE AfterSweep[c] # None
  <2>1. c \notin Discarded /\ AfterSweep[c] = buckets[c]
    BY <1>1, SweptType DEF Discarded
  <2> QED BY <1>1, <2>1, TypedLevel DEF SweptLevel, LevelOf
<1>2. CASE AfterSweep[c] = None /\ buckets[c] = None
  BY <1>2, TypedLevel DEF SweptLevel, LevelOf, Discarded
<1>3. CASE AfterSweep[c] = None /\ buckets[c] # None
  <2>1. now - buckets[c].lastSeen > IdleTTL /\ buckets[c].lastSeen = seen[c]
    BY <1>3, SweptType DEF SweepInv
  <2> QED BY <1>3, <2>1, LimiterAssumption DEF SweptLevel, Discarded
<1> QED BY <1>1, <1>2, <1>3

\* Filling lazily by one more tick is filling by one unit.
LEMMA TickFills ==
  ASSUME TypeOK, SweepInv, Tick, NEW c \in Clients
  PROVE  LevelOf(c)' = IF LevelOf(c) < Cap THEN LevelOf(c) + 1 ELSE Cap
<1>1. CASE buckets[c] = None
  BY <1>1, LimiterAssumption DEF LevelOf, Tick, Refilled, AtMost
<1>2. CASE buckets[c] # None
  <2>1. buckets[c] \in Bucket /\ buckets[c].lastSeen <= now /\ now \in Nat
    BY <1>2 DEF TypeOK, SweepInv
  <2> QED BY <1>2, <2>1, LimiterAssumption DEF LevelOf, Tick, Refilled, AtMost, Bucket
<1> QED BY <1>1, <1>2

\* A decision about one client, on top of the sweep.
LEMMA AllowLevels ==
  ASSUME TypeOK, SweepInv, NEW c \in Clients, NEW n \in 0..Cap, now' = now,
         buckets' = [AfterSweep EXCEPT ![c] = [tokens |-> n, lastSeen |-> now]]
  PROVE  \A d \in Clients : LevelOf(d)' = IF d = c THEN n ELSE SweptLevel(d)
<1>1. AfterSweep \in [Clients -> Bucket \cup {None}] /\ now \in Nat
  BY SweptType DEF TypeOK
<1>2. LevelOf(c)' = n
  <2>1. buckets'[c] = [tokens |-> n, lastSeen |-> now]
    BY <1>1
  <2>2. buckets'[c] # None
    BY <1>1, <2>1, LimiterAssumption
  <2> QED BY <1>1, <2>1, <2>2, LimiterAssumption DEF LevelOf, Refilled, AtMost
<1>3. ASSUME NEW d \in Clients, d # c
      PROVE  LevelOf(d)' = SweptLevel(d)
  <2>1. buckets'[d] = AfterSweep[d]
    BY <1>1, <1>3
  <2>2. LevelOf(d)' = IF AfterSweep[d] = None THEN Cap ELSE Refilled(AfterSweep[d])
    BY <2>1 DEF LevelOf, Refilled
  <2> QED BY <2>2, SweepForgets
<1> QED BY <1>2, <1>3

\* What a decision does, in terms of levels.
LEMMA AllowDecides ==
  ASSUME TypeOK, SweepInv, NEW c \in Clients, Allow(c)
  PROVE  \/ /\ SweptLevel(c) >= Cost /\ Admit(c, AfterSweep, SweptLevel(c) - Cost)
            /\ \A d \in Clients : LevelOf(d)' = IF d = c THEN SweptLevel(c) - Cost
                                                         ELSE SweptLevel(d)
         \/ /\ SweptLevel(c) < Cost /\ Refuse(c, AfterSweep, SweptLevel(c))
            /\ \A d \in Clients : LevelOf(d)' = SweptLevel(d)
<1> DEFINE l == SweptLevel(c)
<1>1. l \in 0..Cap /\ now' = now
  BY SweepForgets DEF Allow
<1>2. l = IF AfterSweep[c] = None THEN Cap ELSE Refilled(AfterSweep[c])
  BY SweepForgets
<1> HIDE DEF l
<1>3. CASE l >= Cost
  <2>1. Admit(c, AfterSweep, l - Cost)
    BY <1>1, <1>2, <1>3, LimiterAssumption DEF Allow
  <2>2. l - Cost \in 0..Cap
    BY <1>1, <1>3, LimiterAssumption
  <2>3. \A d \in Clients : LevelOf(d)' = IF d = c THEN l - Cost ELSE SweptLevel(d)
    BY <1>1, <2>1, <2>2, AllowLevels DEF Admit
  <2> QED BY <1>3, <2>1, <2>3 DEF l
<1>4. CASE l < Cost
  <2>1. Refuse(c, AfterSweep, l)
    BY <1>1, <1>2, <1>4, LimiterAssumption DEF Allow
  <2>2. \A d \in Clients : LevelOf(d)' = IF d = c THEN l ELSE SweptLevel(d)
    BY <1>1, <2>1, AllowLevels DEF Refuse
  <2> QED BY <1>4, <2>1, <2>2 DEF l
<1> QED BY <1>1, <1>3, <1>4, LimiterAssumption

LEMMA StepRefines ==
  ASSUME TypeOK, SweepInv, [Next]_vars
  PROVE  [TB!TBNext]_(TB!tbVars)
<1>1. CASE UNCHANGED vars
  BY <1>1 DEF vars, TB!tbVars, LevelOf, Refilled
<1>2. CASE Tick
  <2>1. \A c \in Clients : LevelOf(c)' = IF LevelOf(c) < Cap THEN LevelOf(c) + 1 ELSE Cap
    BY <1>2, TickFills
  <2> QED BY <1>2, <2>1 DEF Tick, TB!TBNext, TB!TBTick
<1>3. ASSUME NEW c \in Clients, Allow(c)
      PROVE  TB!TBNext
  <2>1. Discarded \in SUBSET TB!Forgettable
    BY SweepForgets DEF Discarded, TB!Forgettable
  <2>2. TB!Forgotten(Discarded) = [d \in Clients |-> SweptLevel(d)]
    BY DEF TB!Forgotten, SweptLevel
  <2>3. now' = now /\ seen' = [seen EXCEPT ![c] = now]
    BY <1>3 DEF Allow
  <2>4. CASE /\ SweptLevel(c) >= Cost /\ Admit(c, AfterSweep, SweptLevel(c) - Cost)
             /\ \A d \in Clients : LevelOf(d)' = IF d = c THEN SweptLevel(c) - Cost
                                                          ELSE SweptLevel(d)
    <3>1. [d \in Clients |-> LevelOf(d)]' =
            [[d \in Clients |-> SweptLevel(d)] EXCEPT ![c] = @ - Cost]
      BY <2>4
    <3>2. TB!TBAdmit(c, Discarded)
      BY <2>2, <2>3, <2>4, <3>1 DEF TB!TBAdmit, Admit
    <3> QED BY <2>1, <3>2 DEF TB!TBNext
  <2>5. CASE /\ SweptLevel(c) < Cost /\ Refuse(c, AfterSweep, SweptLevel(c))
             /\ \A d \in Clients : LevelOf(d)' = SweptLevel(d)
    <3>1. TB!TBRefuse(c, Discarded)
      BY <2>2, <2>3, <2>5 DEF TB!TBRefuse, Refuse
    <3> QED BY <2>1, <3>1 DEF TB!TBNext
  <2> QED BY <1>3, <2>4, <2>5, AllowDecides
<1> QED BY <1>1, <1>2, <1>3 DEF Next

(* To its clients the limiter is a token bucket, for every rate, burst and *)
(* time to live that configuration accepts: lazy refilling cannot be       *)
(* observed, and sweeps of idle buckets only by a client that stayed away  *)
(* for longer than the time to live.                                       *)
THEOREM LimiterIsTokenBucket == Spec => IsTokenBucket
<1>1. Init => TB!TBInit
  BY LimiterAssumption DEF Init, TB!TBInit, LevelOf
<1>2. TypeOK /\ SweepInv /\ [Next]_vars => [TB!TBNext]_(TB!tbVars)
  BY StepRefines
<1> QED BY <1>1, <1>2, LimiterInvariance, PTL DEF Spec, IsTokenBucket, TB!TBSpec

-----------------------------------------------------------------------------
(* The rate.                                                               *)

TTL == IdleTTL + 1

\* The time up to which the gifts of sweeps to a client are accounted for.
Anchor(c) == IF buckets[c] = None THEN now ELSE buckets[c].lastSeen

\* What a client has been admitted for and could still be admitted for is
\* never more than a full bucket, everything refilled since the start and one
\* shortfall for each TTL ticks up to the anchor.
Excess(c) == spent[c] + LevelOf(c) - Cap - now
Conserved == \A c \in Clients : Excess(c) * TTL <= Shortfall * Anchor(c)

LEMMA ShortfallFacts ==
  TTL \in Nat \ {0} /\ Shortfall \in Nat /\ TTL + Shortfall >= Cap
  BY LimiterAssumption DEF TTL, Shortfall

LEMMA TimesMonotone ==
  ASSUME NEW k \in Nat, NEW a \in Int, NEW b \in Int, a <= b
  PROVE  a * k <= b * k /\ k * a <= k * b
<1>1. PICK e \in Nat : b = a + e
  BY b - a \in Nat
<1>2. e * k \in Nat /\ b * k = a * k + e * k /\ k * b = k * a + e * k
  BY <1>1
<1> QED BY <1>2

\* Less excess and a later anchor keep the account.
LEMMA StillConserved ==
  ASSUME NEW x \in Int, NEW y \in Int, NEW a \in Nat, NEW b \in Nat,
         x * TTL <= Shortfall * a, y <= x, a <= b
  PROVE  y * TTL <= Shortfall * b
<1>1. y * TTL <= x * TTL /\ Shortfall * a <= Shortfall * b
  BY ShortfallFacts, TimesMonotone
<1>2. x * TTL \in Int /\ y * TTL \in Int /\ Shortfall * a \in Int /\ Shortfall * b \in Int
  BY ShortfallFacts
<1> QED BY <1>1, <1>2

\* A sweep gives away at most a shortfall, for at least TTL ticks of absence.
LEMMA GiftConserved ==
  ASSUME NEW x \in Int, NEW y \in Int, NEW a \in Nat, NEW b \in Nat,
         x * TTL <= Shortfall * a, y <= x + Shortfall, a + TTL <= b
  PROVE  y * TTL <= Shortfall * b
<1>1. y * TTL <= (x + Shortfall) * TTL /\ Shortfall * (a + TTL) <= Shortfall * b
  BY ShortfallFacts, TimesMonotone
<1>2. /\ (x + Shortfall) * TTL = x * TTL + Shortfall * TTL
      /\ Shortfall * (a + TTL) = Shortfall * a + Shortfall * TTL
  BY ShortfallFacts
<1>3. /\ x * TTL \in Int /\ y * TTL \in Int /\ Shortfall * a \in Int
      /\ Shortfall * b \in Int /\ Shortfall * TTL \in Int
  BY ShortfallFacts
<1> QED BY <1>1, <1>2, <1>3

\* A bucket that is discarded lacks no more than the shortfall.
LEMMA DiscardedLevel ==
  ASSUME TypeOK, SweepInv, NEW c \in Discarded
  PROVE  Cap <= LevelOf(c) + Shortfall /\ Anchor(c) + TTL <= now
<1>1. /\ buckets[c] # None /\ buckets[c] \in Bucket /\ now \in Nat /\ c \in Clients
      /\ now - buckets[c].lastSeen > IdleTTL
  BY SweptType DEF Discarded, TypeOK
<1>2. Anchor(c) + TTL <= now
  BY <1>1, LimiterAssumption DEF Anchor, TTL, Bucket
<1>3. LevelOf(c) = Refilled(buckets[c])
  BY <1>1 DEF LevelOf
<1>4. Cap <= Refilled(buckets[c]) + Shortfall
  BY <1>1, LimiterAssumption DEF Refilled, AtMost, Shortfall, Bucket
<1> QED BY <1>2, <1>3, <1>4

LEMMA AnchorType ==
  ASSUME TypeOK, SweepInv, NEW c \in Clients
  PROVE  Anchor(c) \in Nat /\ Anchor(c) <= now /\ Excess(c) \in Int
<1>1. now \in Nat /\ spent[c] \in Nat /\ LevelOf(c) \in 0..Cap
  BY TypedLevel DEF TypeOK
<1>2. Anchor(c) \in Nat /\ Anchor(c) <= now
  BY <1>1 DEF Anchor, TypeOK, SweepInv, Bucket
<1> QED BY <1>1, <1>2, LimiterAssumption DEF Excess

LEMMA StepConserves ==
  ASSUME TypeOK, SweepInv, Conserved, [Next]_vars
  PROVE  Conserved'
<1> SUFFICES ASSUME NEW c \in Clients
             PROVE  Excess(c)' * TTL <= Shortfall * Anchor(c)'
  BY DEF Conserved, TTL, Shortfall
<1>1. TypeOK' /\ SweepInv'
  BY StepInv
<1>2. /\ Excess(c) \in Int /\ Anchor(c) \in Nat /\ Anchor(c) <= now
      /\ Excess(c) * TTL <= Shortfall * Anchor(c)
      /\ LevelOf(c) \in 0..Cap /\ spent[c] \in Nat /\ now \in Nat
  BY AnchorType, TypedLevel DEF Conserved, TypeOK
<1>3. /\ Excess(c)' \in Int /\ Anchor(c)' \in Nat
      /\ LevelOf(c)' \in Int /\ spent'[c] \in Nat /\ now' \in Nat
  <2>1. /\ now' \in Nat /\ spent'[c] \in Nat /\ buckets'[c] \in Bucket \cup {None}
    BY <1>1 DEF TypeOK
  <2>2. LevelOf(c)' \in Int
    BY <2>1, LimiterAssumption DEF LevelOf, Refilled, AtMost, Bucket
  <2>3. Anchor(c)' \in Nat
    BY <2>1 DEF Anchor, Bucket
  <2> QED BY <2>1, <2>2, <2>3, LimiterAssumption DEF Excess
<1>4. CASE UNCHANGED vars
  BY <1>2, <1>4 DEF vars, Excess, LevelOf, Refilled, Anchor
<1>5. CASE Tick
  <2>1. LevelOf(c)' = IF LevelOf(c) < Cap THEN LevelOf(c) + 1 ELSE Cap
    BY <1>5, TickFills
  <2>2. spent' = spent /\ now' = now + 1 /\ buckets' = buckets
    BY <1>5 DEF Tick
  <2>3. Excess(c)' <= Excess(c)
    BY <1>2, <2>1, <2>2, LimiterAssumption DEF Excess
  <2>4. Anchor(c) <= Anchor(c)'
    BY <1>2, <2>2 DEF Anchor
  <2> QED BY <1>2, <1>3, <2>3, <2>4, StillConserved, Zenon
<1>6. ASSUME NEW e \in Clients, Allow(e)
      PROVE  Excess(c)' * TTL <= Shortfall * Anchor(c)'
  <2>1. now' = now /\ SweptLevel(c) \in 0..Cap
    BY <1>6, SweepForgets DEF Allow
  <2>2. spent'[c] + LevelOf(c)' = spent[c] + SweptLevel(c)
    <3>1. spent \in [Clients -> Nat]
      BY DEF TypeOK
    <3>2. CASE /\ Admit(e, AfterSweep, SweptLevel(e) - Cost)
               /\ \A d \in Clients : LevelOf(d)' = IF d = e THEN SweptLevel(e) - Cost
                                                            ELSE SweptLevel(d)
      <4>1. spent' = [spent EXCEPT ![e] = @ + Cost]
        BY <3>2 DEF Admit
      <4> QED BY <2>1, <3>1, <3>2, <4>1, LimiterAssumption
    <3>3. CASE /\ Refuse(e, AfterSweep, SweptLevel(e))
               /\ \A d \in Clients : LevelOf(d)' = SweptLevel(d)
      BY <3>3 DEF Refuse
    <3> QED BY <1>6, <3>2, <3>3, AllowDecides
  <2>3. PICK n : buckets' = [AfterSweep EXCEPT ![e] = [tokens |-> n, lastSeen |-> now]]
    BY <1>6 DEF Allow, Admit, Refuse
  <2>4. AfterSweep \in [Clients -> Bucket \cup {None}]
    BY SweptType
  <2>5. Anchor(c)' = IF c = e \/ AfterSweep[c] = None THEN now ELSE Anchor(c)
    <3>1. CASE c = e
      <4>1. buckets'[c] = [tokens |-> n, lastSeen |-> now]
        BY <2>3, <2>4, <3>1
      <4> QED BY <2>1, <3>1, <4>1 DEF Anchor
    <3>2. CASE c # e
      <4>1. buckets'[c] = AfterSweep[c]
        BY <2>3, <2>4, <3>2
      <4>2. AfterSweep[c] # None => AfterSweep[c] = buckets[c]
        BY SweptType
      <4> QED BY <2>1, <3>2, <4>1, <4>2 DEF Anchor
    <3> QED BY <3>1, <3>2
  <2>6. Excess(c)' = spent[c] + SweptLevel(c) - Cap - now
    BY <1>2, <1>3, <2>1, <2>2, LimiterAssumption DEF Excess
  <2>7. CASE c \in Discarded
    <3>1. SweptLevel(c) = Cap /\ AfterSweep[c] = None
      BY <2>7 DEF SweptLevel, Discarded
    <3>2. Cap <= LevelOf(c) + Shortfall /\ Anchor(c) + TTL <= now
      BY <2>7, DiscardedLevel
    <3>3. Excess(c)' <= Excess(c) + Shortfall /\ Anchor(c) + TTL <= Anchor(c)'
      BY <1>2, <2>5, <2>6, <3>1, <3>2, ShortfallFacts, LimiterAssumption DEF Excess
    <3> QED BY <1>2, <1>3, <3>3, GiftConserved, Zenon
  <2>8. CASE c \notin Discarded
    <3>1. SweptLevel(c) = LevelOf(c)
      BY <2>8 DEF SweptLevel
    <3>2. Excess(c)' <= Excess(c) /\ Anchor(c) <= Anchor(c)'
      BY <1>2, <2>5, <2>6, <3>1 DEF Excess
    <3> QED BY <1>2, <1>3, <3>2, StillConserved, Zenon
  <2> QED BY <2>7, <2>8
<1> QED BY <1>4, <1>5, <1>6 DEF Next

(* No client is ever admitted beyond one full bucket, the sustained rate   *)
(* and a shortfall for each time to live it has stayed away, for every     *)
(* rate, burst and time to live.                                           *)
THEOREM LimiterRateBound == Spec => []RateBound
<1>1. ASSUME Init
      PROVE  Conserved
  <2> SUFFICES ASSUME NEW c \in Clients
               PROVE  Excess(c) * TTL <= Shortfall * Anchor(c)
    BY DEF Conserved
  <2>1. Excess(c) = 0 /\ Anchor(c) = 0
    BY <1>1, LimiterAssumption DEF Init, LevelOf, Excess, Anchor
  <2> QED BY <2>1, ShortfallFacts
<1>2. TypeOK /\ SweepInv /\ Conserved /\ [Next]_vars => Conserved'
  BY StepConserves
<1>3. ASSUME TypeOK, SweepInv, Conserved
      PROVE  RateBound
  <2> SUFFICES ASSUME NEW c \in Clients
               PROVE  spent[c] <= Cap + now + (Shortfall * now) \div TTL
    BY DEF RateBound, TTL
  <2>1. /\ Excess(c) \in Int /\ Anchor(c) \in Nat /\ Anchor(c) <= now /\ now \in Nat
        /\ Excess(c) * TTL <= Shortfall * Anchor(c)
        /\ LevelOf(c) \in 0..Cap /\ spent[c] \in Nat
    BY <1>3, AnchorType, TypedLevel DEF Conserved, TypeOK
  <2> DEFINE g == Shortfall * now
             x == Excess(c)
  <2>2. x * TTL <= g /\ g \in Nat
    BY <2>1, ShortfallFacts, StillConserved
  <2>3. x \in Int /\ spent[c] <= Cap + now + x
    BY <2>1, LimiterAssumption DEF Excess
  <2> HIDE DEF g, x
  <2> DEFINE q == g \div TTL
             m == g % TTL
  <2>4. q \in Nat /\ m \in Nat /\ m < TTL /\ g = TTL * q + m
    BY <2>2, ShortfallFacts
  <2> HIDE DEF q, m
  <2>5. x <= q
    <3> SUFFICES ASSUME q + 1 <= x
                 PROVE  FALSE
      BY <2>3, <2>4
    <3>1. (q + 1) * TTL <= x * TTL
      BY <2>3, <2>4, ShortfallFacts, TimesMonotone
    <3>2. (q + 1) * TTL = TTL * q + TTL /\ TTL * q \in Int /\ x * TTL \in Int
      BY <2>3, <2>4, ShortfallFacts
    <3> QED BY <2>2, <2>4, <3>1, <3>2, ShortfallFacts
  <2> QED BY <2>1, <2>3, <2>4, <2>5, LimiterAssumption DEF q, g
<1> QED BY <1>1, <1>2, <1>3, LimiterInvariance, PTL DEF Spec

-----------------------------------------------------------------------------
(* Memory and the Retry-After header.                                      *)

\* Every step but a decision leaves the buckets and the promises alone; a
\* decision rewrites those of one client on top of the sweep.
LEMMA StepShape ==
  ASSUME TypeOK, SweepInv, [Next]_vars
  PROVE  \/ buckets' = buckets /\ promise' = promise
         \/ \E c \in Clients, n \in 0..Cap :
              /\ buckets' = [AfterSweep EXCEPT ![c] = [tokens |-> n, lastSeen |-> now]]
              /\ \/ promise' = [promise EXCEPT ![c] = None] /\ verdict'[c] = "admitted"
                 \/ /\ promise' = [promise EXCEPT ![c] = now + RetryAfter(n) * Second]
                    /\ n < Cost
                    /\ buckets[c] # None /\ n = Refilled(buckets[c])
<1>1. CASE UNCHANGED vars
  BY <1>1 DEF vars
<1>2. CASE Tick
  BY <1>2 DEF Tick
<1>3. ASSUME NEW c \in Clients, Allow(c)
      PROVE  \E n \in 0..Cap :
               /\ buckets' = [AfterSweep EXCEPT ![c] = [tokens |-> n, lastSeen |-> now]]
               /\ \/ promise' = [promise EXCEPT ![c] = None] /\ verdict'[c] = "admitted"
                  \/ /\ promise' = [promise EXCEPT ![c] = now + RetryAfter(n) * Second]
                     /\ n < Cost
                     /\ buckets[c] # None /\ n = Refilled(buckets[c])
  <2>1. verdict \in [Clients -> {"none", "admitted", "refused"}] /\ now \in Nat
    BY DEF TypeOK
  <2>2. CASE AfterSweep[c] = None
    <3>1. Cap - Cost \in 0..Cap
      BY LimiterAssumption
    <3>2. Admit(c, AfterSweep, Cap - Cost)
      BY <1>3, <2>2 DEF Allow
    <3> QED BY <2>1, <3>1, <3>2 DEF Admit
  <2>3. CASE AfterSweep[c] # None
    <3>1. AfterSweep[c] = buckets[c] /\ buckets[c] \in Bucket /\ buckets[c].lastSeen <= now
      BY <2>3, SweptType
    <3>2. Refilled(buckets[c]) \in 0..Cap
      BY <2>1, <3>1, RefilledType
    <3>3. CASE Refilled(buckets[c]) >= Cost
      <4>1. Refilled(buckets[c]) - Cost \in 0..Cap
        BY <3>2, <3>3, LimiterAssumption
      <4>2. Admit(c, AfterSweep, Refilled(buckets[c]) - Cost)
        BY <1>3, <2>3, <3>1, <3>2, <3>3, LimiterAssumption DEF Allow
      <4> QED BY <2>1, <4>1, <4>2 DEF Admit
    <3>4. CASE Refilled(buckets[c]) < Cost
      <4>1. Refuse(c, AfterSweep, Refilled(buckets[c]))
        BY <1>3, <2>3, <3>1, <3>2, <3>4, LimiterAssumption DEF Allow
      <4> QED BY <2>3, <3>1, <3>2, <3>4, <4>1 DEF Refuse
    <3> QED BY <3>2, <3>3, <3>4, LimiterAssumption
  <2> QED BY <2>2, <2>3
<1> QED BY <1>1, <1>2, <1>3 DEF Next

LEMMA StepReclaims ==
  ASSUME TypeOK, SweepInv, [Next]_vars, \E c \in Clients : buckets'[c] # buckets[c],
         NEW c \in Clients, buckets'[c] # None
  PROVE  now - buckets'[c].lastSeen <= IdleTTL + SweepEvery
<1> DEFINE sw == IF SweepDue THEN now ELSE lastSweep
<1>1. PICK d \in Clients, n \in 0..Cap :
        buckets' = [AfterSweep EXCEPT ![d] = [tokens |-> n, lastSeen |-> now]]
  BY StepShape
<1>2. now \in Nat /\ lastSweep \in Nat /\ AfterSweep \in [Clients -> Bucket \cup {None}]
  BY SweptType DEF TypeOK
<1>3. CASE c = d
  BY <1>1, <1>2, <1>3, LimiterAssumption
<1>4. CASE c # d
  <2>1. buckets'[c] = AfterSweep[c]
    BY <1>1, <1>2, <1>4
  <2>2. AfterSweep[c] \in Bucket /\ sw - AfterSweep[c].lastSeen <= IdleTTL
    BY <2>1, SweptType
  <2>3. now - sw <= SweepEvery
    BY <1>2, LimiterAssumption DEF SweepDue
  <2>4. sw \in Nat /\ AfterSweep[c].lastSeen \in Nat
    BY <1>2, <2>2 DEF Bucket
  <2> HIDE DEF sw
  <2> QED BY <1>2, <2>1, <2>2, <2>3, <2>4, LimiterAssumption
<1> QED BY <1>3, <1>4

(* Whatever the clients do, no decision leaves a bucket behind that has    *)
(* been idle for longer than the time to live and a sweep interval.        *)
THEOREM LimiterReclaims == Spec => IdleBucketsGo
<1>1. TypeOK /\ SweepInv /\ [Next]_vars =>
        [(\E c \in Clients : buckets'[c] # buckets[c]) =>
           \A c \in Clients : buckets'[c] # None =>
             now - buckets'[c].lastSeen <= IdleTTL + SweepEvery]_vars
  BY StepReclaims
<1> QED BY <1>1, LimiterInvariance, PTL DEF Spec, IdleBucketsGo

\* Rounding down to whole seconds loses less than one.
LEMMA RetryAfterRounds ==
  ASSUME NEW t \in 0..Cap, t < Cost
  PROVE  /\ RetryAfter(t) * Second \in Nat
         /\ Cost - t < RetryAfter(t) * Second + Second
<1> DEFINE x == IF Cost - t < Second THEN Second ELSE Cost - t
           q == x \div Second
           m == x % Second
<1>1. x \in Nat /\ Cost - t <= x
  BY LimiterAssumption
<1>2. q \in Nat /\ m \in 0..(Second - 1) /\ x = Second * q + m
  <2> HIDE DEF x
  <2> QED BY <1>1, LimiterAssumption
<1>3. RetryAfter(t) = q
  BY DEF RetryAfter
<1> HIDE DEF x, q, m
<1> DEFINE y == q * Second
<1>4. y \in Nat /\ x = y + m
  BY <1>2, LimiterAssumption
<1>5. RetryAfter(t) * Second = y
  BY <1>3
<1> HIDE DEF y
<1> QED BY <1>1, <1>2, <1>4, <1>5, LimiterAssumption

\* A second after the promised time, the refused bucket holds a token.
PromiseInv ==
  \A c \in Clients : promise[c] # None /\ buckets[c] # None =>
    buckets[c].lastSeen + Cost - buckets[c].tokens < promise[c] + Second

LEMMA PromiseStep ==
  ASSUME TypeOK, SweepInv, PromiseInv, [Next]_vars
  PROVE  PromiseInv'
<1>1. CASE buckets' = buckets /\ promise' = promise
  BY <1>1 DEF PromiseInv
<1>2. ASSUME NEW c \in Clients, NEW n \in 0..Cap, NEW p,
             buckets' = [AfterSweep EXCEPT ![c] = [tokens |-> n, lastSeen |-> now]],
             promise' = [promise EXCEPT ![c] = p],
             p # None => n < Cost /\ p = now + RetryAfter(n) * Second
      PROVE  PromiseInv'
  <2> SUFFICES ASSUME NEW d \in Clients, promise'[d] # None, buckets'[d] # None
               PROVE  buckets'[d].lastSeen + Cost - buckets'[d].tokens < promise'[d] + Second
    BY DEF PromiseInv
  <2>1. now \in Nat /\ AfterSweep \in [Clients -> Bucket \cup {None}]
    BY SweptType DEF TypeOK
  <2>2. CASE d = c
    <3> DEFINE y == RetryAfter(n) * Second
    <3>1. promise'[d] = p /\ p # None
      BY <1>2, <2>2 DEF TypeOK
    <3>2. y \in Nat /\ Cost - n < y + Second /\ p = now + y
      BY <1>2, <3>1, RetryAfterRounds
    <3>3. buckets'[d].lastSeen = now /\ buckets'[d].tokens = n
      BY <1>2, <2>1, <2>2
    <3> HIDE DEF y
    <3> QED BY <2>1, <3>1, <3>2, <3>3, LimiterAssumption
  <2>3. CASE d # c
    <3>1. promise'[d] = promise[d] /\ buckets'[d] = AfterSweep[d]
      BY <1>2, <2>1, <2>3 DEF TypeOK
    <3>2. AfterSweep[d] = buckets[d]
      BY <3>1, SweptType
    <3> QED BY <3>1, <3>2 DEF PromiseInv
  <2> QED BY <2>2, <2>3
<1> HIDE DEF PromiseInv
<1>3. ASSUME NEW c \in Clients, NEW n \in 0..Cap,
             buckets' = [AfterSweep EXCEPT ![c] = [tokens |-> n, lastSeen |-> now]],
             promise' = [promise EXCEPT ![c] = None]
      PROVE  PromiseInv'
  BY <1>2, <1>3
<1>4. ASSUME NEW c \in Clients, NEW n \in 0..Cap, n < Cost,
             buckets' = [AfterSweep EXCEPT ![c] = [tokens |-> n, lastSeen |-> now]],
             promise' = [promise EXCEPT ![c] = now + RetryAfter(n) * Second]
      PROVE  PromiseInv'
  BY <1>2, <1>4
<1> QED BY <1>1, <1>3, <1>4, StepShape

LEMMA StepAdmits ==
  ASSUME TypeOK, SweepInv, PromiseInv, [Next]_vars,
         NEW c \in Clients, promise[c] # None, now >= promise[c] + Second,
         promise'[c] # promise[c]
  PROVE  verdict'[c] = "admitted"
<1> SUFFICES ASSUME verdict'[c] # "admitted"
             PROVE  FALSE
  OBVIOUS
<1>1. PICK n \in 0..Cap : n < Cost /\ buckets[c] # None /\ n = Refilled(buckets[c])
  BY StepShape DEF TypeOK
<1>2. /\ buckets[c] \in Bucket /\ buckets[c].lastSeen <= now /\ now \in Nat
      /\ promise[c] \in Nat
      /\ buckets[c].lastSeen + Cost - buckets[c].tokens < promise[c] + Second
  BY <1>1 DEF TypeOK, SweepInv, PromiseInv
<1>3. buckets[c].tokens + (now - buckets[c].lastSeen) > Cost
  BY <1>2, LimiterAssumption DEF Bucket
<1> QED BY <1>1, <1>2, <1>3, LimiterAssumption DEF Refilled, AtMost, Bucket

(* A client that stays away a second longer than it was told is admitted,  *)
(* whatever the rate, the burst and the sweeps in between: the header is   *)
(* wrong by less than the second it is rounded down by.                    *)
THEOREM LimiterKeepsPromises == Spec => ComeBackAdmitted
<1>1. Init => PromiseInv
  BY DEF Init, PromiseInv
<1>2. TypeOK /\ SweepInv /\ PromiseInv /\ [Next]_vars => PromiseInv'
  BY PromiseStep
<1>3. TypeOK /\ SweepInv /\ PromiseInv /\ [Next]_vars =>
        [\A c \in Clients :
           promise[c] # None /\ now >= promise[c] + Second /\ promise'[c] # promise[c]
             => verdict'[c] = "admitted"]_vars
  BY StepAdmits
<1> QED BY <1>1, <1>2, <1>3, LimiterInvariance, PTL DEF Spec, ComeBackAdmitted
=============================================================================
