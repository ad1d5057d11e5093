---------------------------- MODULE RateLimiter -----------------------------
(***************************************************************************)
(* httpapi.Limiter and the RateLimit middleware.                           *)
(*                                                                         *)
(* The limiter keeps a bucket only for the clients it has seen, refills it *)
(* lazily when the client comes back, and discards idle buckets in sweeps  *)
(* that requests trigger.  Allow holds the mutex from the first statement  *)
(* to the last, so it is one step.  Amounts are counted as in TokenBucket; *)
(* the rounding of floating point is not modelled.                         *)
(***************************************************************************)
EXTENDS Integers

CONSTANTS
  Clients,     \* client addresses
  Cost,        \* ticks in which one token is refilled
  Cap,         \* burst, in units of one tick's refill
  SweepEvery,  \* sweepEvery, in ticks
  IdleTTL,     \* idleTTL, in ticks
  Second,      \* ticks in a second
  MaxTime,     \* bound on the clock
  None         \* no bucket; no promise

ASSUME LimiterAssumption ==
  /\ Cost \in Nat \ {0} /\ Cap \in Nat /\ Cost <= Cap
  /\ SweepEvery \in Nat /\ IdleTTL \in Nat
  /\ Second \in Nat \ {0} /\ MaxTime \in Nat
  /\ None \notin Nat /\ None \notin [tokens : 0..Cap, lastSeen : Nat]

VARIABLES
  buckets,    \* Limiter.buckets, None where the map has no entry
  lastSweep,  \* Limiter.lastSweep
  now,        \* the clock
  verdict,    \* the last decision about each client
  spent,      \* history: what each client has been admitted for
  seen,       \* history: when each client last made a request
  promise     \* history: when the last Retry-After said to come back

vars == <<buckets, lastSweep, now, verdict, spent, seen, promise>>

Bucket == [tokens : 0..Cap, lastSeen : Nat]

AtMost(x, y) == IF x < y THEN x ELSE y

-----------------------------------------------------------------------------
\* Fault: buckets are discarded without looking at their age.
SweptAll(b) == [c \in Clients |-> None]

\* sweepLocked: the buckets that survive it.
Swept(b) ==
  [c \in Clients |->
     IF b[c] # None /\ now - b[c].lastSeen > IdleTTL THEN None ELSE b[c]]

SweepDue == now - lastSweep >= SweepEvery

\* Fault: the clock of the last sweep is not advanced past the first one.
AfterSweepOnce == IF SweepDue /\ lastSweep = 0 THEN Swept(buckets) ELSE buckets

AfterSweep == IF SweepDue THEN Swept(buckets) ELSE buckets

\* Refill for the time that has passed, capped at the burst size.
Refilled(b) == AtMost(Cap, b.tokens + (now - b.lastSeen))

\* Fault: a client is always told to come back after a second.
RetryAfterOne(tokens) == 1

\* The header: the time until the bucket holds a whole token, at least a
\* second, in whole seconds.
RetryAfter(tokens) ==
  (IF Cost - tokens < Second THEN Second ELSE Cost - tokens) \div Second

Admit(c, bs, tokens) ==
  /\ buckets' = [bs EXCEPT ![c] = [tokens |-> tokens, lastSeen |-> now]]
  /\ verdict' = [verdict EXCEPT ![c] = "admitted"]
  /\ spent' = [spent EXCEPT ![c] = @ + Cost]
  /\ promise' = [promise EXCEPT ![c] = None]

Refuse(c, bs, tokens) ==
  /\ buckets' = [bs EXCEPT ![c] = [tokens |-> tokens, lastSeen |-> now]]
  /\ verdict' = [verdict EXCEPT ![c] = "refused"]
  /\ promise' = [promise EXCEPT ![c] = now + RetryAfter(tokens) * Second]
  /\ UNCHANGED spent

Allow(c) ==
  /\ lastSweep' = IF SweepDue THEN now ELSE lastSweep
  /\ LET bs == AfterSweep
     IN  \/ /\ bs[c] = None
            /\ Admit(c, bs, Cap - Cost)
         \/ /\ bs[c] # None
            /\ Refilled(bs[c]) >= Cost
            /\ Admit(c, bs, Refilled(bs[c]) - Cost)
         \/ /\ bs[c] # None
            /\ Refilled(bs[c]) < Cost
            /\ Refuse(c, bs, Refilled(bs[c]))
  /\ seen' = [seen EXCEPT ![c] = now]
  /\ UNCHANGED now

Tick ==
  /\ now < MaxTime
  /\ now' = now + 1
  /\ UNCHANGED <<buckets, lastSweep, verdict, spent, seen, promise>>

Init ==
  /\ buckets = [c \in Clients |-> None]
  /\ lastSweep = 0
  /\ now = 0
  /\ verdict = [c \in Clients |-> "none"]
  /\ spent = [c \in Clients |-> 0]
  /\ seen = [c \in Clients |-> 0]
  /\ promise = [c \in Clients |-> None]

Next == Tick \/ \E c \in Clients : Allow(c)

Spec == Init /\ [][Next]_vars

-----------------------------------------------------------------------------
TypeOK ==
  /\ buckets \in [Clients -> Bucket \cup {None}]
  /\ lastSweep \in Nat /\ now \in Nat
  /\ verdict \in [Clients -> {"none", "admitted", "refused"}]
  /\ spent \in [Clients -> Nat]
  /\ seen \in [Clients -> Nat]
  /\ promise \in [Clients -> Nat \cup {None}]

\* Times of the past are past, and a bucket that a sweep spared was young.
SweepInv ==
  /\ lastSweep <= now
  /\ \A c \in Clients : buckets[c] # None =>
       /\ buckets[c].lastSeen <= now /\ lastSweep - buckets[c].lastSeen <= IdleTTL
       /\ buckets[c].lastSeen = seen[c]

\* What the limiter would let a client spend now.
LevelOf(c) == IF buckets[c] = None THEN Cap ELSE Refilled(buckets[c])

TB == INSTANCE TokenBucket WITH level <- [c \in Clients |-> LevelOf(c)]

(* For a client, the limiter is a token bucket that is kept and filled all *)
(* the time: the lazy refill cannot be told from it, and a sweep can only  *)
(* be told by a client that stayed away for longer than the time to live,  *)
(* which may find its bucket full before it was due; whatever other        *)
(* clients do and whenever the sweeps they trigger happen.                 *)
IsTokenBucket == TB!TBSpec

\* What a bucket can lack when it is old enough to be discarded.
Shortfall == IF Cap > IdleTTL + 1 THEN Cap - (IdleTTL + 1) ELSE 0

(* A client is admitted for no more than one full bucket and the sustained *)
(* rate ever since, and what sweeps may give it: the shortfall, once in    *)
(* the time to live.  Where a bucket fills up within the time to live, as  *)
(* sweepLocked's comment has it, the shortfall is nothing.                 *)
RateBound ==
  \A c \in Clients : spent[c] <= Cap + now + (Shortfall * now) \div (IdleTTL + 1)

(* Memory is reclaimed: once a request has been decided, no bucket is left *)
(* that has been idle for the time to live and a sweep interval.           *)
IdleBucketsGo ==
  [][(\E c \in Clients : buckets'[c] # buckets[c]) =>
       \A c \in Clients : buckets'[c] # None =>
         now - buckets'[c].lastSeen <= IdleTTL + SweepEvery]_vars

(* A client that stays away a second longer than Retry-After says is       *)
(* admitted: the header is the time until the bucket holds a token, short  *)
(* of it by less than the second it is rounded down by.                    *)
ComeBackAdmitted ==
  [][\A c \in Clients :
       promise[c] # None /\ now >= promise[c] + Second /\ promise'[c] # promise[c]
         => verdict'[c] = "admitted"]_vars
=============================================================================
