---------------------------- MODULE TokenBucket -----------------------------
(***************************************************************************)
(* What the rate limiter promises each client: a bucket that fills at a    *)
(* steady rate up to a capacity, of which every admitted request takes the *)
(* same amount.  A client that has stayed away for long enough may find    *)
(* its bucket full; nothing else is ever given away.                       *)
(*                                                                         *)
(* Amounts are counted so that a bucket gains one unit in a tick of the    *)
(* clock; a request costs Cost units and a full bucket holds Cap.          *)
(***************************************************************************)
EXTENDS Integers

CONSTANTS
  Clients,  \* client addresses
  Cost,     \* units a request costs: ticks in which one token is refilled
  Cap,      \* units a full bucket holds: burst times Cost
  IdleTTL   \* ticks after which a client may be forgotten

VARIABLES
  level,    \* what each bucket holds now
  spent,    \* history: what each client has been admitted for
  verdict,  \* the last decision about each client
  seen,     \* when each client last made a request
  now       \* the clock

tbVars == <<level, spent, verdict, seen, now>>

TBInit ==
  /\ level = [c \in Clients |-> Cap]
  /\ spent = [c \in Clients |-> 0]
  /\ verdict = [c \in Clients |-> "none"]
  /\ seen = [c \in Clients |-> 0]
  /\ now = 0

\* Clients that may be forgotten, and the levels once those of F are.
Forgettable == {c \in Clients : now - seen[c] > IdleTTL}
Forgotten(F) == [c \in Clients |-> IF c \in F THEN Cap ELSE level[c]]

TBAdmit(c, F) ==
  /\ Forgotten(F)[c] >= Cost
  /\ level' = [Forgotten(F) EXCEPT ![c] = @ - Cost]
  /\ spent' = [spent EXCEPT ![c] = @ + Cost]
  /\ verdict' = [verdict EXCEPT ![c] = "admitted"]
  /\ seen' = [seen EXCEPT ![c] = now]
  /\ UNCHANGED now

TBRefuse(c, F) ==
  /\ Forgotten(F)[c] < Cost
  /\ level' = Forgotten(F)
  /\ verdict' = [verdict EXCEPT ![c] = "refused"]
  /\ seen' = [seen EXCEPT ![c] = now]
  /\ UNCHANGED <<spent, now>>

TBTick ==
  /\ now' = now + 1
  /\ level' = [c \in Clients |-> IF level[c] < Cap THEN level[c] + 1 ELSE Cap]
  /\ UNCHANGED <<spent, verdict, seen>>

TBNext ==
  \/ TBTick
  \/ \E c \in Clients, F \in SUBSET Forgettable : TBAdmit(c, F) \/ TBRefuse(c, F)

TBSpec == TBInit /\ [][TBNext]_tbVars

=============================================================================
