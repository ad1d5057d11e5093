---------------------------- MODULE ServerProofs ----------------------------
(***************************************************************************)
(* Proofs about the parts of a server process that share no state: Config, *)
(* Negotiation and Lifecycle.                                              *)
(*                                                                         *)
(* Config, for addresses of any width: a pool is let through only if       *)
(* masking and overlap, which work on powers of two, say so; that they say *)
(* the right thing is proved first, by induction over the number of bits.  *)
(* Negotiation, for any versions and capabilities: what Negotiate computes *)
(* is characterised once, for any two ranges; the two ends' outcomes are   *)
(* then compared through the builds that the server has run in between.    *)
(* Lifecycle, for any set of requests: its properties speak of the end of  *)
(* the process; ChannelFlow and RequestFlow say what holds on the way.     *)
(***************************************************************************)
EXTENDS Config, Negotiation, Lifecycle, FiniteSetTheorems, WellFoundedInduction, TLAPS

-----------------------------------------------------------------------------
(* Configuration.                                                          *)

\* A set of numbers has a least one: the sets 0..n are finite, and strict
\* inclusion of finite sets is well-founded.
LEMMA LeastNumber ==
  ASSUME NEW T, T \subseteq Nat, T # {}
  PROVE  \E n \in T : \A m \in T : n <= m
<1> DEFINE Downs == {0..n : n \in T}
<1>1. Downs \subseteq FiniteSubsetsOf(Nat)
  <2>1. ASSUME NEW n \in T PROVE 0..n \in FiniteSubsetsOf(Nat)
    <3>1. IsFiniteSet(0..n)
      BY FS_Interval
    <3> QED BY <3>1 DEF FiniteSubsetsOf
  <2> QED BY <2>1
<1>2. Downs # {}
  OBVIOUS
<1>3. IsWellFoundedOn(StrictSubsetOrdering(Nat), FiniteSubsetsOf(Nat))
  BY FS_StrictSubsetOrderingWellFounded
<1> HIDE DEF Downs
<1>4. PICK x \in Downs : \A y \in Downs : <<y, x>> \notin StrictSubsetOrdering(Nat)
  BY <1>1, <1>2, <1>3, WFMin
<1>5. PICK n \in T : x = 0..n
  BY <1>4 DEF Downs
<1>6. ASSUME NEW m \in T, m < n PROVE FALSE
  <2>1. 0..m \in Downs
    BY DEF Downs
  <2>2. 0..m \subseteq 0..n /\ 0..m # 0..n /\ 0..m \subseteq Nat /\ 0..n \subseteq Nat
    <3>1. n \in 0..n /\ n \notin 0..m
      BY <1>6
    <3>2. 0..m \subseteq 0..n
      BY <1>6
    <3> QED BY <3>1, <3>2
  <2>3. <<0..m, 0..n>> \in StrictSubsetOrdering(Nat)
    BY <2>2 DEF StrictSubsetOrdering
  <2> QED BY <1>4, <1>5, <2>1, <2>3
<1> QED BY <1>6

-----------------------------------------------------------------------------
(* Blocks of addresses.                                                    *)

LEMMA PowerBounds ==
  \A k \in 0..Width : 2^k \in Nat \ {0} /\ 2^k >= 2 * k
<1> DEFINE Bad == {k \in 0..Width : ~(2^k \in Nat \ {0} /\ 2^k >= 2 * k)}
<1>1. SUFFICES ASSUME Bad # {} PROVE FALSE
  OBVIOUS
<1>2. PICK k \in Bad : \A m \in Bad : k <= m
  <2>1. Bad \subseteq Nat
    BY ConfigAssumption
  <2> HIDE DEF Bad
  <2> QED BY <1>1, <2>1, LeastNumber
<1>3. k # 0
  <2>1. 2^0 = 1
    BY PowersAssumption
  <2>2. 0 \notin Bad
    BY <2>1
  <2> QED BY <1>2, <2>2
<1>4. k - 1 \in 0..(Width - 1) /\ k - 1 \notin Bad /\ k - 1 \in 0..Width
  BY <1>2, <1>3, ConfigAssumption
<1>5. 2^(k - 1) \in Nat \ {0} /\ 2^(k - 1) >= 2 * (k - 1)
  BY <1>4
<1>6. 2^(k - 1 + 1) = 2 * 2^(k - 1)
  BY <1>4, PowersAssumption
<1>7. k - 1 + 1 = k /\ k \in Nat
  BY <1>2
<1>8. 2^k = 2 * 2^(k - 1)
  BY <1>6, <1>7
<1>9. 2^k \in Nat \ {0} /\ 2^k >= 2 * k
  <2>1. CASE k = 1
    BY <2>1, <1>8, PowersAssumption
  <2>2. CASE k # 1
    BY <2>2, <1>3, <1>5, <1>7, <1>8
  <2> QED BY <2>1, <2>2
<1> QED BY <1>2, <1>9

LEMMA PowersDivide ==
  ASSUME NEW j \in 0..Width
  PROVE  \A k \in j..Width : \E q \in Nat : 2^k = q * 2^j
<1> DEFINE Bad == {k \in j..Width : ~\E q \in Nat : 2^k = q * 2^j}
<1>1. SUFFICES ASSUME Bad # {} PROVE FALSE
  OBVIOUS
<1>2. PICK k \in Bad : \A m \in Bad : k <= m
  <2>1. Bad \subseteq Nat
    BY ConfigAssumption
  <2> HIDE DEF Bad
  <2> QED BY <1>1, <2>1, LeastNumber
<1>3. 2^j \in Nat
  BY PowerBounds
<1>4. k # j
  BY <1>2, <1>3
<1>5. k - 1 \in 0..(Width - 1) /\ k - 1 \notin Bad /\ k - 1 \in j..Width
  BY <1>2, <1>4, ConfigAssumption
<1>6. PICK q \in Nat : 2^(k - 1) = q * 2^j
  BY <1>5
<1>7. 2^(k - 1 + 1) = 2 * 2^(k - 1)
  BY <1>5, PowersAssumption
<1>8. k - 1 + 1 = k
  BY <1>2, ConfigAssumption
<1>9. 2^k = 2 * 2^(k - 1)
  BY <1>7, <1>8
<1>10. 2 * (q * 2^j) = (2 * q) * 2^j /\ 2 * q \in Nat
  BY <1>3
<1>11. 2^k = (2 * q) * 2^j
  BY <1>6, <1>9, <1>10
<1> QED BY <1>2, <1>10, <1>11

\* Masking finds the block that an address lies in.
LEMMA MaskFindsBlock ==
  ASSUME NEW x \in Nat, NEW B \in Nat \ {0}
  PROVE  \E u \in Nat : x - (x % B) = B * u /\ B * u <= x /\ x < B * u + B
<1>1. x % B \in Int /\ 0 <= x % B /\ x % B < B
  OBVIOUS
<1>2. x \div B \in Int
  OBVIOUS
<1>3. x % B = x - B * (x \div B)
  BY Z3
<1>4. x \div B >= 0
  OBVIOUS
<1>5. PICK u \in Nat : u = x \div B
  BY <1>2, <1>4
<1>6. B * u \in Nat
  OBVIOUS
<1>7. PICK m \in Int : m = x % B
  BY <1>1
<1>8. m = x - B * u /\ 0 <= m /\ m < B
  BY <1>1, <1>3, <1>5, <1>7
<1>9. x - m = B * u /\ B * u <= x /\ x < B * u + B
  BY <1>6, <1>7, <1>8
<1> QED BY <1>7, <1>9

LEMMA TimesMonotone ==
  ASSUME NEW B \in Nat, NEW x \in Int, NEW y \in Int, x <= y
  PROVE  B * x <= B * y
<1>1. B * (y - x) >= 0
  OBVIOUS
<1>2. B * (y - x) = B * y - B * x
  OBVIOUS
<1> QED BY <1>1, <1>2

LEMMA OneBlock ==
  ASSUME NEW B \in Nat \ {0}, NEW u \in Nat, NEW v \in Nat, NEW x \in Nat,
         B * u <= x, x < B * u + B, B * v <= x, x < B * v + B
  PROVE  u = v
<1>1. ASSUME NEW a \in Nat, NEW b \in Nat, a < b, x < B * a + B, B * b <= x PROVE FALSE
  <2>1. B * (a + 1) <= B * b
    BY <1>1, TimesMonotone
  <2>2. B * (a + 1) = B * a + B
    OBVIOUS
  <2>3. B * a \in Nat /\ B * b \in Nat
    OBVIOUS
  <2> QED BY <1>1, <2>1, <2>2, <2>3
<1> QED BY <1>1

\* Of two blocks that share an address the smaller lies in the larger.
LEMMA SmallInLarge ==
  ASSUME NEW B \in Nat \ {0}, NEW q \in Nat, NEW u \in Nat, NEW v \in Nat, NEW x \in Nat,
         B * u <= x, x < B * u + B, (q * B) * v <= x, x < (q * B) * v + q * B
  PROVE  (q * B) * v <= B * u /\ B * u + B <= (q * B) * v + q * B
<1> DEFINE w == q * v
<1>1. w \in Nat /\ (q * B) * v = B * w /\ q * B = B * q
  OBVIOUS
<1> HIDE DEF w
<1>2. B * u \in Nat /\ B * w \in Nat /\ B * q \in Nat
  BY <1>1
<1>3. w <= u
  <2>1. SUFFICES ASSUME u + 1 <= w PROVE FALSE
    BY <1>1
  <2>2. B * (u + 1) <= B * w
    BY <2>1, <1>1, TimesMonotone
  <2>3. B * (u + 1) = B * u + B
    OBVIOUS
  <2> QED BY <1>1, <1>2, <2>2, <2>3
<1>4. u + 1 <= w + q
  <2>1. SUFFICES ASSUME w + q <= u PROVE FALSE
    BY <1>1
  <2>2. B * (w + q) <= B * u
    BY <2>1, <1>1, TimesMonotone
  <2>3. B * (w + q) = B * w + B * q
    BY <1>1
  <2> QED BY <1>1, <1>2, <2>2, <2>3
<1>5. B * w <= B * u
  BY <1>1, <1>3, TimesMonotone
<1>6. B * (u + 1) <= B * (w + q)
  BY <1>1, <1>4, TimesMonotone
<1>7. B * (u + 1) = B * u + B /\ B * (w + q) = B * w + B * q
  BY <1>1
<1> QED BY <1>1, <1>2, <1>5, <1>6, <1>7

\* Masking an address gives the beginning of the one block it lies in.
LEMMA MaskIsBlock ==
  ASSUME NEW x \in Nat, NEW B \in Nat \ {0}, NEW v \in Nat, B * v <= x, x < B * v + B
  PROVE  x - (x % B) = B * v
<1>1. PICK u \in Nat : x - (x % B) = B * u /\ B * u <= x /\ x < B * u + B
  BY MaskFindsBlock
<1>2. u = v
  BY <1>1, OneBlock
<1> QED BY <1>1, <1>2

\* netip.Prefix.Overlaps tells whether two prefixes have an address in common.
LEMMA CommonAddressOverlaps ==
  ASSUME NEW a \in Nat, NEW aBits \in 0..Width, NEW b \in Nat, NEW bBits \in 0..Width,
         NEW x \in Addresses(Masked(a, aBits), aBits), x \in Addresses(Masked(b, bBits), bBits)
  PROVE  Overlaps(a, aBits, b, bBits)
<1> DEFINE A == 2^(Width - aBits)
           B == 2^(Width - bBits)
<1>1. /\ Width - aBits \in 0..Width /\ Width - bBits \in 0..Width
      /\ A \in Nat \ {0} /\ B \in Nat \ {0}
  BY ConfigAssumption, PowerBounds
<1>2. /\ aBits <= bBits => \E q \in Nat : A = q * B
      /\ bBits <= aBits => \E q \in Nat : B = q * A
  <2>1. aBits <= bBits => Width - aBits \in (Width - bBits)..Width
    BY ConfigAssumption
  <2>2. bBits <= aBits => Width - bBits \in (Width - aBits)..Width
    BY ConfigAssumption
  <2> QED BY <1>1, <2>1, <2>2, PowersDivide
<1>3. /\ Masked(a, aBits) = a - (a % A) /\ Masked(b, bBits) = b - (b % B)
      /\ Masked(a, bBits) = a - (a % B) /\ Masked(b, aBits) = b - (b % A)
  BY DEF Masked
<1>4. /\ Masked(a, aBits) <= x /\ x < Masked(a, aBits) + A
      /\ Masked(b, bBits) <= x /\ x < Masked(b, bBits) + B /\ x \in Int
  BY <1>1, <1>3 DEF Addresses
<1> HIDE DEF A, B
<1>5. PICK u \in Nat : a - (a % A) = A * u /\ A * u <= a /\ a < A * u + A
  BY <1>1, MaskFindsBlock
<1>6. PICK v \in Nat : b - (b % B) = B * v /\ B * v <= b /\ b < B * v + B
  BY <1>1, MaskFindsBlock
<1>7. /\ A * u \in Nat /\ B * v \in Nat /\ x \in Nat
      /\ A * u <= x /\ x < A * u + A /\ B * v <= x /\ x < B * v + B
  BY <1>1, <1>3, <1>4, <1>5, <1>6
<1>8. CASE aBits <= bBits
  <2>1. PICK q \in Nat : A = q * B
    BY <1>2, <1>8
  <2>2. A * u <= B * v /\ B * v + B <= A * u + A
    BY <1>1, <1>7, <2>1, SmallInLarge
  <2>3. A * u <= b /\ b < A * u + A
    BY <1>1, <1>6, <1>7, <2>2
  <2>4. b - (b % A) = A * u
    BY <1>1, <2>3, MaskIsBlock
  <2>5. Masked(a, aBits) = Masked(b, aBits)
    BY <1>3, <1>5, <2>4
  <2>6. CASE aBits < bBits
    BY <2>5, <2>6 DEF Overlaps
  <2>7. CASE aBits = bBits
    BY <2>5, <2>7 DEF Overlaps
  <2> QED BY <1>8, <2>6, <2>7, ConfigAssumption
<1>9. CASE bBits < aBits
  <2>1. PICK q \in Nat : B = q * A
    BY <1>2, <1>9, ConfigAssumption
  <2>2. B * v <= A * u /\ A * u + A <= B * v + B
    BY <1>1, <1>7, <2>1, SmallInLarge
  <2>3. B * v <= a /\ a < B * v + B
    BY <1>1, <1>5, <1>7, <2>2
  <2>4. a - (a % B) = B * v
    BY <1>1, <2>3, MaskIsBlock
  <2>5. Masked(a, bBits) = Masked(b, bBits)
    BY <1>3, <1>6, <2>4
  <2>6. ~(aBits < bBits)
    BY <1>9, ConfigAssumption
  <2> QED BY <2>5, <2>6 DEF Overlaps
<1> QED BY <1>8, <1>9, ConfigAssumption

(* For addresses of any width, comparing two prefixes under the shorter of *)
(* the two lengths tells whether they have an address in common.           *)
THEOREM OverlapsIsRight ==
  ASSUME NEW a \in Nat, NEW aBits \in 0..Width, NEW b \in Nat, NEW bBits \in 0..Width
  PROVE  Overlaps(a, aBits, b, bBits) <=>
           Addresses(Masked(a, aBits), aBits) \cap Addresses(Masked(b, bBits), bBits) # {}
<1>1. ASSUME NEW x \in Nat, NEW bits \in 0..Width, NEW y \in Nat, Masked(x, bits) = Masked(y, bits)
      PROVE  y \in Addresses(Masked(x, bits), bits)
  <2> DEFINE B == 2^(Width - bits)
  <2>1. B \in Nat \ {0}
    BY PowerBounds, ConfigAssumption
  <2>2. Masked(y, bits) = y - (y % B) /\ Addresses(Masked(x, bits), bits) = Masked(x, bits)..(Masked(x, bits) + B - 1)
    BY DEF Masked, Addresses
  <2> HIDE DEF B
  <2>3. PICK u \in Nat : y - (y % B) = B * u /\ B * u <= y /\ y < B * u + B
    BY <2>1, MaskFindsBlock
  <2>4. B * u \in Nat /\ Masked(x, bits) = B * u
    BY <1>1, <2>1, <2>2, <2>3
  <2> QED BY <2>1, <2>2, <2>3, <2>4
<1>2. ASSUME Overlaps(a, aBits, b, bBits)
      PROVE  Addresses(Masked(a, aBits), aBits) \cap Addresses(Masked(b, bBits), bBits) # {}
  <2>1. a \in Addresses(Masked(a, aBits), aBits) /\ b \in Addresses(Masked(b, bBits), bBits)
    BY <1>1
  <2>2. CASE aBits < bBits
    <3>1. Masked(a, aBits) = Masked(b, aBits)
      BY <1>2, <2>2 DEF Overlaps
    <3>2. b \in Addresses(Masked(a, aBits), aBits)
      BY <1>1, <3>1
    <3> QED BY <2>1, <3>2
  <2>3. CASE ~(aBits < bBits)
    <3>1. Masked(a, bBits) = Masked(b, bBits)
      BY <1>2, <2>3 DEF Overlaps
    <3>2. a \in Addresses(Masked(b, bBits), bBits)
      BY <1>1, <3>1
    <3> QED BY <2>1, <3>2
  <2> QED BY <2>2, <2>3
<1> QED BY <1>2, CommonAddressOverlaps

\* What parsePool lets through.
LEMMA AcceptedPoolIsSafe ==
  ASSUME NEW p, p.addr \in Nat, p.bits \in MinBits..MaxBits, NEW usable \in 0..3,
         Masked(p.addr, p.bits) = p.addr,
         \A r \in Reserved : ~Overlaps(p.addr, p.bits, r[1], r[2])
  PROVE  PoolIsSafe(p, usable)
<1> DEFINE A == 2^(Width - p.bits)
<1>1. p.bits \in 0..Width
  BY ConfigAssumption
<1>2. A \in Nat /\ A >= 4
  <2>1. Width - p.bits \in 0..Width /\ Width - p.bits >= 2
    BY <1>1, ConfigAssumption
  <2>2. A \in Nat /\ A >= 2 * (Width - p.bits)
    BY <2>1, PowerBounds
  <2> HIDE DEF A
  <2> QED BY <2>1, <2>2, ConfigAssumption
<1>3. Addresses(p.addr, p.bits) = p.addr..(p.addr + A - 1)
  BY DEF Addresses
<1>4. Cardinality(Addresses(p.addr, p.bits)) >= usable + 1
  <2> HIDE DEF A
  <2>1. p.addr \in Int /\ p.addr + A - 1 \in Int /\ p.addr <= p.addr + A - 1
    BY <1>2
  <2>2. Cardinality(p.addr..(p.addr + A - 1)) = (p.addr + A - 1) - p.addr + 1
    BY <2>1, FS_Interval
  <2> QED BY <1>2, <1>3, <2>2
<1>5. ASSUME NEW r \in Reserved
      PROVE  Addresses(p.addr, p.bits) \cap Addresses(Masked(r[1], r[2]), r[2]) = {}
  <2>1. r[2] \in 0..Width
    BY ConfigAssumption
  <2>2. r[1] \in Nat
    <3>1. 2^Width \in Nat
      BY PowerBounds, ConfigAssumption
    <3>2. r[1] \in 0..(2^Width - 1)
      BY ConfigAssumption
    <3> QED BY <3>1, <3>2
  <2>3. ~Overlaps(p.addr, p.bits, r[1], r[2])
    OBVIOUS
  <2> QED BY <1>1, <2>1, <2>2, <2>3, CommonAddressOverlaps
<1> QED BY <1>4, <1>5 DEF PoolIsSafe

-----------------------------------------------------------------------------
(* The state machine.                                                      *)

\* Whichever layer a setting comes from, it is one an operator may write; and
\* what was accepted is what validation looked at.
ConfigInv ==
  /\ ConfigTypeOK
  /\ \A f \in DOMAIN fileSets : fileSets[f] \in Values(f)
  /\ \A f \in DOMAIN env : env[f] \in RawValues(f)
  /\ cfgPc = "accepted" => Validate(cfg) = {}

LEMMA FieldNames ==
  {"environment", "listen", "base_url", "allow_insecure_http", "timeouts",
   "max_body_bytes", "driver", "path", "dsn", "max_open_conns",
   "max_idle_conns", "conn_max_lifetime", "ipv4_cidr", "ipv6_cidr",
   "providers", "session_lifetime", "session_idle_timeout",
   "min_password_length", "log_level", "log_format", "enabled",
   "requests_per_minute", "burst", "auth_requests_per_minute", "auth_burst"}
    \subseteq FieldSet
<1>1. Len(Fields) = 25
  BY DEF Fields
<1>2. \A i \in 1..25 : Fields[i] \in FieldSet
  BY <1>1 DEF FieldSet
<1>3. /\ Fields[1] = "environment" /\ Fields[2] = "listen" /\ Fields[3] = "base_url"
      /\ Fields[4] = "allow_insecure_http" /\ Fields[5] = "timeouts"
      /\ Fields[6] = "max_body_bytes" /\ Fields[7] = "driver" /\ Fields[8] = "path"
      /\ Fields[9] = "dsn" /\ Fields[10] = "max_open_conns"
      /\ Fields[11] = "max_idle_conns" /\ Fields[12] = "conn_max_lifetime"
      /\ Fields[13] = "ipv4_cidr" /\ Fields[14] = "ipv6_cidr" /\ Fields[15] = "providers"
      /\ Fields[16] = "session_lifetime" /\ Fields[17] = "session_idle_timeout"
      /\ Fields[18] = "min_password_length" /\ Fields[19] = "log_level"
      /\ Fields[20] = "log_format" /\ Fields[21] = "enabled"
      /\ Fields[22] = "requests_per_minute" /\ Fields[23] = "burst"
      /\ Fields[24] = "auth_requests_per_minute" /\ Fields[25] = "auth_burst"
  BY DEF Fields
<1> HIDE DEF Fields
<1> QED BY <1>2, <1>3

LEMMA WrongIsNamed ==
  ASSUME NEW f \in FieldSet, NEW holds
  PROVE  Wrong(f, holds) \subseteq FieldSet
  BY DEF Wrong

LEMMA ProblemsAreFields ==
  ASSUME NEW c
  PROVE  Validate(c) \subseteq FieldSet
<1>1. EnvironmentProblems(c) \subseteq FieldSet
  BY FieldNames, WrongIsNamed DEF EnvironmentProblems
<1>2. ServerProblems(c) \subseteq FieldSet
  BY FieldNames, WrongIsNamed DEF ServerProblems
<1>3. DatabaseProblems(c) \subseteq FieldSet
  BY FieldNames, WrongIsNamed DEF DatabaseProblems
<1>4. NetworkProblems(c) \subseteq FieldSet
  BY FieldNames, WrongIsNamed DEF NetworkProblems
<1>5. AuthProblems(c) \subseteq FieldSet
  BY FieldNames, WrongIsNamed DEF AuthProblems
<1>6. LogProblems(c) \subseteq FieldSet
  BY FieldNames, WrongIsNamed DEF LogProblems
<1>7. RateLimitProblems(c) \subseteq FieldSet
  BY FieldNames, WrongIsNamed DEF RateLimitProblems
<1> QED BY <1>1, <1>2, <1>3, <1>4, <1>5, <1>6, <1>7 DEF Validate

LEMMA DefaultIsWritable ==
  \A f \in FieldSet : Default[f] \in Values(f)
<1>1. Pool(TRUE) \in {Cidr(p) : p \in Prefixes} /\ Pool(FALSE) \in {Cidr(p) : p \in Prefixes}
  BY DefaultPoolsAssumption DEF Pool
<1> SUFFICES ASSUME NEW f \in FieldSet PROVE Default[f] \in Values(f)
  OBVIOUS
<1>2. CASE f = "ipv4_cidr"
  BY <1>1, <1>2 DEF Default, Values
<1>3. CASE f = "ipv6_cidr"
  BY <1>1, <1>3 DEF Default, Values
<1>4. CASE f \in {"environment", "listen", "base_url", "allow_insecure_http", "enabled",
                   "driver", "path", "dsn", "providers", "min_password_length",
                   "log_level", "log_format"}
  BY <1>4 DEF Default, Values, PasswordFloor
<1>5. CASE f \in {"max_open_conns", "session_lifetime", "requests_per_minute"}
  <2>1. Default[f] = 2
    BY <1>5 DEF Default
  <2>2. Values(f) = -1..2
    BY <1>5 DEF Values
  <2> QED BY <2>1, <2>2
<1>6. CASE f \in {"timeouts", "max_body_bytes", "burst", "auth_burst"}
  <2>1. Default[f] = 1
    BY <1>6 DEF Default
  <2>2. Values(f) = 0..1
    BY <1>6 DEF Values
  <2> QED BY <2>1, <2>2
<1>7. CASE f \notin {"environment", "listen", "base_url", "allow_insecure_http", "enabled",
                     "driver", "path", "dsn", "providers", "min_password_length",
                     "log_level", "log_format", "ipv4_cidr", "ipv6_cidr",
                     "max_open_conns", "session_lifetime", "requests_per_minute",
                     "timeouts", "max_body_bytes", "burst", "auth_burst"}
  <2>1. Default[f] = 1
    BY <1>7 DEF Default
  <2>2. Values(f) = -1..2
    BY <1>7 DEF Values
  <2> QED BY <2>1, <2>2
<1> QED BY <1>2, <1>3, <1>4, <1>5, <1>6, <1>7

LEMMA OverlayWritable ==
  ASSUME NEW under, \A f \in FieldSet : under[f] \in Values(f),
         NEW over, \A f \in DOMAIN over : over[f] \in Values(f)
  PROVE  \A f \in FieldSet : Overlay(under, over)[f] \in Values(f)
  BY DEF Overlay

LEMMA RawIsWritable ==
  ASSUME NEW f, NEW raw \in RawValues(f), raw[1] # "empty", raw[1] # "text"
  PROVE  raw[2] \in Values(f)
<1>1. CASE raw \in {<<"empty">>, <<"text">>}
  BY <1>1
<1>2. CASE raw \notin {<<"empty">>, <<"text">>}
  <2>1. PICK v \in Values(f) : raw = <<"value", v>>
    BY <1>2 DEF RawValues
  <2> QED BY <2>1
<1> QED BY <1>1, <1>2

LEMMA ConfigStarts == ConfigInit => ConfigInv
<1> SUFFICES ASSUME ConfigInit PROVE ConfigInv
  OBVIOUS
<1>1. DOMAIN fileSets = {} /\ DOMAIN env = {}
  BY DEF ConfigInit
<1>2. \A f \in FieldSet : cfg[f] \in Values(f)
  BY DefaultIsWritable DEF ConfigInit
<1> QED BY <1>1, <1>2, ConfigAssumption DEF ConfigInit, ConfigInv, ConfigTypeOK

\* The server's part.
LEMMA LoadKeeps ==
  ASSUME ConfigInv, Load
  PROVE  ConfigInv'
<1>1. CASE Launch
  BY <1>1, DefaultIsWritable DEF Launch, ConfigInv, ConfigTypeOK
<1>2. CASE LoadFile
  <2>1. \A f \in FieldSet : cfg'[f] \in Values(f)
    BY <1>2, OverlayWritable DEF LoadFile, ConfigInv, ConfigTypeOK
  <2> QED BY <1>2, <2>1 DEF LoadFile, Stop, ConfigInv, ConfigTypeOK
<1>3. CASE ApplyEnv
  <2>1. FirstTrouble \subseteq FieldSet
    BY DEF FirstTrouble, Trouble, Exported, ConfigInv, ConfigTypeOK
  <2>2. ASSUME Trouble = {}
        PROVE  \A f \in FieldSet : Overlay(cfg, [g \in Exported |-> env[g][2]])[f] \in Values(f)
    <3> DEFINE over == [g \in Exported |-> env[g][2]]
    <3>1. ASSUME NEW f \in Exported PROVE env[f][2] \in Values(f)
      <4>1. env[f] \in RawValues(f) /\ env[f][1] # "empty" /\ env[f][1] # "text"
        BY <2>2, <3>1 DEF Trouble, Exported, ConfigInv
      <4> QED BY <4>1, RawIsWritable
    <3>2. \A f \in DOMAIN over : over[f] \in Values(f)
      BY <3>1
    <3> HIDE DEF over
    <3>3. \A f \in FieldSet : Overlay(cfg, over)[f] \in Values(f)
      BY <3>2, OverlayWritable DEF ConfigInv, ConfigTypeOK
    <3> QED BY <3>3 DEF over
  <2>3. \A f \in FieldSet : cfg'[f] \in Values(f)
    BY <1>3, <2>2 DEF ApplyEnv, ConfigInv, ConfigTypeOK
  <2>4. cfgPc' \in {"validate", "refused", "panicked"} /\ named' \subseteq FieldSet
    BY <1>3, <2>1 DEF ApplyEnv, Stop, ConfigInv, ConfigTypeOK
  <2> QED BY <1>3, <2>3, <2>4 DEF ApplyEnv, ConfigInv, ConfigTypeOK
<1>4. CASE Judge
  <2>1. cfgPc' \in {"accepted", "refused"} /\ named' \subseteq FieldSet
    BY <1>4, ProblemsAreFields DEF Judge, Stop
  <2>2. cfgPc' = "accepted" => Validate(cfg) = {}
    BY <1>4 DEF Judge, Stop
  <2>3. UNCHANGED <<file, fileSets, env, cfg, edits>>
    BY <1>4 DEF Judge
  <2>4. Validate(cfg') = Validate(cfg)
    BY <2>3
  <2> QED BY <2>1, <2>2, <2>3, <2>4 DEF ConfigInv, ConfigTypeOK
<1> QED BY <1>1, <1>2, <1>3, <1>4 DEF Load

\* The operator's part.
LEMMA OperatorKeeps ==
  ASSUME ConfigInv, EditFile \/ EditEnv \/ Correct
  PROVE  ConfigInv'
<1>1. cfgPc' \in {"down"} /\ UNCHANGED cfg /\ named' \subseteq FieldSet /\ edits' \in 0..MaxEdits
  <2>1. CASE EditFile \/ EditEnv
    BY <2>1, ConfigAssumption DEF EditFile, EditEnv, Editing, ConfigInv, ConfigTypeOK
  <2>2. CASE Correct
    BY <2>2, ConfigAssumption DEF Correct, Stop
  <2> QED BY <2>1, <2>2
<1> DEFINE Written ==
      /\ file' \in {"none", "missing", "malformed", "readable"}
      /\ \/ fileSets' = fileSets
         \/ \E f \in FieldSet : \E v \in Values(f) : fileSets' = With(fileSets, f, v)
      /\ \/ env' = env
         \/ \E f \in FieldSet : \E raw \in RawValues(f) : env' = With(env, f, raw)
<1>2. Written
  <2>1. CASE EditFile
    BY <2>1 DEF EditFile, ConfigInv, ConfigTypeOK
  <2>2. CASE EditEnv
    BY <2>2 DEF EditEnv, ConfigInv, ConfigTypeOK
  <2>3. CASE Correct
    <3>1. CASE CorrectFile
      BY <3>1 DEF CorrectFile
    <3>2. ASSUME NEW f \in named, NEW v \in Values(f), CorrectSetting(f, v)
          PROVE  Written
      <4>1. f \in FieldSet
        BY DEF ConfigInv, ConfigTypeOK
      <4>2. ~Empty(f, v) => <<"value", v>> \in RawValues(f)
        BY DEF RawValues
      <4> QED BY <3>2, <4>1, <4>2 DEF CorrectSetting, ConfigInv, ConfigTypeOK
    <3> QED BY <2>3, <3>1, <3>2 DEF Correct
  <2> QED BY <2>1, <2>2, <2>3
<1>3. DOMAIN fileSets' \subseteq FieldSet /\ \A f \in DOMAIN fileSets' : fileSets'[f] \in Values(f)
  <2>1. CASE fileSets' = fileSets
    BY <2>1 DEF ConfigInv, ConfigTypeOK
  <2>2. ASSUME NEW f \in FieldSet, NEW v \in Values(f), fileSets' = With(fileSets, f, v)
        PROVE  DOMAIN fileSets' \subseteq FieldSet /\ \A g \in DOMAIN fileSets' : fileSets'[g] \in Values(g)
    <3>1. /\ DOMAIN fileSets' = DOMAIN fileSets \cup {f} /\ fileSets'[f] = v
          /\ \A g \in DOMAIN fileSets : g # f => fileSets'[g] = fileSets[g]
      BY <2>2 DEF With
    <3> QED BY <2>2, <3>1 DEF ConfigInv, ConfigTypeOK
  <2> QED BY <1>2, <2>1, <2>2
<1>4. DOMAIN env' \subseteq FieldSet /\ \A f \in DOMAIN env' : env'[f] \in RawValues(f)
  <2>1. CASE env' = env
    BY <2>1 DEF ConfigInv, ConfigTypeOK
  <2>2. ASSUME NEW f \in FieldSet, NEW raw \in RawValues(f), env' = With(env, f, raw)
        PROVE  DOMAIN env' \subseteq FieldSet /\ \A g \in DOMAIN env' : env'[g] \in RawValues(g)
    <3>1. /\ DOMAIN env' = DOMAIN env \cup {f} /\ env'[f] = raw
          /\ \A g \in DOMAIN env : g # f => env'[g] = env[g]
      BY <2>2 DEF With
    <3> QED BY <2>2, <3>1 DEF ConfigInv, ConfigTypeOK
  <2> QED BY <1>2, <2>1, <2>2
<1> QED BY <1>1, <1>2, <1>3, <1>4 DEF ConfigInv, ConfigTypeOK

\* An operator may write only these.
LEMMA AmountValues ==
  /\ Values("burst") = 0..1 /\ Values("auth_burst") = 0..1
  /\ Values("requests_per_minute") = -1..2
  /\ Values("auth_requests_per_minute") = -1..2
  /\ Values("session_lifetime") = -1..2 /\ Values("session_idle_timeout") = -1..2
  /\ Values("max_open_conns") = -1..2
<1>1. Values("burst") = 0..1 /\ Values("auth_burst") = 0..1
  BY DEF Values
<1>2. Values("requests_per_minute") = -1..2
  BY DEF Values
<1>3. Values("auth_requests_per_minute") = -1..2
  BY DEF Values
<1>4. Values("session_lifetime") = -1..2
  BY DEF Values
<1>5. Values("session_idle_timeout") = -1..2
  BY DEF Values
<1>6. Values("max_open_conns") = -1..2
  BY DEF Values
<1> QED BY <1>1, <1>2, <1>3, <1>4, <1>5, <1>6

LEMMA PoolValues ==
  ASSUME NEW p \in Values("ipv4_cidr") \cup Values("ipv6_cidr"), p.syntax = "cidr"
  PROVE  p.addr \in Nat /\ p.bits \in 0..Width
<1>1. PICK q \in Prefixes : p = Cidr(q)
  BY DEF Values, NoPool
<1>2. q.addr \in 0..(2^Width - 1) /\ q.bits \in 0..Width
  BY ConfigAssumption
<1>3. 2^Width \in Nat
  BY PowerBounds, ConfigAssumption
<1> QED BY <1>1, <1>2, <1>3 DEF Cidr

LEMMA NothingWrong ==
  ASSUME NEW f, NEW holds, Wrong(f, holds) = {}
  PROVE  ~holds
  BY DEF Wrong

LEMMA UsableFollows == ASSUME ConfigInv PROVE AcceptedIsUsable
<1> SUFFICES ASSUME cfgPc = "accepted"
             PROVE  /\ PoolIsSafe(cfg["ipv4_cidr"], 2)
                    /\ cfg["ipv6_cidr"].syntax = "cidr" => PoolIsSafe(cfg["ipv6_cidr"], 3)
                    /\ cfg["enabled"] =>
                         /\ 0 < cfg["auth_requests_per_minute"]
                         /\ cfg["auth_requests_per_minute"] <= cfg["requests_per_minute"]
                         /\ 0 < cfg["burst"] /\ 0 < cfg["auth_burst"]
                    /\ cfg["session_idle_timeout"] \in 0..cfg["session_lifetime"]
                    /\ cfg["session_lifetime"] > 0
                    /\ cfg["max_open_conns"] > 0
                    /\ cfg["environment"] = "production" /\ cfg["base_url"] = "http" =>
                         cfg["allow_insecure_http"]
  BY DEF AcceptedIsUsable, ConfigInv
<1>1. Validate(cfg) = {}
  BY DEF ConfigInv
<1>2. \A f \in FieldSet : cfg[f] \in Values(f)
  BY DEF ConfigInv, ConfigTypeOK
<1>3. /\ ServerProblems(cfg) = {} /\ DatabaseProblems(cfg) = {} /\ NetworkProblems(cfg) = {}
      /\ AuthProblems(cfg) = {} /\ RateLimitProblems(cfg) = {}
  BY <1>1 DEF Validate
<1>4. cfg["ipv4_cidr"] \in Values("ipv4_cidr") /\ cfg["ipv6_cidr"] \in Values("ipv6_cidr")
  BY <1>2, FieldNames
<1>5. PoolIsSafe(cfg["ipv4_cidr"], 2)
  <2>1. ~PoolRefused(cfg["ipv4_cidr"], TRUE)
    BY <1>3, NothingWrong DEF NetworkProblems
  <2>2. cfg["ipv4_cidr"].syntax = "cidr"
    BY <2>1 DEF PoolRefused
  <2>3. cfg["ipv4_cidr"].addr \in Nat /\ cfg["ipv4_cidr"].bits \in 0..Width
    BY <1>4, <2>2, PoolValues
  <2>4. /\ Masked(cfg["ipv4_cidr"].addr, cfg["ipv4_cidr"].bits) = cfg["ipv4_cidr"].addr
        /\ cfg["ipv4_cidr"].bits \in MinBits..MaxBits
        /\ \A r \in Reserved : ~Overlaps(cfg["ipv4_cidr"].addr, cfg["ipv4_cidr"].bits, r[1], r[2])
    BY <2>1 DEF PoolRefused
  <2> QED BY <2>3, <2>4, AcceptedPoolIsSafe
<1>6. cfg["ipv6_cidr"].syntax = "cidr" => PoolIsSafe(cfg["ipv6_cidr"], 3)
  <2> SUFFICES ASSUME cfg["ipv6_cidr"].syntax = "cidr" PROVE PoolIsSafe(cfg["ipv6_cidr"], 3)
    OBVIOUS
  <2>1. ~PoolRefused(cfg["ipv6_cidr"], FALSE)
    BY <1>3, NothingWrong DEF NetworkProblems
  <2>2. cfg["ipv6_cidr"].addr \in Nat /\ cfg["ipv6_cidr"].bits \in 0..Width
    BY <1>4, PoolValues
  <2>3. /\ Masked(cfg["ipv6_cidr"].addr, cfg["ipv6_cidr"].bits) = cfg["ipv6_cidr"].addr
        /\ cfg["ipv6_cidr"].bits \in MinBits..MaxBits
        /\ \A r \in Reserved : ~Overlaps(cfg["ipv6_cidr"].addr, cfg["ipv6_cidr"].bits, r[1], r[2])
    BY <2>1 DEF PoolRefused
  <2> QED BY <2>2, <2>3, AcceptedPoolIsSafe
<1>7. cfg["enabled"] =>
        /\ 0 < cfg["auth_requests_per_minute"]
        /\ cfg["auth_requests_per_minute"] <= cfg["requests_per_minute"]
        /\ 0 < cfg["burst"] /\ 0 < cfg["auth_burst"]
  <2>1. /\ cfg["auth_requests_per_minute"] \in Int /\ cfg["requests_per_minute"] \in Int
        /\ cfg["burst"] \in Int /\ cfg["auth_burst"] \in Int
    BY <1>2, FieldNames, AmountValues
  <2> QED BY <1>3, <2>1 DEF RateLimitProblems, Wrong
<1>8. cfg["session_idle_timeout"] \in 0..cfg["session_lifetime"] /\ cfg["session_lifetime"] > 0
  <2>1. cfg["session_idle_timeout"] \in Int /\ cfg["session_lifetime"] \in Int
    BY <1>2, FieldNames, AmountValues
  <2>2. cfg["providers"] # <<>>
    BY <1>3 DEF AuthProblems
  <2>3. Wrong("session_lifetime", cfg["session_lifetime"] <= 0) = {}
    BY <1>3, <2>2 DEF AuthProblems
  <2>4. Wrong("session_idle_timeout",
              \/ cfg["session_idle_timeout"] < 0
              \/ /\ cfg["session_idle_timeout"] > 0 /\ cfg["session_lifetime"] > 0
                 /\ cfg["session_idle_timeout"] > cfg["session_lifetime"]) = {}
    BY <1>3, <2>2 DEF AuthProblems
  <2> QED BY <2>1, <2>3, <2>4 DEF Wrong
<1>9. cfg["max_open_conns"] > 0
  <2>1. cfg["max_open_conns"] \in Int
    BY <1>2, FieldNames, AmountValues
  <2>2. Wrong("max_open_conns", cfg["max_open_conns"] <= 0) = {}
    BY <1>3 DEF DatabaseProblems
  <2> QED BY <2>1, <2>2 DEF Wrong
<1>10. cfg["environment"] = "production" /\ cfg["base_url"] = "http" => cfg["allow_insecure_http"]
  BY <1>3 DEF ServerProblems, Wrong
<1> QED BY <1>5, <1>6, <1>7, <1>8, <1>9, <1>10

(* Whatever the file and the environment say, a server that comes up has   *)
(* pools that hand out addresses and none of a reserved range, limits that *)
(* admit requests, sessions that can be used and a connection to use: for  *)
(* addresses of any width and any prefixes and reserved ranges.            *)
THEOREM ConfigSafety == ConfigSpec => []AcceptedIsUsable
<1>1. ConfigInv /\ [ConfigNext]_cfgVars => ConfigInv'
  <2> SUFFICES ASSUME ConfigInv, [ConfigNext]_cfgVars PROVE ConfigInv'
    OBVIOUS
  <2>1. CASE UNCHANGED cfgVars
    <3>1. UNCHANGED <<cfgPc, file, fileSets, env, cfg, named, edits>>
      BY <2>1 DEF cfgVars
    <3>2. Validate(cfg') = Validate(cfg)
      BY <3>1
    <3> QED BY <3>1, <3>2 DEF ConfigInv, ConfigTypeOK
  <2> QED BY <2>1, LoadKeeps, OperatorKeeps DEF ConfigNext
<1> QED BY <1>1, ConfigStarts, UsableFollows, PTL DEF ConfigSpec

-----------------------------------------------------------------------------
(* Negotiation.                                                            *)

AnyRange == [version : Int, min : Int]

LEMMA FailedFacts ==
  ASSUME NEW how
  PROVE  /\ Failed(how).result = how
         /\ Failed(how).version = 0
         /\ Failed(how).caps = {}
  BY DEF Failed

LEMMA AgreedFacts ==
  ASSUME NEW v, NEW caps
  PROVE  /\ Agreed(v, caps).result = "agreed"
         /\ Agreed(v, caps).version = v
         /\ Agreed(v, caps).caps = caps
  BY DEF Agreed

\* The forms of an outcome.
LEMMA NegotiateInvalid ==
  ASSUME NEW l, NEW r, NEW lc, NEW rc, ~Valid(l) \/ ~Valid(r)
  PROVE  Negotiate(l, r, lc, rc) = Failed("invalid")
  BY DEF Negotiate

LEMMA NegotiateAgreed ==
  ASSUME NEW l, NEW r, NEW lc, NEW rc, Valid(l), Valid(r),
         Least(l.version, r.version) >= Greatest(l.min, r.min)
  PROVE  Negotiate(l, r, lc, rc) = Agreed(Least(l.version, r.version), lc \cap rc)
  BY DEF Negotiate

LEMMA NegotiatePeer ==
  ASSUME NEW l, NEW r, NEW lc, NEW rc, Valid(l), Valid(r),
         ~(Least(l.version, r.version) >= Greatest(l.min, r.min)), r.version < l.min
  PROVE  Negotiate(l, r, lc, rc) = Failed("peer too old")
  BY DEF Negotiate

LEMMA NegotiateSelf ==
  ASSUME NEW l, NEW r, NEW lc, NEW rc, Valid(l), Valid(r),
         ~(Least(l.version, r.version) >= Greatest(l.min, r.min)), ~(r.version < l.min)
  PROVE  Negotiate(l, r, lc, rc) = Failed("self too old")
  BY DEF Negotiate

(* Negotiate agrees on the highest version in both ranges if there is one, *)
(* otherwise blames the side that lies wholly below the other, and agrees  *)
(* on nothing that both sides do not have.                                 *)
THEOREM NegotiateIsRight ==
  ASSUME NEW l \in AnyRange, NEW r \in AnyRange, NEW lc, NEW rc
  PROVE  /\ RightOutcome(Negotiate(l, r, lc, rc), l, r)
         /\ Negotiate(l, r, lc, rc).result = "agreed" => Spoken(l) \cap Spoken(r) # {}
         /\ Negotiate(l, r, lc, rc).caps \subseteq lc \cap rc
<1> DEFINE out == Negotiate(l, r, lc, rc)
           high == Least(l.version, r.version)
           low == Greatest(l.min, r.min)
<1>1. CASE ~Valid(l) \/ ~Valid(r)
  <2>1. out = Failed("invalid")
    BY <1>1, NegotiateInvalid
  <2> HIDE DEF out
  <2>2. out.result = "invalid" /\ out.caps = {}
    BY <2>1, FailedFacts
  <2> QED
    BY <2>2 DEF RightOutcome, out
<1>2. CASE Valid(l) /\ Valid(r) /\ high >= low
  <2>1. out = Agreed(high, lc \cap rc)
    BY <1>2, NegotiateAgreed
  <2>2. high \in Spoken(l) \cap Spoken(r)
    BY <1>2 DEF Spoken, Valid, Least, Greatest, AnyRange
  <2>3. \A v \in Spoken(l) \cap Spoken(r) : v <= high
    BY DEF Spoken, Least, AnyRange
  <2> HIDE DEF out, high
  <2>4. out.result = "agreed" /\ out.version = high /\ out.caps = lc \cap rc
    BY <2>1, AgreedFacts
  <2>5. RightOutcome(out, l, r)
    BY <2>2, <2>3, <2>4 DEF RightOutcome
  <2> QED
    BY <2>2, <2>4, <2>5 DEF out
<1>3. CASE Valid(l) /\ Valid(r) /\ ~(high >= low) /\ r.version < l.min
  <2>1. out = Failed("peer too old")
    BY <1>3, NegotiatePeer
  <2>2. AllBelow(r, l)
    BY <1>3 DEF Spoken, AllBelow, AnyRange
  <2> HIDE DEF out
  <2>3. out.result = "peer too old" /\ out.caps = {}
    BY <2>1, FailedFacts
  <2> QED
    BY <2>2, <2>3 DEF RightOutcome, out
<1>4. CASE Valid(l) /\ Valid(r) /\ ~(high >= low) /\ ~(r.version < l.min)
  <2>1. out = Failed("self too old")
    BY <1>4, NegotiateSelf
  <2>2. AllBelow(l, r)
    BY <1>4 DEF Spoken, AllBelow, AnyRange, Valid, Least, Greatest
  <2> HIDE DEF out
  <2>3. out.result = "self too old" /\ out.caps = {}
    BY <2>1, FailedFacts
  <2> QED
    BY <2>2, <2>3 DEF RightOutcome, out
<1> QED
  BY <1>1, <1>2, <1>3, <1>4

(* The two ends, each negotiating with the other's range, come to the same *)
(* version or blame the same side.                                         *)
THEOREM NegotiateIsSymmetric ==
  ASSUME NEW l \in AnyRange, NEW r \in AnyRange, NEW a, NEW b, NEW c, NEW d,
         Valid(l), Valid(r)
  PROVE  LET mine == Negotiate(l, r, a, b)
             theirs == Negotiate(r, l, c, d)
         IN  /\ mine.result \in DOMAIN Mirror
             /\ theirs.result = Mirror[mine.result]
             /\ theirs.version = mine.version
<1> USE DEF AnyRange
<1>1. Least(l.version, r.version) = Least(r.version, l.version)
  BY DEF Least
<1>2. Greatest(l.min, r.min) = Greatest(r.min, l.min)
  BY DEF Greatest
<1>3. CASE Least(l.version, r.version) >= Greatest(l.min, r.min)
  BY <1>1, <1>2, <1>3 DEF Negotiate, Agreed, Mirror
<1>4. CASE ~(Least(l.version, r.version) >= Greatest(l.min, r.min))
  <2>1. r.version < l.min <=> ~(l.version < r.min)
    BY <1>4 DEF Valid, Least, Greatest
  <2> QED
    BY <1>1, <1>2, <1>4, <2>1 DEF Negotiate, Failed, Mirror
<1> QED
  BY <1>3, <1>4

-----------------------------------------------------------------------------
(* The state machine.                                                      *)

\* Each outcome comes from a build that the server has run since diagnostics
\* asked for its range, or from no range at all.
VerdictFrom(b) == verdict = Negotiate(client.range, Heard(b), {}, {})
AnswerFrom(b) == answer = Negotiate(b.range, Stated, b.caps, client.caps)

NegInv ==
  /\ client \in Builds /\ server \in Builds /\ since \subseteq Builds
  /\ oldest \in Nat
  /\ report \in [{"dns", "server", "protocol"} -> {"pending", "pass", "fail", "skipped"}]
  /\ step \in {"dns", "reach", "version"} =>
       verdict.result = "none" /\ report["protocol"] = "pending"
  /\ step # "done" => answer.result = "none"
  /\ report["protocol"] = "pass" => verdict.result = "agreed"
  /\ verdict.result # "none" =>
       since # {} /\ (verdict = Failed("invalid") \/ \E b \in since : VerdictFrom(b))
  /\ answer.result # "none" =>
       /\ since # {}
       /\ \/ answer = Failed("bad request") /\ ~Valid(Stated)
          \/ \E b \in since : AnswerFrom(b)

LEMMA BuildFacts ==
  ASSUME NEW b \in Builds
  PROVE  /\ b.range \in AnyRange /\ Valid(b.range)
         /\ NewSet(b.caps) = b.caps /\ NewSet(b.caps \cup {""}) = b.caps
<1>1. b.caps \in SUBSET (Capabilities \ {""})
  BY DEF Builds
<1>2. NewSet(b.caps) = b.caps /\ NewSet(b.caps \cup {""}) = b.caps
  BY <1>1 DEF NewSet
<1>3. b.range \in Ranges
  BY DEF Builds
<1>4. b.range \in AnyRange
  BY <1>3, NegotiationAssumption DEF Ranges, AnyRange
<1>5. Valid(b.range)
  BY <1>3 DEF Ranges
<1> QED
  BY <1>2, <1>4, <1>5

LEMMA StatedRange ==
  ASSUME NegInv
  PROVE  Stated \in AnyRange
<1>0. oldest \in Nat /\ client \in Builds
  BY DEF NegInv
<1>a. client.range \in AnyRange
  BY <1>0, BuildFacts
<1>b. oldest \in Int
  BY <1>0
<1>1. client.range \in AnyRange /\ oldest \in Int
  BY <1>a, <1>b
<1>2. client.range.version \in Int
  BY <1>1 DEF AnyRange
<1>3. (IF oldest = 0 THEN client.range.version ELSE oldest) \in Int
  BY <1>1, <1>2
<1> QED
  BY <1>2, <1>3 DEF Stated, AnyRange

\* What a build reports is valid and lies in its range.
LEMMA HeardFacts ==
  ASSUME NEW b \in Builds
  PROVE  /\ Heard(b) \in AnyRange /\ Spoken(Heard(b)) \subseteq Spoken(b.range)
         /\ ~terse => Heard(b) = b.range
<1>1. b.range \in AnyRange /\ Valid(b.range)
  BY BuildFacts
<1>2. b.range = [version |-> b.range.version, min |-> b.range.min]
      /\ b.range.version \in Int /\ b.range.min \in Int
  BY <1>1 DEF AnyRange
<1>3. CASE terse
  <2>1. Heard(b) = [version |-> b.range.version, min |-> b.range.version]
    BY <1>3 DEF Heard
  <2> QED
    BY <1>1, <1>2, <1>3, <2>1 DEF AnyRange, Spoken, Valid
<1>4. CASE ~terse
  <2>1. Heard(b) = b.range
    BY <1>2, <1>4 DEF Heard
  <2> QED
    BY <1>1, <1>4, <2>1
<1> QED
  BY <1>3, <1>4

LEMMA NegInit == NegotiationInit => NegInv
  BY DEF NegotiationInit, NegInv, Failed

\* The verdict on what the server reports.
LEMMA JudgedRight ==
  ASSUME NegInv
  PROVE  /\ JudgeRange(VersionResponse) = Negotiate(client.range, server.range, {}, {})
         /\ JudgeRange(Terse) =
              Negotiate(client.range, [version |-> server.range.version,
                                       min |-> server.range.version], {}, {})
         /\ JudgeRange(Silent) = Failed("invalid")
         /\ VersionResponse # Terse
<1>1. server.range \in Ranges
  BY DEF NegInv, Builds
<1>2. /\ VersionResponse = server.range
      /\ [VersionResponse EXCEPT !.min = IF VersionResponse.min <= 0
            THEN VersionResponse.version ELSE VersionResponse.min] = server.range
  BY <1>1, NegotiationAssumption DEF VersionResponse, Ranges, Valid
<1>3. JudgeRange(VersionResponse) = Negotiate(client.range, server.range, {}, {})
  BY <1>2 DEF JudgeRange
<1>4. [Silent EXCEPT !.min = IF Silent.min <= 0 THEN Silent.version ELSE Silent.min] = Silent
  BY DEF Silent
<1>5. ~Valid(Silent)
  BY DEF Silent, Valid
<1>6. JudgeRange(Silent) = Failed("invalid")
  BY <1>4, <1>5 DEF JudgeRange, Negotiate
<1>7. Terse = [version |-> server.range.version, min |-> 0]
  BY DEF Terse, VersionResponse
<1>8. [Terse EXCEPT !.min = IF Terse.min <= 0 THEN Terse.version ELSE Terse.min]
        = [version |-> server.range.version, min |-> server.range.version]
  BY <1>7
<1>9. JudgeRange(Terse) =
        Negotiate(client.range, [version |-> server.range.version,
                                 min |-> server.range.version], {}, {})
  BY <1>8 DEF JudgeRange
<1>10. VersionResponse # Terse
  <2>1. VersionResponse.min # 0 /\ Terse.min = 0
    BY <1>1, <1>2, <1>7, NegotiationAssumption DEF Ranges, Valid
  <2> QED
    BY <2>1
<1> QED
  BY <1>3, <1>6, <1>9, <1>10

LEMMA ProtocolKeeps ==
  ASSUME NegInv, CheckProtocol
  PROVE  NegInv'
<1>1. /\ step = "version" /\ step' = "negotiate" /\ since' = {server}
      /\ UNCHANGED <<client, server, oldest, answer>>
      /\ answer.result = "none"
  BY DEF CheckProtocol, NegInv
<1>2. CASE /\ \E remote \in {VersionResponse, Terse, Silent} :
                verdict' = JudgeRange(remote) /\ terse' = (remote = Terse)
           /\ Report("protocol", IF verdict'.result = "agreed" THEN "pass" ELSE "fail")
  <2>0. PICK remote \in {VersionResponse, Terse, Silent} :
          verdict' = JudgeRange(remote) /\ terse' = (remote = Terse)
    BY <1>2
  <2>1. verdict' = Failed("invalid") \/ VerdictFrom(server)'
    <3>1. CASE remote = VersionResponse
      <4>1. Heard(server)' = server.range
        <5>1. server.range = [version |-> server.range.version, min |-> server.range.min]
          BY BuildFacts DEF NegInv, AnyRange
        <5> QED
          BY <1>1, <2>0, <3>1, <5>1, JudgedRight DEF Heard
      <4> QED
        BY <1>1, <2>0, <3>1, <4>1, JudgedRight DEF VerdictFrom
    <3>2. CASE remote = Terse
      <4>1. Heard(server)' = [version |-> server.range.version,
                              min |-> server.range.version]
        BY <1>1, <2>0, <3>2 DEF Heard
      <4> QED
        BY <1>1, <2>0, <3>2, <4>1, JudgedRight DEF VerdictFrom
    <3>3. CASE remote = Silent
      BY <2>0, <3>3, JudgedRight
    <3> QED
      BY <2>0, <3>1, <3>2, <3>3
  <2>2. report' \in [{"dns", "server", "protocol"} -> {"pending", "pass", "fail", "skipped"}]
    BY <1>2 DEF Report, NegInv
  <2>3. report'["protocol"] = "pass" => verdict'.result = "agreed"
    BY <1>2 DEF Report, NegInv
  <2>4. verdict' = Failed("invalid") \/ \E b \in since' : VerdictFrom(b)'
    BY <1>1, <2>1
  <2> QED
    BY <1>1, <2>2, <2>3, <2>4 DEF NegInv
<1>3. CASE Report("protocol", "fail") /\ UNCHANGED <<verdict, terse>>
  <2>1. report' \in [{"dns", "server", "protocol"} -> {"pending", "pass", "fail", "skipped"}]
    BY <1>3 DEF Report, NegInv
  <2>2. report'["protocol"] # "pass" /\ verdict'.result = "none"
    BY <1>1, <1>3 DEF Report, NegInv
  <2> QED
    BY <1>1, <2>1, <2>2 DEF NegInv
<1> QED
  BY <1>2, <1>3 DEF CheckProtocol

\* The oldest version a request states, and what the server makes of it.
LEMMA StatedFacts ==
  ASSUME NEW v \in Int, NEW m \in Int, m >= 1, v >= m, NEW o \in {m, 0, v + 1}
  PROVE  /\ o \in Nat
         /\ (IF o = 0 THEN v ELSE o) = (IF o <= 0 THEN v ELSE o)
         /\ ~(v <= 0)
         /\ \A low \in Int : low > v => ~Valid([version |-> v, min |-> low])
         /\ (IF o <= 0 THEN v ELSE o) \in Int
<1>1. o \in Nat /\ ~(v <= 0)
  OBVIOUS
<1>2. \A low \in Int : low > v => ~Valid([version |-> v, min |-> low])
  BY DEF Valid
<1> QED
  BY <1>1, <1>2

LEMMA RequestKeeps ==
  ASSUME NegInv, RequestNegotiation
  PROVE  NegInv'
<1>1. PICK names \in {client.caps, client.caps \cup {""}} :
        answer' = NegotiateResponse(client.range.version, oldest', names)
  BY DEF RequestNegotiation
<1>2. /\ step' = "done" /\ since' = since \cup {server}
      /\ oldest' \in {client.range.min, 0, client.range.version + 1}
      /\ UNCHANGED <<client, server, report, verdict, terse, upgrades>>
  BY DEF RequestNegotiation
<1>3. /\ client.range \in AnyRange /\ Valid(client.range)
      /\ NewSet(names) = client.caps /\ NewSet(server.caps) = server.caps
  BY <1>1, BuildFacts DEF NegInv
<1> DEFINE v == client.range.version
           m == client.range.min
           o == oldest'
           low == IF o <= 0 THEN v ELSE o
<1>a. v \in Int /\ m \in Int /\ m >= 1 /\ v >= m
  BY <1>3 DEF Valid, AnyRange
<1>b. o \in {m, 0, v + 1}
  BY <1>2
<1>c. client'.range.version = v
  BY <1>2
<1>d. answer' = IF v <= 0 \/ low > v THEN Failed("bad request")
                ELSE Negotiate(server.range, [version |-> v, min |-> low], server.caps, client.caps)
  BY <1>1, <1>3 DEF NegotiateResponse
<1>e. Stated' = [version |-> v, min |-> IF o = 0 THEN v ELSE o]
  BY <1>c DEF Stated
<1> HIDE DEF v, m, o
<1>f. /\ o \in Nat /\ low \in Int /\ ~(v <= 0)
      /\ (IF o = 0 THEN v ELSE o) = low
      /\ low > v => ~Valid([version |-> v, min |-> low])
  BY <1>a, <1>b, StatedFacts
<1> HIDE DEF low
<1>4. oldest' \in Nat
  BY <1>f DEF o
<1>5. Stated' = [version |-> v, min |-> low]
  BY <1>e, <1>f
<1>6. \/ answer' = Failed("bad request") /\ ~Valid(Stated')
      \/ answer' = Negotiate(server.range, Stated', server.caps, client.caps)
  <2> DEFINE wanted == Negotiate(server.range, [version |-> v, min |-> low], server.caps, client.caps)
             bad == Failed("bad request")
  <2>1. answer' = IF v <= 0 \/ low > v THEN bad ELSE wanted
    BY <1>d
  <2> HIDE DEF wanted, bad
  <2>2. (answer' = bad /\ ~Valid([version |-> v, min |-> low])) \/ answer' = wanted
    BY <2>1, <1>f
  <2> QED
    BY <2>2, <1>5 DEF wanted, bad
<1>7. \/ answer' = Failed("bad request") /\ ~Valid(Stated)'
      \/ \E b \in since' : AnswerFrom(b)'
  BY <1>2, <1>6 DEF AnswerFrom
<1>8. verdict'.result # "none" =>
        since' # {} /\ (verdict' = Failed("invalid") \/ \E b \in since' : VerdictFrom(b)')
  BY <1>2 DEF NegInv, VerdictFrom, Heard
<1> QED
  BY <1>2, <1>4, <1>7, <1>8 DEF NegInv

LEMMA OtherStepsKeep ==
  ASSUME NegInv, CheckDNS \/ CheckReachable \/ Upgrade \/ UNCHANGED negVars
  PROVE  NegInv'
<1>1. CASE CheckDNS
  BY <1>1 DEF CheckDNS, Report, NegInv, VerdictFrom, Heard, AnswerFrom, Stated
<1>2. CASE CheckReachable
  BY <1>2 DEF CheckReachable, Report, NegInv, VerdictFrom, Heard, AnswerFrom, Stated
<1>3. CASE Upgrade
  BY <1>3 DEF Upgrade, NegInv, VerdictFrom, Heard, AnswerFrom, Stated
<1>4. CASE UNCHANGED negVars
  BY <1>4 DEF negVars, NegInv, VerdictFrom, Heard, AnswerFrom, Stated
<1> QED
  BY <1>1, <1>2, <1>3, <1>4

LEMMA RightFollows == ASSUME NegInv PROVE OutcomesAreRight
<1>1. ASSUME verdict.result # "none"
      PROVE  \E b \in since : RightOutcome(verdict, client.range, Heard(b))
  <2>1. CASE verdict = Failed("invalid")
    BY <1>1, <2>1, FailedFacts DEF NegInv, RightOutcome
  <2>2. ASSUME NEW b \in since, VerdictFrom(b)
        PROVE  RightOutcome(verdict, client.range, Heard(b))
    BY <2>2, BuildFacts, HeardFacts, NegotiateIsRight DEF NegInv, VerdictFrom
  <2> QED
    BY <1>1, <2>1, <2>2 DEF NegInv
<1>2. ASSUME answer.result # "none"
      PROVE  \E b \in since : /\ RightOutcome(answer, b.range, Stated)
                              /\ answer.caps \subseteq b.caps \cap client.caps
  <2>1. CASE answer = Failed("bad request")
    BY <1>2, <2>1, FailedFacts DEF NegInv, RightOutcome
  <2>2. ASSUME NEW b \in since, AnswerFrom(b)
        PROVE  /\ RightOutcome(answer, b.range, Stated)
               /\ answer.caps \subseteq b.caps \cap client.caps
    BY <2>2, BuildFacts, StatedRange, NegotiateIsRight DEF NegInv, AnswerFrom
  <2> QED
    BY <1>2, <2>1, <2>2 DEF NegInv
<1> QED
  BY <1>1, <1>2 DEF OutcomesAreRight

LEMMA AgreementFollows == ASSUME NegInv PROVE VerdictsAgree
<1> SUFFICES ASSUME since = {server}, ~terse, verdict.result \in DOMAIN Mirror,
                    answer.result # "none", oldest = client.range.min
             PROVE  /\ answer.result = Mirror[verdict.result]
                    /\ answer.version = verdict.version
  BY DEF VerdictsAgree
<1>1. /\ client.range \in AnyRange /\ Valid(client.range)
      /\ server.range \in AnyRange /\ Valid(server.range)
  BY BuildFacts DEF NegInv
<1>2. Stated = client.range
  <2>1. (IF oldest = 0 THEN client.range.version ELSE oldest) = client.range.min
    BY <1>1 DEF AnyRange, Valid
  <2>2. client.range = [version |-> client.range.version, min |-> client.range.min]
    BY <1>1 DEF AnyRange
  <2> QED
    BY <2>1, <2>2 DEF Stated
<1>3. verdict = Negotiate(client.range, server.range, {}, {})
  <2>1. verdict.result # "none" /\ verdict.result # "invalid"
    BY DEF Mirror
  <2>2. verdict # Failed("invalid")
    BY <2>1, FailedFacts
  <2> QED
    BY <2>1, <2>2, HeardFacts DEF NegInv, VerdictFrom
<1>4. answer = Negotiate(server.range, client.range, server.caps, client.caps)
  BY <1>1, <1>2 DEF NegInv, AnswerFrom
<1>5. LET mine == Negotiate(client.range, server.range, {}, {})
          theirs == Negotiate(server.range, client.range, server.caps, client.caps)
      IN  /\ theirs.result = Mirror[mine.result]
          /\ theirs.version = mine.version
  BY <1>1, NegotiateIsSymmetric
<1> QED
  BY <1>3, <1>4, <1>5

LEMMA PassFollows == ASSUME NegInv PROVE PassMeansCompatible
<1> SUFFICES ASSUME report["protocol"] = "pass"
             PROVE  \E b \in since : Spoken(client.range) \cap Spoken(b.range) # {}
  BY DEF PassMeansCompatible
<1>1. verdict.result = "agreed"
  BY DEF NegInv
<1>2. verdict.result # "none" /\ verdict # Failed("invalid")
  BY <1>1, FailedFacts
<1>3. PICK b \in since : VerdictFrom(b)
  BY <1>2 DEF NegInv
<1>4. /\ client.range \in AnyRange /\ Heard(b) \in AnyRange
      /\ Spoken(Heard(b)) \subseteq Spoken(b.range)
  BY <1>3, BuildFacts, HeardFacts DEF NegInv
<1>5. Negotiate(client.range, Heard(b), {}, {}).result = "agreed"
        => Spoken(client.range) \cap Spoken(Heard(b)) # {}
  BY <1>4, NegotiateIsRight
<1>6. Negotiate(client.range, Heard(b), {}, {}).result = "agreed"
  BY <1>1, <1>3 DEF VerdictFrom
<1> QED
  BY <1>3, <1>4, <1>5, <1>6

(* Diagnostics and the server agree on the highest common version or on    *)
(* which end is behind, for any versions and capabilities of the builds    *)
(* and however often the server is replaced.                               *)
THEOREM NegotiationSafety ==
  NegotiationSpec => [](OutcomesAreRight /\ VerdictsAgree /\ PassMeansCompatible)
<1>1. NegInv /\ [NegotiationNext]_negVars => NegInv'
  BY ProtocolKeeps, RequestKeeps, OtherStepsKeep DEF NegotiationNext
<1>2. NegInv => OutcomesAreRight /\ VerdictsAgree /\ PassMeansCompatible
  BY RightFollows, AgreementFollows, PassFollows
<1> QED
  BY NegInit, <1>1, <1>2, PTL DEF NegotiationSpec

-----------------------------------------------------------------------------
(* Lifecycle.                                                              *)

Ended == main \in {"return", "exiting", "exited"}

AllAnswered == \A r \in Requests : req[r] \in {"new", "answered"}

\* The accepting goroutine reports what it met, once.
ChannelFlow ==
  /\ serveErr # None => serveErr = sent
  /\ main \in {"select", "shutdown", "drain"} => serveErr = sent
  /\ sent = "error" => listener = "failed"
  /\ main = "select" => listener # "closed" /\ sent # "nil"

\* The database outlives the main goroutine's part, and requests are lost
\* only at its end.
RequestFlow ==
  /\ ~Ended => dbOpen
  /\ main = "return" => dbOpen
  /\ main \in {"select", "shutdown"} =>
       \A r \in Requests : req[r] \notin {"cut", "denied"}
  /\ main = "drain" => AllAnswered
  /\ Ended => AllAnswered \/ grace \/ listener = "failed"

LifecycleInv ==
  /\ TypeOK /\ ChannelFlow /\ RequestFlow
  /\ SuccessMeansDrained /\ ListenerErrorIsReported

LEMMA LifecycleStarts == Init => LifecycleInv
  BY LifecycleAssumption
     DEF Init, LifecycleInv, TypeOK, ChannelFlow, RequestFlow, SuccessMeansDrained,
         ListenerErrorIsReported, Ended, AllAnswered, MainStates, ReqStates

\* Requests, the environment and the accepting goroutine.
LEMMA OthersKeep ==
  ASSUME LifecycleInv,
         \/ ServeReturns \/ Signal \/ ListenerFails \/ GraceEnds
         \/ \E r \in Requests : Arrive(r) \/ MeetClosedDatabase(r) \/ Answer(r)
  PROVE  LifecycleInv'
<1> USE LifecycleAssumption
        DEF LifecycleInv, TypeOK, ChannelFlow, RequestFlow, SuccessMeansDrained,
            ListenerErrorIsReported, Ended, AllAnswered, MainStates, ReqStates
<1>1. CASE ServeReturns
  BY <1>1 DEF ServeReturns, ShuttingDown
<1>2. CASE Signal
  BY <1>2 DEF Signal
<1>3. CASE ListenerFails
  BY <1>3 DEF ListenerFails
<1>4. CASE GraceEnds
  BY <1>4 DEF GraceEnds
<1>5. ASSUME NEW r \in Requests, Arrive(r) PROVE LifecycleInv'
  BY <1>5 DEF Arrive
<1>6. ASSUME NEW r \in Requests, MeetClosedDatabase(r) PROVE LifecycleInv'
  BY <1>6 DEF MeetClosedDatabase
<1>7. ASSUME NEW r \in Requests, Answer(r) PROVE LifecycleInv'
  BY <1>7 DEF Answer
<1> QED
  BY <1>1, <1>2, <1>3, <1>4, <1>5, <1>6, <1>7

\* The main goroutine.
LEMMA MainKeeps ==
  ASSUME LifecycleInv, Main
  PROVE  LifecycleInv'
<1> USE LifecycleAssumption
        DEF LifecycleInv, TypeOK, ChannelFlow, RequestFlow, SuccessMeansDrained,
            ListenerErrorIsReported, Ended, AllAnswered, MainStates, ReqStates
<1>1. CASE SelectServeErr
  BY <1>1 DEF SelectServeErr, Return
<1>2. CASE SelectDone
  BY <1>2 DEF SelectDone
<1>3. CASE FinishShutdown
  BY <1>3 DEF FinishShutdown, Return, InFlight
<1>4. CASE Drain
  BY <1>4 DEF Drain, Return
<1>5. CASE CloseDatabase
  BY <1>5 DEF CloseDatabase
<1>6. CASE Exit
  BY <1>6 DEF Exit
<1> QED
  BY <1>1, <1>2, <1>3, <1>4, <1>5, <1>6 DEF Main

(* Server.Serve keeps its promises however its goroutines interleave: a    *)
(* successful end has answered every request, only the grace period or a   *)
(* broken listener interrupts one, and an error of the listener is what    *)
(* the process reports unless the grace period ended too: then it reports  *)
(* that.                                                                   *)
THEOREM LifecycleSafety ==
  Spec => [](TypeOK /\ RequestsAreDrained /\ ListenerErrorIsReported)
<1>1. LifecycleInv /\ [Next]_vars => LifecycleInv'
  <2> SUFFICES ASSUME LifecycleInv, [Next]_vars PROVE LifecycleInv'
    OBVIOUS
  <2>1. CASE Main
    BY <2>1, MainKeeps
  <2>2. CASE UNCHANGED vars
    BY <2>2 DEF vars, LifecycleInv, TypeOK, ChannelFlow, RequestFlow,
                SuccessMeansDrained, ListenerErrorIsReported, Ended, AllAnswered
  <2> QED
    BY <2>1, <2>2, OthersKeep DEF Next
<1>2. LifecycleInv => TypeOK /\ RequestsAreDrained /\ ListenerErrorIsReported
  BY DEF LifecycleInv, RequestsAreDrained, RequestFlow, AllAnswered, Ended, OnlyGraceCutsOff, TypeOK, MainStates
<1> QED
  BY LifecycleStarts, <1>1, <1>2, PTL DEF Spec
=============================================================================
