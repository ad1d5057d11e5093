------------------------------- MODULE Config -------------------------------
(***************************************************************************)
(* Loading the server's configuration: internal/config/config.go and the   *)
(* layering of packages/config/config.go, with the operator who edits the  *)
(* file and the environment, starts the server and corrects what it names. *)
(*                                                                         *)
(* A setting's value stands for all that validation treats alike: words    *)
(* for syntax, small numbers for amounts, and for address pools prefixes   *)
(* of a small address space, so that masking and overlap are computed.     *)
(* Relay, metrics and log.add_source, which nothing validates, are left    *)
(* out; the four timeouts of the server are checked alike and stand as one.*)
(***************************************************************************)
EXTENDS Integers, FiniteSets, Sequences

CONSTANTS
  Width,      \* bits of an address
  Prefixes,   \* the prefixes an operator writes: [v4, addr, bits]
  Reserved,   \* <<address, bits>> of the reserved ranges
  MinBits,    \* bounds on the prefix length of a pool
  MaxBits,
  MaxEdits    \* bound on the operator's settings before the first start

ASSUME ConfigAssumption ==
  /\ Width \in Nat /\ MinBits \in 0..Width /\ MaxBits \in MinBits..(Width - 2)
  /\ \A r \in Reserved : r[1] \in 0..(2^Width - 1) /\ r[2] \in 0..Width
  /\ Prefixes \subseteq [v4 : BOOLEAN, addr : 0..(2^Width - 1), bits : 0..Width]
  /\ MaxEdits \in Nat

\* The default pools are among the prefixes.
ASSUME DefaultPoolsAssumption ==
  \A isV4 \in BOOLEAN :
    [v4 |-> isV4, addr |-> 2^(Width - 2), bits |-> MaxBits] \in Prefixes

\* What ^ means, for the sizes of blocks of addresses.
ASSUME PowersAssumption == 2^0 = 1 /\ \A k \in 0..(Width - 1) : 2^(k + 1) = 2 * 2^k

VARIABLES
  cfgPc,     \* where the server's start has come to
  file,      \* the -config file: not given, missing, malformed or readable
  fileSets,  \* the settings it gives
  env,       \* the environment variables that are set
  cfg,       \* the configuration under construction
  named,     \* the settings a refusal names
  edits      \* the operator's edits so far

cfgVars == <<cfgPc, file, fileSets, env, cfg, named, edits>>

-----------------------------------------------------------------------------
(* Settings.                                                               *)

\* The fields in the order in which applyEnv walks them.
Fields ==
  <<"environment", "listen", "base_url", "allow_insecure_http", "timeouts",
    "max_body_bytes", "driver", "path", "dsn", "max_open_conns",
    "max_idle_conns", "conn_max_lifetime", "ipv4_cidr", "ipv6_cidr",
    "providers", "session_lifetime", "session_idle_timeout",
    "min_password_length", "log_level", "log_format", "enabled",
    "requests_per_minute", "burst", "auth_requests_per_minute", "auth_burst">>

FieldSet == {Fields[i] : i \in 1..Len(Fields)}

Position(f) == CHOOSE i \in 1..Len(Fields) : Fields[i] = f

PasswordFloor == 12

\* A pool as written: empty, no prefix at all, or a prefix.
NoPool(syntax) == [syntax |-> syntax, v4 |-> TRUE, addr |-> 0, bits |-> 0]
Cidr(p) == [syntax |-> "cidr", v4 |-> p.v4, addr |-> p.addr, bits |-> p.bits]

\* What an operator may write for each setting: "" is the empty string.
Values(f) ==
  CASE f = "environment" -> {"development", "production", "staging", ""}
    [] f = "listen" -> {"host:port", "host:", "host", ""}
    [] f = "base_url" -> {"http", "https", "ftp", "no host", "not a URL", ""}
    [] f \in {"allow_insecure_http", "enabled"} -> BOOLEAN
    [] f = "driver" -> {"sqlite", "postgres", "mysql", ""}
    [] f \in {"path", "dsn"} -> {"given", ""}
    [] f \in {"ipv4_cidr", "ipv6_cidr"} ->
         {NoPool("empty"), NoPool("other")} \cup {Cidr(p) : p \in Prefixes}
    [] f = "providers" ->
         {<<>>, <<"local">>, <<"local", "oidc">>, <<"local", "local">>, <<"ldap">>}
    [] f = "min_password_length" -> {PasswordFloor - 1, PasswordFloor}
    [] f \in {"log_level", "log_format"} -> {"known", "unknown", ""}
    [] f \in {"timeouts", "max_body_bytes", "burst", "auth_burst"} -> 0..1
    [] OTHER -> -1..2

\* The fields whose variable setValue parses, and may fail to.
Parsed ==
  FieldSet \ {"environment", "listen", "base_url", "driver", "path", "dsn",
              "ipv4_cidr", "ipv6_cidr", "providers", "log_level", "log_format"}

Pool(isV4) == Cidr([v4 |-> isV4, addr |-> 2^(Width - 2), bits |-> MaxBits])

Default ==
  [f \in FieldSet |->
     CASE f = "environment" -> "development"
       [] f = "listen" -> "host:port"
       [] f = "base_url" -> "http"
       [] f = "allow_insecure_http" -> FALSE
       [] f = "driver" -> "sqlite"
       [] f = "path" -> "given"
       [] f = "dsn" -> ""
       [] f = "ipv4_cidr" -> Pool(TRUE)
       [] f = "ipv6_cidr" -> Pool(FALSE)
       [] f = "providers" -> <<"local">>
       [] f = "min_password_length" -> PasswordFloor
       [] f \in {"log_level", "log_format"} -> "known"
       [] f = "enabled" -> TRUE
       [] f \in {"max_open_conns", "session_lifetime", "requests_per_minute"} -> 2
       [] OTHER -> 1]

-----------------------------------------------------------------------------
(* Validation: each operator is the set of settings it complains about.    *)

Wrong(f, holds) == IF holds THEN {f} ELSE {}

EnvironmentProblems(c) ==
  Wrong("environment", c["environment"] \notin {"development", "production"})

ServerProblems(c) ==
  Wrong("listen", c["listen"] # "host:port")
  \cup Wrong("base_url",
         \/ c["base_url"] \notin {"http", "https"}
         \/ /\ c["environment"] = "production" /\ c["base_url"] = "http"
            /\ ~c["allow_insecure_http"])
  \cup Wrong("timeouts", c["timeouts"] <= 0)
  \cup Wrong("max_body_bytes", c["max_body_bytes"] <= 0)

DatabaseProblems(c) ==
  Wrong("driver", c["driver"] \notin {"sqlite", "postgres"})
  \cup Wrong("path", c["driver"] = "sqlite" /\ c["path"] = "")
  \cup Wrong("dsn", c["driver"] = "postgres" /\ c["dsn"] = "")
  \cup Wrong("max_open_conns", c["max_open_conns"] <= 0)
  \cup Wrong("max_idle_conns",
         \/ c["max_idle_conns"] < 0
         \/ c["max_open_conns"] > 0 /\ c["max_idle_conns"] > c["max_open_conns"])
  \cup Wrong("conn_max_lifetime", c["conn_max_lifetime"] < 0)

Masked(addr, bits) == addr - (addr % 2^(Width - bits))

\* netip.Prefix.Overlaps, for prefixes of one family.
Overlaps(a, aBits, b, bBits) ==
  LET bits == IF aBits < bBits THEN aBits ELSE bBits
  IN  Masked(a, bits) = Masked(b, bits)

\* Fault: the bounds are given in the wrong order.
PoolRefusedSwapped(p, wantV4) ==
  \/ p.syntax # "cidr"
  \/ p.v4 # wantV4
  \/ Masked(p.addr, p.bits) # p.addr
  \/ \E r \in Reserved : Overlaps(p.addr, p.bits, r[1], r[2])
  \/ p.bits < MaxBits \/ p.bits > MinBits

\* Fault: a pool is reserved only if it lies inside a reserved range.
PoolRefusedInside(p, wantV4) ==
  \/ p.syntax # "cidr"
  \/ p.v4 # wantV4
  \/ Masked(p.addr, p.bits) # p.addr
  \/ \E r \in Reserved : p.bits >= r[2] /\ Overlaps(p.addr, p.bits, r[1], r[2])
  \/ p.bits \notin MinBits..MaxBits

\* parsePool.
PoolRefused(p, wantV4) ==
  \/ p.syntax # "cidr"
  \/ p.v4 # wantV4
  \/ Masked(p.addr, p.bits) # p.addr
  \/ \E r \in Reserved : Overlaps(p.addr, p.bits, r[1], r[2])
  \/ p.bits \notin MinBits..MaxBits

\* NetworkConfig.Validate; pools of different families never overlap.
NetworkProblems(c) ==
  Wrong("ipv4_cidr", PoolRefused(c["ipv4_cidr"], TRUE))
  \cup Wrong("ipv6_cidr", c["ipv6_cidr"].syntax # "empty" /\ PoolRefused(c["ipv6_cidr"], FALSE))

\* Returns at once if there is no provider, whatever else is wrong.
AuthProblems(c) ==
  LET providers == c["providers"]
      idle == c["session_idle_timeout"]
      lifetime == c["session_lifetime"]
  IN  IF providers = <<>> THEN {"providers"}
      ELSE Wrong("session_lifetime", lifetime <= 0)
           \cup Wrong("session_idle_timeout",
                  idle < 0 \/ (idle > 0 /\ lifetime > 0 /\ idle > lifetime))
           \cup Wrong("min_password_length", c["min_password_length"] < PasswordFloor)
           \cup Wrong("providers",
                  \E i \in 1..Len(providers) :
                    \/ providers[i] \notin {"local", "oidc"}
                    \/ \E j \in 1..(i - 1) : providers[j] = providers[i])

LogProblems(c) ==
  Wrong("log_level", c["log_level"] = "unknown")
  \cup Wrong("log_format", c["log_format"] = "unknown")

RateLimitProblems(c) ==
  IF ~c["enabled"] THEN {}
  ELSE Wrong("requests_per_minute", c["requests_per_minute"] <= 0)
       \cup Wrong("burst", c["burst"] <= 0)
       \cup Wrong("auth_requests_per_minute",
              \/ c["auth_requests_per_minute"] <= 0
              \/ c["auth_requests_per_minute"] > c["requests_per_minute"])
       \cup Wrong("auth_burst", c["auth_burst"] <= 0)

Validate(c) ==
  EnvironmentProblems(c) \cup ServerProblems(c) \cup DatabaseProblems(c)
  \cup NetworkProblems(c) \cup AuthProblems(c) \cup LogProblems(c)
  \cup RateLimitProblems(c)

-----------------------------------------------------------------------------
(* The layers of Load.                                                     *)

With(sets, f, v) == [g \in DOMAIN sets \cup {f} |-> IF g = f THEN v ELSE sets[g]]

\* Later layers win.
Overlay(under, over) ==
  [f \in FieldSet |-> IF f \in DOMAIN over THEN over[f] ELSE under[f]]

\* An empty value of a string field; applyEnv takes it for a variable not set.
Empty(f, v) ==
  \/ f \in {"ipv4_cidr", "ipv6_cidr"} /\ v.syntax = "empty"
  \/ f \in FieldSet \ (Parsed \cup {"ipv4_cidr", "ipv6_cidr", "providers"}) /\ v = ""

\* What a variable may hold: nothing, a value, or text that is not one.
RawValues(f) ==
  {<<"empty">>} \cup {<<"value", v>> : v \in {w \in Values(f) : ~Empty(f, w)}}
  \cup IF f \in Parsed THEN {<<"text">>} ELSE {}

\* The variables applyEnv acts on.
Exported == {f \in DOMAIN env : env[f][1] # "empty"}

\* Where setValue does not succeed: on text it cannot parse, and on the list
\* of providers, where storing a []string in a []AuthProvider panics.
Trouble == {f \in Exported : env[f][1] = "text" \/ f = "providers"}

FirstTrouble == {f \in Trouble : \A g \in Trouble : Position(f) <= Position(g)}

Launch ==
  /\ cfgPc = "down"
  /\ cfgPc' = "file"
  /\ cfg' = Default
  /\ UNCHANGED <<file, fileSets, env, named, edits>>

Stop(how, names) ==
  /\ cfgPc' = how
  /\ named' = names

\* loadFile; a file that is empty sets nothing.
LoadFile ==
  /\ cfgPc = "file"
  /\ \/ /\ file = "none"
        /\ cfgPc' = "env"
        /\ UNCHANGED <<cfg, named>>
     \/ /\ file \in {"missing", "malformed"}
        /\ Stop("refused", {})
        /\ UNCHANGED cfg
     \/ /\ file = "readable"
        /\ cfgPc' = "env"
        /\ cfg' = Overlay(cfg, fileSets)
        /\ UNCHANGED named
  /\ UNCHANGED <<file, fileSets, env, edits>>

\* applyEnv stops at the first variable that cannot be stored.
ApplyEnv ==
  /\ cfgPc = "env"
  /\ \/ /\ Trouble = {}
        /\ cfgPc' = "validate"
        /\ cfg' = Overlay(cfg, [f \in Exported |-> env[f][2]])
        /\ UNCHANGED named
     \/ /\ Trouble # {} /\ FirstTrouble # {"providers"}
        /\ Stop("refused", FirstTrouble)
        /\ UNCHANGED cfg
     \/ /\ FirstTrouble = {"providers"}
        /\ Stop("panicked", {})
        /\ UNCHANGED cfg
  /\ UNCHANGED <<file, fileSets, env, edits>>

Judge ==
  /\ cfgPc = "validate"
  /\ \/ Validate(cfg) = {} /\ Stop("accepted", {})
     \/ Validate(cfg) # {} /\ Stop("refused", Validate(cfg))
  /\ UNCHANGED <<file, fileSets, env, cfg, edits>>

-----------------------------------------------------------------------------
(* The operator.                                                           *)

Editing ==
  /\ cfgPc = "down"
  /\ edits < MaxEdits
  /\ edits' = edits + 1
  /\ UNCHANGED <<cfgPc, cfg, named>>

\* A setting in the file, an empty file, or one that is missing or spoilt.
EditFile ==
  /\ Editing
  /\ file \in {"none", "readable"}
  /\ \/ /\ file' = "readable"
        /\ \/ UNCHANGED fileSets
           \/ \E f \in FieldSet : \E v \in Values(f) : fileSets' = With(fileSets, f, v)
     \/ /\ file' \in {"missing", "malformed"}
        /\ UNCHANGED fileSets
  /\ UNCHANGED env

EditEnv ==
  /\ Editing
  /\ \E f \in FieldSet : \E raw \in RawValues(f) : env' = With(env, f, raw)
  /\ UNCHANGED <<file, fileSets>>

\* The file is left out of the command line, or put right.
CorrectFile ==
  /\ file' \in {"none", "readable"}
  /\ UNCHANGED <<fileSets, env>>

\* The setting is changed where it takes effect from.
CorrectSetting(f, v) ==
  \/ /\ f \in Exported /\ ~Empty(f, v)
     /\ env' = With(env, f, <<"value", v>>)
     /\ UNCHANGED <<file, fileSets>>
  \/ /\ f \notin Exported
     /\ file' = "readable"
     /\ fileSets' = With(fileSets, f, v)
     /\ UNCHANGED env

\* A refused start is repeated after a correction of something it named, to a
\* value that can be parsed and that validation does not complain about.
Correct ==
  /\ cfgPc = "refused"
  /\ Stop("down", {})
  /\ \/ named = {} /\ CorrectFile
     \/ \E f \in named : \E v \in Values(f) :
          /\ f \in Trouble \/ f \notin Validate([cfg EXCEPT ![f] = v])
          /\ CorrectSetting(f, v)
  /\ edits' = MaxEdits
  /\ UNCHANGED cfg

ConfigInit ==
  /\ cfgPc = "down"
  /\ file = "none"
  /\ fileSets = << >>
  /\ env = << >>
  /\ cfg = Default
  /\ named = {}
  /\ edits = 0

Load == Launch \/ LoadFile \/ ApplyEnv \/ Judge

ConfigNext == Load \/ EditFile \/ EditEnv \/ Correct

ConfigSpec == ConfigInit /\ [][ConfigNext]_cfgVars

\* The operator starts the server in the end, and goes on correcting what it
\* refuses.
ConfigFairness == WF_cfgVars(Load) /\ WF_cfgVars(Correct)

-----------------------------------------------------------------------------
ConfigTypeOK ==
  /\ cfgPc \in {"down", "file", "env", "validate", "accepted", "refused", "panicked"}
  /\ file \in {"none", "missing", "malformed", "readable"}
  /\ DOMAIN fileSets \subseteq FieldSet /\ DOMAIN env \subseteq FieldSet
  /\ \A f \in FieldSet : cfg[f] \in Values(f)
  /\ named \subseteq FieldSet
  /\ edits \in 0..MaxEdits

\* The addresses of a prefix, and those it hands out (the IPv4 broadcast
\* address and the network address are not).
Addresses(addr, bits) == addr..(addr + 2^(Width - bits) - 1)

PoolIsSafe(p, usable) ==
  /\ Cardinality(Addresses(p.addr, p.bits)) >= usable + 1
  /\ \A r \in Reserved :
       Addresses(p.addr, p.bits) \cap Addresses(Masked(r[1], r[2]), r[2]) = {}

(* An accepted configuration gives the other components what they rely on: *)
(* pools that hand out addresses and none of a reserved range, limits that *)
(* admit requests, sessions that can be used, connections to use them, and *)
(* no credentials in the clear unless that was asked for.                  *)
AcceptedIsUsable ==
  /\ ConfigTypeOK
  /\ cfgPc = "accepted" =>
    /\ PoolIsSafe(cfg["ipv4_cidr"], 2)
    /\ cfg["ipv6_cidr"].syntax = "cidr" => PoolIsSafe(cfg["ipv6_cidr"], 3)
    /\ cfg["enabled"] =>
         /\ 0 < cfg["auth_requests_per_minute"]
         /\ cfg["auth_requests_per_minute"] <= cfg["requests_per_minute"]
         /\ 0 < cfg["burst"] /\ 0 < cfg["auth_burst"]
    /\ cfg["session_idle_timeout"] \in 0..cfg["session_lifetime"]
    /\ cfg["session_lifetime"] > 0
    /\ cfg["max_open_conns"] > 0
    /\ cfg["environment"] = "production" /\ cfg["base_url"] = "http" =>
         cfg["allow_insecure_http"]

(* An operator who changes, one at a time, the settings that refusals name *)
(* comes to settings that load accepts, unless the providers variable ends *)
(* it with a panic, which is no complaint to be corrected                  *)
(* (ProvidersFromEnvironment): no complaint is impossible to satisfy,      *)
(* hides for ever behind another or blames a setting whose change does not *)
(* help.                                                                   *)
CorrectionsConverge == cfgPc = "file" ~> cfgPc \in {"accepted", "panicked"}

(* docs/configuration.md documents HEADNET_AUTH_PROVIDERS as a variable    *)
(* that takes a comma-separated list of "local" and "oidc": a supported    *)
(* list does not make the server panic.                                    *)
ProvidersFromEnvironment ==
  cfgPc = "panicked" => env["providers"][2] \notin {<<"local">>, <<"local", "oidc">>}
=============================================================================
