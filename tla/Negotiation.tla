----------------------------- MODULE Negotiation ----------------------------
(***************************************************************************)
(* Agreeing on a protocol version: packages/protocol/protocol.go, the      *)
(* handlers of /api/v1/version and /api/v1/protocol/negotiate, and the     *)
(* checks of `headnet diagnostics` in apps/cli/diagnostics.go.             *)
(*                                                                         *)
(* A client of one build talks to a server that may be upgraded or rolled  *)
(* back between any two of its requests.  Diagnostics judges on its own,   *)
(* from the range the server reports; the negotiation is judged by the     *)
(* server, from the range the client sends.                                *)
(***************************************************************************)
EXTENDS Integers

CONSTANTS
  MaxVersion,   \* the newest protocol version of any build
  Capabilities, \* names of capabilities, "" among the strings sent
  MaxUpgrades   \* bound on replacements of the server's build

ASSUME NegotiationAssumption ==
  /\ MaxVersion \in Nat \ {0}
  /\ MaxUpgrades \in Nat

VARIABLES
  client,    \* the client's build: its range and capabilities
  server,    \* the build the server runs now
  since,     \* the builds it has run since diagnostics asked for its range
  step,      \* the client's next step
  report,    \* what diagnostics says: a state for each check
  verdict,   \* what diagnostics concludes about the protocol
  terse,     \* the server reported its version without its oldest one
  oldest,    \* the oldest version it stated to the server, 0 for none
  answer,    \* what the server answers to the negotiation
  upgrades   \* replacements of the server's build so far

negVars ==
  <<client, server, since, step, report, verdict, terse, oldest, answer, upgrades>>

-----------------------------------------------------------------------------
(* Ranges and capabilities.                                                *)

Valid(r) == r.min >= 1 /\ r.version >= r.min

\* The ranges that builds have, and those a request may state.
Ranges == {r \in [version : 1..MaxVersion, min : 1..MaxVersion] : Valid(r)}

Builds == [range : Ranges, caps : SUBSET (Capabilities \ {""})]

Least(a, b) == IF a < b THEN a ELSE b
Greatest(a, b) == IF a > b THEN a ELSE b

\* NewSet and ParseCapabilities drop empty names; a set has no duplicates.
NewSet(names) == names \ {""}

Agreed(v, caps) == [result |-> "agreed", version |-> v, caps |-> caps]

Failed(how) == [result |-> how, version |-> 0, caps |-> {}]

\* Fault: the older of the two oldest versions bounds the window.
NegotiateLow(local, remote, localCaps, remoteCaps) ==
  IF ~Valid(local) \/ ~Valid(remote) THEN Failed("invalid")
  ELSE LET high == Least(local.version, remote.version)
           low == Least(local.min, remote.min)
       IN  IF high >= low THEN Agreed(high, localCaps \cap remoteCaps)
           ELSE Failed(IF remote.version < local.min THEN "peer too old" ELSE "self too old")

Negotiate(local, remote, localCaps, remoteCaps) ==
  IF ~Valid(local) \/ ~Valid(remote) THEN Failed("invalid")
  ELSE LET high == Least(local.version, remote.version)
           low == Greatest(local.min, remote.min)
       IN  IF high >= low THEN Agreed(high, localCaps \cap remoteCaps)
           ELSE Failed(IF remote.version < local.min THEN "peer too old" ELSE "self too old")

-----------------------------------------------------------------------------
(* The server.                                                             *)

\* handleVersion.
VersionResponse == [version |-> server.range.version, min |-> server.range.min]

\* handleNegotiate: a request without an oldest version speaks exactly one.
NegotiateResponse(version, min, names) ==
  LET minVersion == IF min <= 0 THEN version ELSE min
  IN  IF version <= 0 \/ minVersion > version THEN Failed("bad request")
      ELSE Negotiate(server.range, [version |-> version, min |-> minVersion],
                     NewSet(server.caps), NewSet(names))

\* The server is stopped and another build started in its place.
Upgrade ==
  /\ upgrades < MaxUpgrades
  /\ upgrades' = upgrades + 1
  /\ server' \in Builds
  /\ since' = since \cup {server'}
  /\ UNCHANGED <<client, step, report, verdict, terse, oldest, answer>>

-----------------------------------------------------------------------------
(* headnet diagnostics.                                                    *)

Report(check, state) == report' = [report EXCEPT ![check] = state]

\* The name resolves, does not, or is an address.
CheckDNS ==
  /\ step = "dns"
  /\ step' = "reach"
  /\ \E state \in {"pass", "fail", "skipped"} : Report("dns", state)
  /\ UNCHANGED <<client, server, since, verdict, terse, oldest, answer, upgrades>>

\* /health answers 200 (ok or degraded), another status, or not at all.  The
\* protocol is checked only after the first, whatever the lookup said.
CheckReachable ==
  /\ step = "reach"
  /\ \/ /\ Report("server", "pass")
        /\ step' = "version"
     \/ /\ report' = [report EXCEPT !["server"] = "fail", !["protocol"] = "skipped"]
        /\ step' = "negotiate"
  /\ UNCHANGED <<client, server, since, verdict, terse, oldest, answer, upgrades>>

\* A service that is not Headnet answers 200 with a body that sets no field.
Silent == [version |-> 0, min |-> 0]

\* A body that leaves the oldest version out.
Terse == [VersionResponse EXCEPT !.min = 0]

\* Fault: the server is taken to speak its newest version only.
JudgeNewestOnly(remote) ==
  Negotiate(client.range, [remote EXCEPT !.min = remote.version], {}, {})

\* The range as the client understands it, and its verdict.
JudgeRange(remote) ==
  Negotiate(client.range,
            [remote EXCEPT !.min = IF remote.min <= 0 THEN remote.version ELSE remote.min],
            {}, {})

CheckProtocol ==
  /\ step = "version"
  /\ step' = "negotiate"
  /\ since' = {server}
  /\ \/ /\ \E remote \in {VersionResponse, Terse, Silent} :
             verdict' = JudgeRange(remote) /\ terse' = (remote = Terse)
        /\ Report("protocol", IF verdict'.result = "agreed" THEN "pass" ELSE "fail")
     \/ /\ Report("protocol", "fail")
        /\ UNCHANGED <<verdict, terse>>
  /\ UNCHANGED <<client, server, oldest, answer, upgrades>>

-----------------------------------------------------------------------------
(* A client's request to negotiate: with its range, without its oldest     *)
(* version, or with one it does not have; some names may be empty.         *)
RequestNegotiation ==
  /\ step = "negotiate"
  /\ step' = "done"
  /\ oldest' \in {client.range.min, 0, client.range.version + 1}
  /\ \E names \in {client.caps, client.caps \cup {""}} :
       answer' = NegotiateResponse(client.range.version, oldest', names)
  /\ since' = since \cup {server}
  /\ UNCHANGED <<client, server, report, verdict, terse, upgrades>>

NegotiationInit ==
  /\ client \in Builds /\ server \in Builds
  /\ since = {}
  /\ step = "dns"
  /\ report = [c \in {"dns", "server", "protocol"} |-> "pending"]
  /\ verdict = Failed("none") /\ answer = Failed("none")
  /\ terse = FALSE /\ oldest = 0
  /\ upgrades = 0

NegotiationNext ==
  \/ CheckDNS \/ CheckReachable \/ CheckProtocol
  \/ RequestNegotiation \/ Upgrade

NegotiationSpec == NegotiationInit /\ [][NegotiationNext]_negVars

-----------------------------------------------------------------------------
\* The versions of a range, and what an outcome says of the two sides.
Spoken(r) == r.min..r.version

AllBelow(r, q) == \A v \in Spoken(r), w \in Spoken(q) : v < w

\* The outcome is the right one for a side that speaks local.
RightOutcome(out, local, remote) ==
  /\ out.result = "agreed" =>
       /\ out.version \in Spoken(local) \cap Spoken(remote)
       /\ \A v \in Spoken(local) \cap Spoken(remote) : v <= out.version
  /\ out.result = "peer too old" => AllBelow(remote, local)
  /\ out.result = "self too old" => AllBelow(local, remote)

\* The range the server takes the request to state.
Stated == [version |-> client.range.version,
           min |-> IF oldest = 0 THEN client.range.version ELSE oldest]

\* The range build b reports: without an oldest version, exactly one.
Heard(b) == [version |-> b.range.version,
             min |-> IF terse THEN b.range.version ELSE b.range.min]

(* Whatever is agreed is the highest version both ends speak, and a        *)
(* refusal tells to upgrade the end that is behind: for diagnostics and    *)
(* for the server, with respect to what is stated by a build that the      *)
(* server has really run since it was first asked.                         *)
OutcomesAreRight ==
  /\ verdict.result # "none" =>
       \E b \in since : RightOutcome(verdict, client.range, Heard(b))
  /\ answer.result # "none" =>
       \E b \in since : /\ RightOutcome(answer, b.range, Stated)
                        /\ answer.caps \subseteq b.caps \cap client.caps

Mirror == [r \in {"agreed", "peer too old", "self too old"} |->
             CASE r = "agreed" -> "agreed"
               [] r = "peer too old" -> "self too old"
               [] r = "self too old" -> "peer too old"]

(* What diagnostics concludes from the server's range is what the server   *)
(* concludes from the client's, seen from the other end, unless the server *)
(* was replaced in between or one of them was not told a range.            *)
VerdictsAgree ==
  /\ since = {server} /\ ~terse
  /\ verdict.result \in DOMAIN Mirror
  /\ answer.result # "none" /\ oldest = client.range.min
  => /\ answer.result = Mirror[verdict.result]
     /\ answer.version = verdict.version

(* A service that reports no range never passes for a compatible server:   *)
(* the protocol check passes only if the two ends share a version.         *)
PassMeansCompatible ==
  report["protocol"] = "pass" =>
    \E b \in since : Spoken(client.range) \cap Spoken(b.range) # {}
=============================================================================
