------------------------------ MODULE MCServer ------------------------------
(***************************************************************************)
(* Instances of the parts of a server process that share no state: its     *)
(* configuration, the protocol it speaks and the way it ends.  A behaviour *)
(* is one of one part, with the others at rest; interleaving them would    *)
(* multiply the states and show nothing more.                              *)
(***************************************************************************)
EXTENDS Config, Negotiation, Lifecycle, TLC

VARIABLE part

mcVars == <<part, cfgVars, negVars, vars>>

\* Of either family: two good pools, one with host bits, one that contains a
\* reserved range, one that partly lies in one, one too long, one too short.
MCPrefixes ==
  {[v4 |-> family, addr |-> p[1], bits |-> p[2]] :
     family \in BOOLEAN,
     p \in {<<4, 2>>, <<8, 2>>, <<5, 2>>, <<0, 1>>, <<12, 2>>, <<8, 3>>, <<0, 0>>}}

\* The first two and the last two addresses.
MCReserved == {<<0, 3>>, <<14, 3>>}

SomeBuild == CHOOSE b \in Builds : TRUE

MCInit ==
  /\ part \in {"configuration", "protocol", "lifecycle"}
  /\ ConfigInit /\ NegotiationInit /\ Init
  /\ part # "protocol" => client = SomeBuild /\ server = SomeBuild

In(p, A) == part = p /\ A /\ UNCHANGED part

MCNext ==
  \/ In("configuration", ConfigNext) /\ UNCHANGED <<negVars, vars>>
  \/ In("protocol", NegotiationNext) /\ UNCHANGED <<cfgVars, vars>>
  \/ In("lifecycle", Next) /\ UNCHANGED <<cfgVars, negVars>>

\* ConfigFairness and FairSpec, each in its part.
MCFairness ==
  /\ WF_mcVars(In("configuration", Load) /\ UNCHANGED <<negVars, vars>>)
  /\ WF_mcVars(In("configuration", Correct) /\ UNCHANGED <<negVars, vars>>)
  /\ WF_mcVars(In("lifecycle", Main) /\ UNCHANGED <<cfgVars, negVars>>)
  /\ WF_mcVars(In("lifecycle", ServeReturns) /\ UNCHANGED <<cfgVars, negVars>>)
  /\ WF_mcVars(In("lifecycle", GraceEnds) /\ UNCHANGED <<cfgVars, negVars>>)

MCSpec == MCInit /\ [][MCNext]_mcVars /\ MCFairness
=============================================================================
