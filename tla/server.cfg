SPECIFICATION MCSpec
CONSTANTS
  Width = 4
  Prefixes <- MCPrefixes
  Reserved <- MCReserved
  MinBits = 1
  MaxBits = 2
  MaxEdits = 2
  MaxVersion = 3
  Capabilities = {"", "relay"}
  MaxUpgrades = 1
  Requests = {r1, r2, r3}
  None = None
INVARIANTS
  AcceptedIsUsable
  OutcomesAreRight
  VerdictsAgree
  RequestsAreDrained
  ListenerErrorIsReported
PROPERTIES
  CorrectionsConverge
  SignalEndsProcess
CHECK_DEADLOCK FALSE
