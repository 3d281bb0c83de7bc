SPECIFICATION Spec
CONSTANTS
  d1 = d1
  d2 = d2
  d3 = d3
  t1 = t1
  t2 = t2
  NoDeploy = none
  LegacyPort <- MCLegacyLow
  DeployIds = {d1, d2, d3}
  Senders = {t1, t2}
  PortRange = {1, 2}
  Gens = {1, 2}
  Remote = {}
  Runtime = "vllm"
  OutsidePorts = {}
  Legacy = {d1}
  MaxRestarts = 1
  Overlap = FALSE
  Garbled = FALSE
  AgentAnswers = TRUE
SYMMETRY SymmetryCalm
CHECK_DEADLOCK FALSE
INVARIANTS
  TypeOK
  ChatsReachOwn
  NoLeak
  EndpointIsOwn
