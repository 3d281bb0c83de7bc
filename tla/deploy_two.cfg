SPECIFICATION Spec
CONSTANTS
  d1 = d1
  d2 = d2
  d3 = d3
  t1 = t1
  t2 = t2
  NoDeploy = none
  LegacyPort <- MCLegacyOne
  DeployIds = {d1, d2}
  Senders = {t1, t2}
  PortRange = {1}
  Gens = {1}
  Remote = {d2}
  Runtime = "docker"
  OutsidePorts = {}
  Legacy = {}
  MaxRestarts = 0
  Overlap = TRUE
  Garbled = TRUE
  AgentAnswers = FALSE
SYMMETRY Symmetry
CHECK_DEADLOCK FALSE
INVARIANTS
  PortsUnique
PROPERTIES
  RegistrySpec
