SPECIFICATION Spec
CONSTANTS
  d1 = d1
  d2 = d2
  d3 = d3
  t1 = t1
  t2 = t2
  NoDeploy = none
  LegacyPort <- MCLegacyPort
  DeployIds = {d1}
  Senders = {t1, t2}
  PortRange = {1, 2, 3}
  Gens = {1}
  Remote = {}
  Runtime = "docker"
  OutsidePorts = {}
  Legacy = {}
  MaxRestarts = 0
  Overlap = TRUE
  Garbled = FALSE
  AgentAnswers = FALSE
SYMMETRY Symmetry
CHECK_DEADLOCK FALSE
PROPERTIES
  DestroyRemoves
