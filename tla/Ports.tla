------------------------------- MODULE Ports -------------------------------
(***************************************************************************)
(* core/ports.py: the range deployed models listen on, the lowest-first    *)
(* allocation, and the hashed port of a deploy created before allocation   *)
(* existed.  The hash itself is abstracted to an arbitrary function from   *)
(* deploy ids into the range: all the code promises about it is that it is *)
(* stable and that two ids may collide.                                    *)
(***************************************************************************)
EXTENDS Integers

CONSTANTS
  DeployIds,    \* ids uuid4() may mint
  PortRange,    \* PORT_MIN..PORT_MAX in the code
  LegacyPort    \* DeployIds -> PortRange, sha256(id) mod the range

ASSUME PortsAssumption ==
  /\ PortRange \subseteq Nat \ {0}
  /\ LegacyPort \in [DeployIds -> PortRange]

\* A NULL port column, or an endpoint that is None.
NoPort == 0

in_range(port) == port \in PortRange

\* first_free raises NoPortAvailable exactly when this is false.
AnyFree(taken) == PortRange \ taken # {}

\* Mutant of first_free: one past the highest port held.
next_port(taken) ==
  IF taken = {} THEN CHOOSE p \in PortRange : \A q \in PortRange : p <= q
  ELSE 1 + CHOOSE p \in taken : \A q \in taken : q <= p

\* The lowest port of the range that nobody holds.
first_free(taken) ==
  CHOOSE p \in PortRange \ taken : \A q \in PortRange \ taken : p <= q

\* Where a deploy listens: the port of its spec, else its hashed port.
deploy_port(d, port) == IF in_range(port) THEN port ELSE LegacyPort[d]
=============================================================================
