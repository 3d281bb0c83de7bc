----------------------------- MODULE SpecRecord -----------------------------
(***************************************************************************)
(* core/spec.py: the Spec of a deploy, reduced to what its life turns on:  *)
(* which edition of the user's settings it is (gen: a fresh number for     *)
(* every create and every redeploy) and the port it was given.  The model, *)
(* the runtime flags and the API key are payload that follows gen.         *)
(***************************************************************************)
EXTENDS Ports

CONSTANT Gens    \* editions the environment may produce

ASSUME GensAssumption == Gens \subseteq Nat \ {0} /\ 1 \in Gens

DeploySpec == [gen : Gens \cup {0}, port : PortRange \cup {NoPort}]

\* No spec: nothing running, nothing remembered.
NoSpec == [gen |-> 0, port |-> NoPort]
=============================================================================
