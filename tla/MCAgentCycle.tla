---------------------------- MODULE MCAgentCycle ----------------------------
(***************************************************************************)
(* Instances of AgentCycle for TLC.                                        *)
(***************************************************************************)
EXTENDS AgentCycle, Functions, TLC

\* Every cycle may be given any key: the model's answer repeats itself.
SharedKeysOf == [c \in Cycles |-> Keys]

\* One new key per cycle.
KeyOf == CHOOSE f \in [Cycles -> Keys] : IsInjective(f)
FreshKeysOf == [c \in Cycles |-> {KeyOf[c]}]

Symmetry == Permutations(Cycles)
=============================================================================
