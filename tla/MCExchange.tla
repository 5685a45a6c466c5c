----------------------------- MODULE MCExchange -----------------------------
(***************************************************************************)
(* Exchange on small instances.                                            *)
(***************************************************************************)
EXTENDS Exchange, TLC

\* Fetches differ by nothing but their trace ids.
Symmetry == Permutations(Fetches)

\* A policy that charges, with and without naming a network, and its successor.
ChargeThenAllow == <<"charge", "allow">>
NamedThenNone   == <<"testnet", None>>

\* A free route.
Allow == <<"allow">>
Unnamed == <<None>>
=============================================================================
