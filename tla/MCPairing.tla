------------------------------ MODULE MCPairing ------------------------------
(* Instances of Pairing small enough for TLC. *)
EXTENDS Pairing, FiniteSets, TLC

CONSTANTS b1, b2, r1, r2, d1, d2, d3, i1, i2

\* Ids, browsers and request slots are interchangeable; links are not, since
\* they may differ in policy.
Symmetry == Permutations(Device) \union Permutations(Browser) \union Permutations(Request)

\* Bound of the run: names are looked up and given while one request is in flight.
Named == lookups # {} \/ \E d \in Device : namedBy[d] # "guess"
OneNamed == Named => issued = {}
Unnamed == ~Named
=============================================================================
