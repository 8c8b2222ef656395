----------------------------- MODULE MCPairing -----------------------------
(***************************************************************************)
(* Two devices for TLC, in two topologies: Alice's device starts both      *)
(* exchanges with Bob's, or each device starts one with the other.         *)
(***************************************************************************)
EXTENDS Pairing, TLC

CONSTANTS alice, bob, x1, x2

SingleFrom == x1 :> alice
SingleTo == x1 :> bob
OneWayFrom == (x1 :> alice) @@ (x2 :> alice)
OneWayTo == (x1 :> bob) @@ (x2 :> bob)
CrossFrom == (x1 :> alice) @@ (x2 :> bob)
CrossTo == (x1 :> bob) @@ (x2 :> alice)

\* Sound in the one-way topology, where the exchanges differ in nothing.
Interchangeable == Permutations({x1, x2})

\* Where a run looks only for what goes wrong without any mishap.
NoMishap ==
  /\ \A x \in Exch : task[x] \notin {"failed", "declined"}
  /\ \A d, e \in Device : attempts[d][e] = NoAttempts
=============================================================================
