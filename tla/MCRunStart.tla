---------------------------- MODULE MCRunStart ----------------------------
(* Requests on one thread.  Retries: a1 and a2 share a key and a body, so    *)
(* each is a retry of the other, and c1 reuses the key for another body.     *)
(* Races: b1 has no key and may start a run next to a1's.                    *)
(*                                                                           *)
(* The instance is the union of two: the three requests of the key through   *)
(* every boot, and the race of a1 and b1 through two.                        *)
EXTENDS RunStart, TLC

CONSTANTS a1, a2, b1, c1, k1, bodyA, bodyB

MCKeyOf == [r \in Runs |-> IF r = b1 THEN Nobody ELSE k1]
MCBodyOf == [r \in Runs |-> IF r \in {a1, a2} THEN bodyA ELSE bodyB]

Received == {r \in Runs : req[r] # "idle"}
RetriesOrRace == b1 \in Received => Received \subseteq {a1, b1} /\ boot <= 2
=============================================================================
