------------------------------- MODULE MCTeam -------------------------------
(* A run of a team of two.  The conductor files one task at a time, or two *)
(* of which the first waits for the second.                                *)
EXTENDS TeamScheduler, TLC

CONSTANTS ann, bob

Task(owner, deps) == [owner |-> owner, deps |-> deps]

MCWaves == {<<Task(ann, {})>>,
            <<Task(ann, {-2}), Task(bob, {})>>}

Symmetry == Permutations(Slots)
=============================================================================
