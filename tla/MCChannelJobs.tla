--------------------------- MODULE MCChannelJobs ---------------------------
(* Jobs of a procedure with a work step, two gates in a row and a work step. *)
EXTENDS ChannelJobs

MCGates == {2, 3}
=============================================================================
