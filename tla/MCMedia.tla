------------------------------ MODULE MCMedia -------------------------------
(* Two calls; a pipe that a picture does not fit in, and one that takes a  *)
(* sound frame as a whole, but one at a time.                              *)
EXTENDS MediaSession

MCPipes == {[room |-> 0, atomic |-> FALSE], [room |-> 0, atomic |-> TRUE]}
=============================================================================
