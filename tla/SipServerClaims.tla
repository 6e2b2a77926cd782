-------------------------- MODULE SipServerClaims ---------------------------
(* What a docstring of server/serverFINAL.py says the server does, and the *)
(* model, like the code, does not do: a run of its own refutes it.         *)
EXTENDS SipServerProps

\* _send_to_client: "Close the connection on failure": a close that a worker
\* has begun comes to an end.
FailedSendCloses ==
  \A w \in Worker : At(w, "conn") ~> ~At(w, "conn")
=============================================================================
