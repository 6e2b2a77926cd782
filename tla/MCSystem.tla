------------------------------ MODULE MCSystem ------------------------------
(* alice logs in and calls bob, who is logged in, and again; she clicks     *)
(* twice at times, he closes the window at any time.                        *)
EXTENDS CallSystem, TLC

CONSTANTS a, b, c1, c2, c3, alice, bob, w1

MCSock == {a, b}
MCUri == {alice, bob}
MCCallId == {c1, c2, c3}
MCWorker == {w1}
MCSocketOf == (alice :> a) @@ (bob :> b)
MCRegistered == (alice :> NoSock) @@ (bob :> b)
MCAlice == {alice}
MCBob == {bob}

Other(u) == IF u = alice THEN bob ELSE alice
Message(u, what, to, n, auth, body) ==
  {[what |-> what, cid |-> c, cseq |-> i, from |-> u, to |-> to, auth |-> x, body |-> body] :
     c \in CallId, i \in n, x \in auth}
Messages(u) == UNION {
  Message(u, "REGISTER", ServerUri, 1..2, {"none", "right", "wrong"}, FALSE),
  Message(u, "INVITE", Other(u), {1}, {"none"}, TRUE),
  Message(u, "OK", Other(u), {1}, {"none"}, TRUE),
  Message(u, "ACK", Other(u), {2}, {"none"}, FALSE),
  Message(u, "BYE", Other(u), 2..MaxCSeq, {"none"}, FALSE),
  Message(u, "OK", Other(u), 2..MaxCSeq, {"none"}, FALSE),
  Message(u, "RINGING", Other(u), {1}, {"none"}, FALSE),
  Message(u, "DECLINE", Other(u), {1}, {"none"}, FALSE)}
MCMenu == (a :> Messages(alice)) @@ (b :> Messages(bob))
Symmetric == Permutations(MCCallId)
=============================================================================
