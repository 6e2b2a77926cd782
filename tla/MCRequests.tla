----------------------------- MODULE MCRequests -----------------------------
(* bob logs in and calls alice, from one socket: two workers have his       *)
(* requests at once.  a is registered as alice.                            *)
EXTENDS SipServerClaims, TLC

CONSTANTS a, b, c1, c2, alice, bob, ghost, w1, w2

Message(what, cid, n, from, to, auth, body) ==
  [what |-> what, cid |-> cid, cseq |-> n, from |-> from, to |-> to,
   auth |-> auth, body |-> body]

MCSock == {a, b}
MCUsers == {alice, bob}
MCUri == {alice, bob, ghost}
MCCallId == {c1, c2}
MCWorker == {w1, w2}
MCMenu ==
  (a :> {Message("CANCEL", c1, 2, alice, bob, "none", FALSE),
         Message("INVITE", c2, 1, alice, alice, "none", TRUE),
         Message("INVITE", c2, 1, ghost, bob, "none", TRUE)}) @@
  (b :> {Message("REGISTER", c2, 1, bob, ServerUri, "none", FALSE),
         Message("REGISTER", c2, 2, bob, ServerUri, "right", FALSE),
         Message("INVITE", c1, 1, bob, alice, "none", TRUE),
         Message("INVITE", c1, 2, bob, alice, "wrong", TRUE)})
MCRegistered == (alice :> a) @@ (bob :> NoSock) @@ (ghost :> NoSock)
MCUnruly == {}
=============================================================================
