----------------------------- MODULE MCRegister -----------------------------
(* Two clients of one account: they register, answer challenges, vanish;   *)
(* one of them also sends what the server refuses.                         *)
EXTENDS SipServerClaims, TLC

CONSTANTS s1, s2, c1, c2, alice, ghost, w1, w2

Message(what, c, n, from, to, auth) ==
  [what |-> what, cid |-> c, cseq |-> n, from |-> from, to |-> to, auth |-> auth, body |-> FALSE]
Register(c, n, auth) == Message("REGISTER", c, n, alice, ServerUri, auth)

MCSock == {s1, s2}
MCUri == {alice, ghost}
MCUsers == {alice}
MCCallId == {c1, c2}
MCWorker == {w1, w2}
MCLogins == (s1 :> {Register(c1, 1, "none"), Register(c1, 2, "right")}) @@
            (s2 :> {Register(c2, 1, "none"), Register(c2, 2, "right")})
MCRefused ==
  {Register(c2, 2, "wrong"), Register(c2, 2, "malformed"),
   Message("REGISTER", c2, 1, alice, alice, "none"),
   Message("REGISTER", c2, 1, ghost, ServerUri, "none"),
   Message("INVALID", c2, 2, alice, alice, "none"),
   Message("OK", c2, 1, alice, ServerUri, "none")}
MCMenu == [MCLogins EXCEPT ![s2] = @ \cup MCRefused]
MCOneWorker == {w1}
MCFirstUnruly == {s1}
MCNobody == [u \in Uri |-> NoSock]
Symmetric == Permutations(MCWorker)
=============================================================================
