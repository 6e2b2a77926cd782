------------------------------ MODULE MCCalls -------------------------------
(* alice calls bob: both registered, one call id, every message of a call. *)
EXTENDS SipServerClaims, TLC

CONSTANTS a, b, c1, alice, bob, w1, w2

Message(what, n, from, to) ==
  [what |-> what, cid |-> c1, cseq |-> n, from |-> from, to |-> to,
   auth |-> "none", body |-> what \in {"INVITE", "OK"}]

MCSock == {a, b}
MCUri == {alice, bob}
MCCallId == {c1}
MCWorker == {w1, w2}
MCMenu ==
  (a :> {Message("INVITE", 1, alice, bob), Message("INVITE", 2, alice, bob),
         Message("ACK", 2, alice, bob),
         Message("BYE", 3, alice, bob), Message("OK", 3, alice, bob)}) @@
  (b :> {Message("RINGING", 1, bob, alice), Message("OK", 1, bob, alice),
         Message("DECLINE", 1, bob, alice),
         Message("BYE", 3, bob, alice), Message("OK", 3, bob, alice)})
MCRegistered == (alice :> a) @@ (bob :> b)
MCCallerUnruly == {a}
Symmetric == Permutations(MCWorker)
=============================================================================
