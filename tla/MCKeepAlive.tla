---------------------------- MODULE MCKeepAlive -----------------------------
(* Two clients answer probes or are late; a may vanish; fresh is still to  *)
(* connect.                                                                *)
EXTENDS SipServerClaims, TLC

CONSTANTS a, b, fresh, c1, alice, bob, w1

Pong == [what |-> "OK", cid |-> KeepAliveId, cseq |-> 1, from |-> alice,
         to |-> ServerUri, auth |-> "none", body |-> FALSE]

MCSock == {a, b, fresh}
MCUri == {alice, bob}
MCCallId == {c1}
MCWorker == {w1}
MCMenu == [s \in Sock |-> {Pong}]
MCConnected == {a, b}
MCUnruly == {a}
MCRegistered == (alice :> a) @@ (bob :> NoSock)
=============================================================================
