------------------------------ MODULE MCSignup -------------------------------
(* Three clients, two of them for one name, one for a name that is invalid. *)
EXTENDS SignupServer, TLC

CONSTANTS k1, k2, k3, dana, bad, p1, p2

MCClient == {k1, k2, k3}
MCPermit == {p1, p2}
MCName == {dana, bad}
MCValid == {dana}
MCWants == (k1 :> dana) @@ (k2 :> dana) @@ (k3 :> bad)
MCRude == {k3}
=============================================================================
