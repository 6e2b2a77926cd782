---------------------------- MODULE CallLifecycle ---------------------------
(***************************************************************************)
(* What the server promises about one call-id, without sockets, locks,     *)
(* threads or messages: the order of the SIPCallState values a call may go *)
(* through (utils/sip_msgs.py).  CANCEL is not dispatched, so its states   *)
(* are not part of it.                                                     *)
(***************************************************************************)
CONSTANT CallId

VARIABLES phase,  \* none, or the state of the call
          kind    \* none, REGISTER or INVITE

Phase == {"WAITING_AUTH", "TRYING", "RINGING", "WAITING_ACK", "IN_CALL", "WAITING_BYE"}

Init == phase = [c \in CallId |-> "none"] /\ kind = [c \in CallId |-> "none"]

\* A REGISTER opens a call that waits for the answer to a challenge; so does
\* an INVITE, unless its caller needs none.
Open(c) ==
  /\ kind[c] = "none"
  /\ \E k \in {"REGISTER", "INVITE"}, p \in {"WAITING_AUTH", "TRYING"} :
       /\ k = "REGISTER" => p = "WAITING_AUTH"
       /\ kind' = [kind EXCEPT ![c] = k]
       /\ phase' = [phase EXCEPT ![c] = p]

Move(c, from, to) ==
  /\ kind[c] = "INVITE"
  /\ phase[c] \in from
  /\ phase' = [phase EXCEPT ![c] = to]
  /\ UNCHANGED kind

Invite(c) == Move(c, Phase, "TRYING")        \* also again, from any state
Ring(c) == Move(c, {"TRYING"}, "RINGING")
PickUp(c) == Move(c, {"RINGING"}, "WAITING_ACK")
Establish(c) == Move(c, {"WAITING_ACK"}, "IN_CALL")
HangUp(c) == Move(c, Phase, "WAITING_BYE")

End(c) ==
  /\ kind[c] # "none"
  /\ kind' = [kind EXCEPT ![c] = "none"]
  /\ phase' = [phase EXCEPT ![c] = "none"]

Next == \E c \in CallId :
  Open(c) \/ Invite(c) \/ Ring(c) \/ PickUp(c) \/ Establish(c) \/ HangUp(c) \/ End(c)

Spec == Init /\ [][Next]_<<phase, kind>>
=============================================================================
