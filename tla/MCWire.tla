------------------------------- MODULE MCWire -------------------------------
(* The program of alice sends from two threads: the SIP thread answers, the *)
(* GUI thread logs in, calls and hangs up.  Some names have a capital       *)
(* letter, a blank or a colon in them.                                      *)
EXTENDS Wire

MCLowerCase ==
  ("BOB" :> "bob") @@ ("REGISTER" :> "register") @@ ("INVITE" :> "invite")
    @@ ("ACK" :> "ack") @@ ("BYE" :> "bye") @@ ("OPTIONS" :> "options")

Alice == <<"alice">>
Offer == Sdp("ip", "session", 1, 2)
OnlyVoice == Sdp("ip", "session", 0, 2)
Nothing == Sdp("ip", "session", 0, 0)
MCOffers == {Offer, OnlyVoice, Nothing}

Invite(to, offer) == Request("INVITE", to, Alice, "c", "1", <<>>, SdpLines(offer))
Challenged(from) ==
  Request("REGISTER", <<"server">>, from, "r", "2",
          "www-authenticate" :> <<"digest">> \o from, NoBody)
Received == Parse(Build(Invite(Alice, Offer)))

MCSender == {"sip", "gui"}
MCMenu ==
  [sip |-> {Response(Received, "180 Ringing", Alice, NoBody),
            Response(Received, "200 OK", Alice, SdpLines(OnlyVoice))},
   gui |-> {Challenged(<<"BOB">>), Invite(<<"BOB">>, Offer), Invite(<<"bob", " ", "b">>, Nothing),
            Invite(<<"bob">>, Nothing), Invite(<<"bob", ": ", "b">>, Offer)}]
=============================================================================
