------------------------------ MODULE SipText -------------------------------
(***************************************************************************)
(* SIP messages and SDP offers as text and back (utils/sip_msgs.py,        *)
(* utils/sdp_class.py).  A text is a sequence of tokens: the pieces that   *)
(* the conversions write, cut at, and turn into lower case.  A name is a   *)
(* sequence of tokens too, since it may have a blank in it.                *)
(***************************************************************************)
EXTENDS Naturals, SequencesExt

CONSTANT LowerCase \* what str.lower makes of the tokens that it changes

Method == {"REGISTER", "INVITE", "ACK", "BYE", "OPTIONS"}

LowerToken(t) == IF t \in DOMAIN LowerCase THEN LowerCase[t] ELSE t
Lower(text) == [i \in DOMAIN text |-> LowerToken(text[i])]
Upper(word) == CHOOSE m \in Method : LowerToken(m) = LowerToken(word)

\* str.split(sep), and str.split(), which drops what is empty
Split(text, sep) ==
  FoldLeft(LAMBDA parts, t : IF t = sep THEN Append(parts, <<>>)
                             ELSE [parts EXCEPT ![Len(parts)] = Append(@, t)],
           <<<<>>>>, text)
Words(text) == SelectSeq(Split(text, " "), LAMBDA part : part # <<>>)

-----------------------------------------------------------------------------
(* SDP: a body is the set of its lines *)

NoBody == {}

\* A port that is not offered is 0.
Sdp(ip, session, video, audio) ==
  [ip |-> ip, session_id |-> session, video_port |-> video, audio_port |-> audio]

\* SDP.__str__
MediaLine(media, port) ==
  IF port = 0 THEN {} ELSE {[key |-> "m", media |-> media, port |-> port]}
SdpLines(s) ==
  {[key |-> "v"], [key |-> "o", session |-> s.session_id, ip |-> s.ip], [key |-> "c", ip |-> s.ip]}
    \cup MediaLine("audio", s.audio_port) \cup MediaLine("video", s.video_port)

\* SDP.parse: what it returns, None being the empty set
SdpCanParse(lines) == {"v", "o", "c", "m"} \subseteq {l.key : l \in lines}
PortOf(lines, media) ==
  LET offered == {l \in lines : l.key = "m"}
      m == {l \in offered : l.media = media}
  IN  IF m = {} THEN 0 ELSE (CHOOSE l \in m : TRUE).port
SdpParse(lines) ==
  {Sdp(o.ip, o.session, PortOf(lines, "video"), PortOf(lines, "audio")) :
     o \in {l \in lines : l.key = "o" /\ SdpCanParse(lines)}}

-----------------------------------------------------------------------------
(* Messages: the words of the start line, the headers and the body *)

\* set_body; the content-length of a message without a body is 0, which
\* set_header takes for no value and does not set.
Bodied(headers, body) ==
  IF body = NoBody THEN headers ELSE ("content-length" :> "n") @@ headers

\* create_request
Request(method, to, from, cid, n, extra, body) ==
  [kind |-> "request", start |-> <<<<method>>, to>>,
   headers |-> Bodied(extra @@ ("to" :> to) @@ ("from" :> from) @@ ("call-id" :> <<cid>>)
                        @@ ("cseq" :> <<n, method>>), body),
   body |-> body]

\* create_response_from_request
Response(request, status, from, body) ==
  [kind |-> "response", start |-> <<<<status>>>>,
   headers |-> Bodied([key \in {"to", "from", "call-id", "cseq"} |->
                         IF key = "to" THEN request.headers["from"]
                         ELSE IF key = "from" THEN from ELSE request.headers[key]], body),
   body |-> body]

\* __str__
StartLine(msg) ==
  IF msg.kind = "response" THEN <<"SIP/2.0", " ">> \o msg.start[1]
  ELSE msg.start[1] \o <<" ", "sip:">> \o msg.start[2] \o <<" ", "SIP/2.0">>
Value(key, value) ==
  CASE key \in {"to", "from"}   -> <<"<sip:">> \o value \o <<">">>
    [] key = "cseq"             -> <<value[1], " ", value[2]>>
    [] key = "content-length"   -> <<value>>
    [] OTHER                    -> value
Build(msg) ==
  [start |-> StartLine(msg),
   lines |-> {<<key, ": ">> \o Value(key, msg.headers[key]) : key \in DOMAIN msg.headers},
   body |-> msg.body]

\* parse raises on a start line and on a header line that can_parse lets
\* through although they have more parts than it wants.
IsRequest(text) == text.start[1] # "SIP/2.0"
Parts(line) == Split(Lower(line), ": ")
Raises(text) ==
  \/ IsRequest(text) /\ Len(Words(text.start)) # 3
  \/ \E line \in text.lines : Len(Parts(line)) # 2

StrippedVariant(key, value) ==
  CASE key \in {"to", "from"}   -> SubSeq(value, 2, Len(value) - 1)
    [] key = "cseq"             -> <<value[1], value[3]>>
    [] key = "content-length"   -> value[1]
    [] OTHER                    -> value
\* _strip_essential_headers
Stripped(key, value) ==
  CASE key \in {"to", "from"}   -> SubSeq(value, 2, Len(value) - 1)
    [] key = "cseq"             -> <<value[1], Upper(value[3])>>
    [] key = "content-length"   -> value[1]
    [] OTHER                    -> value
ParsedStart(text) ==
  IF IsRequest(text)
  THEN LET words == Words(text.start) IN <<words[1], Tail(words[2])>>
  ELSE <<SubSeq(text.start, 3, Len(text.start))>>
Parse(text) ==
  LET keys == {Parts(line)[1][1] : line \in text.lines}
      value(key) == Parts(CHOOSE line \in text.lines : Parts(line)[1][1] = key)[2]
  IN  [kind |-> IF IsRequest(text) THEN "request" ELSE "response",
       start |-> ParsedStart(text),
       headers |-> [key \in keys |-> Stripped(key, value(key))],
       body |-> text.body]
=============================================================================
