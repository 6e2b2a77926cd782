------------------------------- MODULE MCRtp --------------------------------
(* Three payloads, each of one to three packets; the numbers may run out in *)
(* the middle of the third, of the second, or never.                        *)
EXTENDS RtpStream

MCFirstSeqs == {0, 3, 5}
MCSizes == {1, 2, 3}
=============================================================================
