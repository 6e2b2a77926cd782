---------------------------- MODULE MCAdmission -----------------------------
(* One address with one connection at a time; the message window, and with *)
(* it the pause of the trimming thread, is longer than the one of the      *)
(* connections.                                                            *)
EXTENDS Admission
=============================================================================
