---------------------------- MODULE MCWebClient -----------------------------
(* The instance of WebClient for TLC.                                      *)
EXTENDS WebClient, TLC
=============================================================================
