---------------------------- MODULE MCTlsClient ----------------------------
(***************************************************************************)
(* TlsClient for TLC: the three functions of main.c, with one portion or   *)
(* two instead of four.                                                    *)
(***************************************************************************)
EXTENDS TlsClient

ShortPattern == <<<<2, 3>>, <<2>>, <<3>>>>
=============================================================================
