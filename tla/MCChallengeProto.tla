-------------------------- MODULE MCChallengeProto --------------------------
(***************************************************************************)
(* ChallengeProto for TLC: the three functions of main.c with the four     *)
(* portions of pattern_init_commit and pattern_proofs, 32 bytes shortened  *)
(* to two units and 64 to three.                                           *)
(***************************************************************************)
EXTENDS ChallengeInv

InitCommit == <<2, 2, 2, 2>>
Proofs == <<2, 2, 3, 3>>
MainPattern == <<InitCommit, InitCommit, Proofs>>
=============================================================================
