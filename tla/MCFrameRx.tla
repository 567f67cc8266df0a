----------------------------- MODULE MCFrameRx -----------------------------
(***************************************************************************)
(* FrameRx for TLC: every stream of at most MaxLen bytes over the two      *)
(* bytes that frame and one that does not.                                 *)
(***************************************************************************)
EXTENDS FrameRx

CONSTANT MaxLen

Alphabet == {START, STOP, 7}
AllStreams == UNION {[1..n -> Alphabet] : n \in 0..MaxLen}
=============================================================================
