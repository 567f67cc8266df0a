----------------------------- MODULE MCUartEcho -----------------------------
(***************************************************************************)
(* UartEcho for TLC: MSG_SIZE 3 for 32 and 64, a queue of two for ten, so  *)
(* that a few characters fill both.                                        *)
(***************************************************************************)
EXTENDS UartEcho

MCLineEnds == {"CR", "LF"}
OneLineEnd == {"LF"}
MCLetters == {"a"}
=============================================================================
