------------------------------ MODULE MCPufIpc ------------------------------
(***************************************************************************)
(* PufIpc for TLC, under the two timings its configurations choose from.   *)
(***************************************************************************)
EXTENDS PufIpcInv

\* The TA answers within the sleeps.
AllPrompt == Call

\* It may take any time over any call.
NonePrompt == {}
=============================================================================
