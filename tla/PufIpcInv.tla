----------------------------- MODULE PufIpcInv -----------------------------
(***************************************************************************)
(* The inductive invariant behind FreshResults and CopyAfterInterrupt when *)
(* the TA is prompt.  The two sides take turns on the page: the client     *)
(* prepares call c while both doorbells are silent, the TA has the page    *)
(* from the doorbell to its notification, and the client reads it again    *)
(* only after its interrupt.                                               *)
(***************************************************************************)
EXTENDS PufIpc

\* At most one party holds the turn, and while the client works on the page it
\* is the client; slot is 0 outside the loops.  Nothing ever stores session_arg.ret.
Turns ==
  /\ session_arg_ret = "ok"
  /\ pc \notin {"opened", "sleep", "done"} => Quiet
  /\ ta_irq => ~client_irq /\ ta_pc = "idle"
  /\ client_irq => ta_pc = "idle"
  /\ status = "err" => Quiet
  /\ pc \notin {"fill", "params", "copy"} => slot = 0

\* Where the main thread can be in each kind of call.
Places ==
  /\ pc \in {"fill", "stage", "params", "copy"} => call \in Invoke
  /\ pc \in {"boot", "opened"} => call = "open"
  /\ pc = "sleep" => call # "close"
  /\ pc = "done" => call = "close" \/ status = "err"
  /\ pc # "done" => status = "none"

\* The type in the page is that of the current call as soon as it is written.
Header ==
  /\ call \in Invoke /\ pc \in {"args", "params", "ring", "sleep", "copy"} =>
       msg.call_type = "invoke"
  /\ call \in Invoke /\ pc \in {"params", "ring", "sleep", "copy"} =>
       msg.invoke_args.func = call
  /\ call \notin Invoke /\ pc \in {"args", "ring", "opened", "sleep", "done"}
     /\ status # "err" => msg.call_type = call

\* The descriptors of the current call: in param[] up to the loop's slot, then
\* all of them; and likewise in the page.
Described ==
  call \in Invoke =>
    /\ pc = "fill" => \A i \in Slot : i < slot => param[i] = ParamOf(call, i)
    /\ pc # "fill" => \A i \in Slot : param[i] = ParamOf(call, i)
    /\ pc = "params" => \A i \in Slot : i < slot => msg.params[i] = ParamOf(call, i)
    /\ pc \in {"ring", "sleep", "copy"} =>
         \A i \in Slot : msg.params[i] = ParamOf(call, i)

\* The TA works on the current call, with the descriptors of that call.
Requested ==
  ta_pc # "idle" =>
    /\ ta_req.call = call
    /\ call \in Invoke => \A i \in Slot : ta_req.params[i] = ParamOf(call, i)

\* The challenge of the current call is in the page until the TA has used it.
StagedInPage ==
  call \in Invoke /\ (pc \in {"type", "args", "params", "ring"}
                      \/ (pc = "sleep" /\ (ta_irq \/ ta_pc = "busy"))) =>
    \A i \in Staged(call), w \in Word :
      w <= ParamOf(call, i).b => payload[i][w] = Chal(call, i)

\* No function has ended before the TA was asked for it.
NotYet ==
  \A c \in Invoke : verdict[c] # "none" =>
    \/ Past(c)
    \/ c = call /\ pc \in {"sleep", "copy"} /\ ~ta_irq /\ ta_pc # "busy"

\* Its answer stays in the page until the client has copied it ...
ResultInPage ==
  call \in Invoke /\ verdict[call] = "ok" =>
    \A i \in Slot, w \in Word : w <= Len(call, i) => payload[i][w] = Expected(call, i)

\* ... portion by portion.
CopiedSoFar ==
  pc = "copy" /\ verdict[call] = "ok" =>
    \A i \in Slot, w \in Word :
      i < slot /\ w <= Len(call, i) => data[call][i][w] = Expected(call, i)

\* The buffers hold the challenge until the call's result replaces it.
ChallengeKept ==
  \A c \in Invoke : ~Past(c) /\ ~(c = call /\ pc = "copy") =>
    \A i \in Slot, w \in Word : w <= Len(c, i) => data[c][i][w] = Chal(c, i)

\* The turn comes back to the client through the interrupt of this call.
Acknowledged ==
  call \in Invoke /\ pc \in {"sleep", "copy"} =>
    /\ ~ta_irq /\ ta_pc = "idle" => call \in answered
    /\ Quiet => call \in acked

\* The identifier the TA granted is in the page until the handler has fetched it ...
SessionFetched ==
  /\ verdict["open"] = "ok" /\ verdict["close"] = "none" =>
       IF call = "open" /\ (ta_pc = "notify" \/ client_irq)
       THEN msg.session_args.session \in ta_open
       ELSE session_id \in ta_open
  /\ ta_open # {} => verdict["open"] = "ok"

\* ... and goes from the global through the helper's argument, invoke_func_arg and
\* the page to the TA.
SessionPassed ==
  call \in Invoke =>
    /\ arg_session = session_id
    /\ pc \notin {"fill", "stage"} => invoke_arg.session = session_id
    /\ pc \notin {"fill", "stage", "type", "args"} => msg.invoke_args.session = session_id
    /\ ta_pc # "idle" => ta_req.session = session_id

\* The TA ends each call between the doorbell for it and the interrupt.
Ended ==
  /\ verdict["open"] # "none" <=>
       call # "open" \/ (pc \in {"opened", "sleep"} /\ ~ta_irq /\ ta_pc # "busy")
  /\ verdict["close"] # "none" =>
       call = "close" /\ pc = "done" /\ ~ta_irq /\ ta_pc # "busy"
  /\ ta_pc = "notify" => verdict[ta_req.call] # "none"
  /\ \A c \in answered : verdict[c] # "none"
  /\ pc = "done" => status # "none"

IInv ==
  /\ TypeOK /\ Turns /\ Places /\ Header /\ Described /\ Requested
  /\ StagedInPage /\ NotYet /\ ResultInPage /\ CopiedSoFar /\ ChallengeKept
  /\ Acknowledged /\ FreshResults
  /\ SessionFetched /\ SessionPassed /\ Ended

(***************************************************************************)
(* The invariant behind HandleNeverWrong, which needs no timing: whatever  *)
(* the TA is late with, an identifier in the page is one that it granted,  *)
(* and nobody speaks of a close before challenge_puf does.                 *)
(***************************************************************************)
HandleInv ==
  /\ "close" \in {msg.call_type, ta_req.call} => call = "close"
  /\ call # "close" => {session_id, msg.session_args.session} \subseteq ta_open \cup {0}
=============================================================================
