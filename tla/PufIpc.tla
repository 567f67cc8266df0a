------------------------------- MODULE PufIpc -------------------------------
(***************************************************************************)
(* How the TLS client's VM asks the PUF trusted application (TA) for its   *)
(* three answers: challenge_puf() and the call_puf_ta_* helpers            *)
(* (pufcaller.c), the TEE driver under them (crosscon_hv_tee.c) and the    *)
(* interrupt handler that collects replies (crosscon_hv_config.c).         *)
(*                                                                         *)
(* Three parties run: the client's main thread (pc), its interrupt         *)
(* handler (which preempts the thread between any two of its stores), and  *)
(* the TA in the other VM (ta_pc).  All they share is one message in a     *)
(* page, a doorbell in each direction, and time: the client never          *)
(* waits for the interrupt, it sleeps 200 ms or 1 s and then goes on.      *)
(*                                                                         *)
(* Prompt is the set of calls the TA answers, interrupt included, before   *)
(* that sleep is over.  Prompt = Call is the timing the code counts on.    *)
(***************************************************************************)
EXTENDS PufLayout

CONSTANTS
  Sessions,    \* the session identifiers the TA hands out
  Prompt       \* the calls answered before the client's sleep ends

(***************************************************************************)
(* The calls of challenge_puf, in its order, and the data that move.       *)
(***************************************************************************)
Invoke == {"init", "commit", "proofs"}
Call == Invoke \cup {"open", "close"}
Rank == [c \in Call |-> CASE c = "open" -> 1 [] c = "init" -> 2
                          [] c = "commit" -> 3 [] c = "proofs" -> 4
                          [] c = "close" -> 5]
NextCall == [c \in Call |-> CASE c = "open" -> "init" [] c = "init" -> "commit"
                              [] c = "commit" -> "proofs" [] OTHER -> "close"]

ASSUME SessionsAssumption == Sessions \subseteq Nat
ASSUME PromptAssumption == Prompt \subseteq Call

\* A 32-byte word: zeros, portion i of c's challenge, portion i of c's answer,
\* or anything else.
Zero == [kind |-> "zero", call |-> "none", slot |-> 0]
Junk == [kind |-> "junk", call |-> "none", slot |-> 0]
Chal(c, i)   == [kind |-> "chal", call |-> c, slot |-> i]
Answer(c, i) == [kind |-> "answer", call |-> c, slot |-> i]
Datum == [kind : {"zero", "junk", "chal", "answer"},
          call : Invoke \cup {"none"}, slot : Slot]

\* A struct tee_param describing a memref: its type, a = the slot whose offset
\* it holds, b = its length in words.  Param 0 of all zeros points to slot 0.
Descriptor == [attr : {"none", "input", "output", "inout"}, a : Slot, b : 0..2]
NoDesc == [attr |-> "none", a |-> 0, b |-> 0]

\* A mistake for TLC to find: the last proof described as one word.
ParamOf_short(c, i) ==
  [attr |-> CASE c = "init" -> "output"
              [] c = "commit" -> IF i \in {0, 1} THEN "input" ELSE "output"
              [] OTHER -> IF i \in {0, 1, 2} THEN "inout" ELSE "output",
   a |-> i,
   b |-> IF c = "proofs" /\ i = 2 THEN 2 ELSE 1]

\* The descriptor call_puf_ta_init, _get_commitment and _get_zk_proofs put in
\* param[i].
ParamOf(c, i) ==
  [attr |-> CASE c = "init" -> "output"
              [] c = "commit" -> IF i \in {0, 1} THEN "input" ELSE "output"
              [] OTHER -> IF i \in {0, 1, 2} THEN "inout" ELSE "output",
   a |-> i,
   b |-> IF c = "proofs" /\ i \in {2, 3} THEN 2 ELSE 1]

\* A mistake for TLC to find: the third memcpy forgotten.
Staged_missing(c) == IF c = "init" THEN {} ELSE {0, 1}

\* The portions of the challenge each helper copies into the payload.
Staged(c) == CASE c = "init" -> {}
               [] c = "commit" -> {0, 1}
               [] OTHER -> {0, 1, 2}

\* data_p[i].len of c's func_call_t, in words (the patterns of challenge.c).
Len(c, i) == IF c = "proofs" /\ i \in {2, 3} THEN 2 ELSE 1

VARIABLES
  pc,              \* where the main thread is in challenge_puf
  call,            \* the call it is in
  slot,            \* index of the loop it is in
  status,          \* what challenge_puf returned: "ok" for 0, "err" for -1
  irq_enabled,     \* irq_enable(IPC_IRQ_ID) was called
  arg_session,     \* the session_id passed to the helper
  param,           \* global param[]
  session_id,      \* global session_id
  session_arg_ret, \* global session_arg.ret
  invoke_arg,      \* global invoke_func_arg: session and ret
  data,            \* the func_call_t buffers handed to challenge_puf
  msg,             \* GP_SharedMessage without the payload
  payload,         \* GP_SharedMessage.payload
  ta_irq,          \* doorbell client -> TA, not yet taken
  client_irq,      \* IPC interrupt pending at the client
  ta_pc,           \* the TA: idle, busy or about to notify
  ta_req,          \* the request header it works on
  ta_open,         \* sessions it holds open
  verdict,         \* how the TA ended each call ("none" if it did not)
  answered,        \* calls whose completion the TA has signalled
  acked            \* calls whose completion the handler has seen

client_vars == <<pc, call, slot, status, irq_enabled, arg_session, data,
                 session_arg_ret>>
irq_vars == <<param, session_id, invoke_arg>>
ta_vars == <<ta_pc, ta_req, ta_open, verdict, answered>>
vars == <<client_vars, irq_vars, msg, payload, ta_irq, client_irq, ta_vars, acked>>

Verdict == {"none", "ok", "err"}
AnySession == Sessions \cup {0}
Msg == [call_type : {"invoke", "open", "close"},
        session_args : [session : AnySession, ret : {"ok", "err"}],
        invoke_args : [func : Invoke \cup {"none"}, session : AnySession,
                       ret : {"ok", "err"}],
        params : [Slot -> Descriptor]]
Request == [call : Call \cup {"none"}, session : AnySession,
            params : [Slot -> Descriptor]]

TypeOK ==
  /\ pc \in {"boot", "fill", "stage", "type", "args", "params", "ring",
             "opened", "sleep", "copy", "done"}
  /\ call \in Call
  /\ slot \in Slot
  /\ status \in Verdict
  /\ irq_enabled \in BOOLEAN
  /\ arg_session \in AnySession
  /\ param \in [Slot -> Descriptor]
  /\ session_id \in AnySession
  /\ session_arg_ret \in {"ok", "err"}
  /\ invoke_arg \in [session : AnySession, ret : {"ok", "err"}]
  /\ data \in [Invoke -> [Slot -> [Word -> Datum]]]
  /\ msg \in Msg
  /\ payload \in [Slot -> [Word -> Datum]]
  /\ ta_irq \in BOOLEAN
  /\ client_irq \in BOOLEAN
  /\ ta_pc \in {"idle", "busy", "notify"}
  /\ ta_req \in Request
  /\ ta_open \subseteq Sessions
  /\ verdict \in [Call -> Verdict]
  /\ answered \subseteq Call
  /\ acked \subseteq Call

(***************************************************************************)
(* The page and the globals are zero at boot; the buffers hold what the    *)
(* server sent.                                                            *)
(***************************************************************************)
Init ==
  /\ pc = "boot" /\ call = "open" /\ slot = 0 /\ status = "none"
  /\ irq_enabled = FALSE
  /\ arg_session = 0 /\ session_id = 0 /\ session_arg_ret = "ok"
  /\ param = [i \in Slot |-> NoDesc]
  /\ invoke_arg = [session |-> 0, ret |-> "ok"]
  /\ data = [c \in Invoke |-> [i \in Slot |-> [w \in Word |->
               IF w <= Len(c, i) THEN Chal(c, i) ELSE Zero]]]
  /\ msg = [call_type |-> "invoke",
            session_args |-> [session |-> 0, ret |-> "ok"],
            invoke_args |-> [func |-> "none", session |-> 0, ret |-> "ok"],
            params |-> [i \in Slot |-> NoDesc]]
  /\ payload = [i \in Slot |-> [w \in Word |-> Zero]]
  /\ ta_irq = FALSE /\ client_irq = FALSE
  /\ ta_pc = "idle" /\ ta_open = {}
  /\ ta_req = [call |-> "none", session |-> 0, params |-> [i \in Slot |-> NoDesc]]
  /\ verdict = [c \in Call |-> "none"]
  /\ answered = {} /\ acked = {}

(***************************************************************************)
(* The client's main thread.                                               *)
(***************************************************************************)

\* vm_init() and device_get_binding(), which may find no driver.
Bind ==
  /\ pc = "boot"
  /\ irq_enabled' = TRUE
  /\ \/ pc' = "type" /\ status' = status
     \/ pc' = "done" /\ status' = "err"
  /\ UNCHANGED <<call, slot, arg_session, data, session_arg_ret, irq_vars,
                 msg, payload, ta_irq, client_irq, ta_vars, acked>>

\* A mistake for TLC to find: one turn too many.
Turn_late(next) ==
  /\ slot' = IF slot = 4 THEN 0 ELSE slot + 1
  /\ pc' = IF slot = 4 THEN next ELSE pc

\* One turn of a loop over the four parameters; then on to next.
Turn(next) ==
  /\ slot' = IF slot = 3 THEN 0 ELSE slot + 1
  /\ pc' = IF slot = 3 THEN next ELSE pc

\* The helper describes its memrefs in the global param[].
FillParam ==
  /\ pc = "fill"
  /\ param' = [param EXCEPT ![slot] = ParamOf(call, slot)]
  /\ Turn("stage")
  /\ UNCHANGED <<call, status, irq_enabled, arg_session, data, session_arg_ret,
                 session_id, invoke_arg, msg, payload, ta_irq, client_irq,
                 ta_vars, acked>>

\* memset(shm_ptr, 0, 1024)
Wipe(mem) ==
  [i \in Slot |-> [w \in Word |-> CASE WipedWord(i, w) -> Zero
                                    [] TornWord(i, w) -> Junk
                                    [] OTHER -> mem[i][w]]]

\* A mistake for TLC to find: the payload is cleared and nothing is copied.
StageInto_nothing(mem, c) == mem

\* memcpy(shm_ptr + param[i].a, data_p[i].data, param[i].b) for the portions c
\* stages; no two of them describe the same slot.
StageInto(mem, c) ==
  [k \in Slot |-> [w \in Word |->
     LET src == {i \in Staged(c) : param[i].a = k /\ w <= param[i].b}
     IN  IF src = {} THEN mem[k][w]
         ELSE data[c][CHOOSE i \in src : \A j \in src : j <= i][w]]]

\* invoke_func_arg, then the payload: the init call stages and clears nothing.
Stage ==
  /\ pc = "stage"
  /\ invoke_arg' = [session |-> arg_session, ret |-> "ok"]
  /\ payload' = IF call = "init" THEN payload ELSE StageInto(Wipe(payload), call)
  /\ pc' = "type"
  /\ UNCHANGED <<call, slot, status, irq_enabled, arg_session, data,
                 session_arg_ret, param, session_id, msg, ta_irq, client_irq,
                 ta_vars, acked>>

\* A mistake for TLC to find: the proofs sent with the type of a close.
TypeOf_wrong(c) == CASE c = "proofs" -> "close" [] c \in Invoke -> "invoke" [] OTHER -> c

\* The driver's first store is the type of the call ...
TypeOf(c) == IF c \in Invoke THEN "invoke" ELSE c

WriteType ==
  /\ pc = "type"
  /\ msg' = [msg EXCEPT !.call_type = TypeOf(call)]
  /\ pc' = "args"
  /\ UNCHANGED <<call, slot, status, irq_enabled, arg_session, data,
                 session_arg_ret, irq_vars, payload, ta_irq, client_irq,
                 ta_vars, acked>>

\* A mistake for TLC to find: memset after the session was stored.
SessionArgs_cleared == [session |-> 0, ret |-> "ok"]

\* ... and its arguments follow: session_args for open and close, invoke_args
\* for the rest.  The close was handed session_id by value a store earlier; no interrupt
\* in between finds the type of an open in the page and changes it.
SessionArgs == [session |-> IF call = "close" THEN session_id ELSE 0, ret |-> "ok"]
InvokeArgs == [func |-> call, session |-> invoke_arg.session, ret |-> "ok"]

WriteArgs ==
  /\ pc = "args"
  /\ msg' = IF call \in Invoke THEN [msg EXCEPT !.invoke_args = InvokeArgs]
                               ELSE [msg EXCEPT !.session_args = SessionArgs]
  /\ pc' = IF call \in Invoke THEN "params" ELSE "ring"
  /\ UNCHANGED <<call, slot, status, irq_enabled, arg_session, data,
                 session_arg_ret, irq_vars, payload, ta_irq, client_irq,
                 ta_vars, acked>>

\* The driver's loop copies param[] into the message.
WriteParam ==
  /\ pc = "params"
  /\ msg' = [msg EXCEPT !.params[slot] = param[slot]]
  /\ Turn("ring")
  /\ UNCHANGED <<call, status, irq_enabled, arg_session, data, session_arg_ret,
                 irq_vars, payload, ta_irq, client_irq, ta_vars, acked>>

\* ipc_notify(0, 0): doorbells coalesce.  challenge_puf returns 0 after the
\* close, waiting for nothing.
Ring ==
  /\ pc = "ring"
  /\ ta_irq' = TRUE
  /\ pc' = CASE call = "open" -> "opened" [] call = "close" -> "done"
             [] OTHER -> "sleep"
  /\ status' = IF call = "close" THEN "ok" ELSE status
  /\ UNCHANGED <<call, slot, irq_enabled, arg_session, data, session_arg_ret,
                 irq_vars, msg, payload, client_irq, ta_vars, acked>>

\* res != 0 || session_arg.ret != 0, with res the constant 0 of the driver.
CheckOpened ==
  /\ pc = "opened"
  /\ IF session_arg_ret = "ok"
     THEN pc' = "sleep" /\ status' = status
     ELSE pc' = "done" /\ status' = "err"
  /\ UNCHANGED <<call, slot, irq_enabled, arg_session, data, session_arg_ret,
                 irq_vars, msg, payload, ta_irq, client_irq, ta_vars, acked>>

\* Neither doorbell is pending and the TA has nothing in hand.
Quiet == ~ta_irq /\ ~client_irq /\ ta_pc = "idle"

\* A mistake for TLC to find: the session read before the reply to the open.
Enter_early(c) ==
  /\ call' = c
  /\ pc' = IF c = "close" THEN "type" ELSE "fill"
  /\ arg_session' = arg_session

\* The session that the next helper is given, as challenge_puf enters it.
Enter(c) ==
  /\ call' = c
  /\ pc' = IF c = "close" THEN "type" ELSE "fill"
  /\ arg_session' = session_id

\* Two mistakes for TLC to find: no sleep at all, and a wait without a limit.
Wake_at_once ==
  /\ pc = "sleep"
  /\ IF call = "open"
     THEN Enter("init")
     ELSE pc' = "copy" /\ UNCHANGED <<call, arg_session>>
  /\ UNCHANGED <<slot, status, irq_enabled, data, session_arg_ret, irq_vars,
                 msg, payload, ta_irq, client_irq, ta_vars, acked>>
Wake_on_reply ==
  /\ pc = "sleep" /\ Quiet
  /\ IF call = "open"
     THEN Enter("init")
     ELSE pc' = "copy" /\ UNCHANGED <<call, arg_session>>
  /\ UNCHANGED <<slot, status, irq_enabled, data, session_arg_ret, irq_vars,
                 msg, payload, ta_irq, client_irq, ta_vars, acked>>

\* k_msleep() ends.  After the open the first helper is called; after the others
\* the driver's res is looked at, which is the constant 0.
Wake ==
  /\ pc = "sleep"
  /\ call \in Prompt => Quiet
  /\ IF call = "open"
     THEN Enter("init")
     ELSE pc' = "copy" /\ UNCHANGED <<call, arg_session>>
  /\ UNCHANGED <<slot, status, irq_enabled, data, session_arg_ret, irq_vars,
                 msg, payload, ta_irq, client_irq, ta_vars, acked>>

\* cpy_last_result: portion by portion, whatever its type, from the offset in
\* param[], as many bytes as the buffer holds.
CopyResult ==
  /\ pc = "copy"
  /\ data' = [data EXCEPT ![call][slot] =
                [w \in Word |-> IF w <= Len(call, slot)
                                THEN payload[param[slot].a][w]
                                ELSE data[call][slot][w]]]
  /\ slot' = IF slot = 3 THEN 0 ELSE slot + 1
  /\ IF slot = 3 THEN Enter(NextCall[call]) ELSE UNCHANGED <<pc, call, arg_session>>
  /\ UNCHANGED <<status, irq_enabled, session_arg_ret, irq_vars, msg, payload,
                 ta_irq, client_irq, ta_vars, acked>>

(***************************************************************************)
(* The client's interrupt handler.  It runs to completion before the       *)
(* thread goes on, and believes the call type that is in the page NOW.     *)
(***************************************************************************)
ipc_irq_client_handler ==
  /\ irq_enabled /\ client_irq
  /\ client_irq' = FALSE
  /\ CASE msg.call_type = "invoke" ->
            /\ invoke_arg' = [invoke_arg EXCEPT !.ret = msg.invoke_args.ret]
            /\ param' = msg.params
            /\ session_id' = session_id
       [] msg.call_type = "open" ->
            /\ session_id' = msg.session_args.session
            /\ UNCHANGED <<invoke_arg, param>>
       [] OTHER -> UNCHANGED irq_vars
  /\ acked' = answered
  /\ UNCHANGED <<client_vars, msg, payload, ta_irq, ta_vars>>

(***************************************************************************)
(* The trusted application in the other VM, as its client uses it.         *)
(***************************************************************************)

\* It answers the doorbell with the header it finds.
TaTake ==
  /\ ta_pc = "idle" /\ ta_irq
  /\ ta_irq' = FALSE
  /\ ta_req' = IF msg.call_type = "invoke"
               THEN [call |-> msg.invoke_args.func,
                     session |-> msg.invoke_args.session, params |-> msg.params]
               ELSE [call |-> msg.call_type,
                     session |-> msg.session_args.session, params |-> msg.params]
  /\ ta_pc' = "busy"
  /\ UNCHANGED <<client_vars, irq_vars, msg, payload, client_irq, ta_open,
                 verdict, answered, acked>>

\* It opens a session and writes its identifier, or refuses.
TaOpen ==
  /\ ta_pc = "busy" /\ ta_req.call = "open"
  /\ \/ \E s \in Sessions \ ta_open :
          /\ ta_open' = ta_open \cup {s}
          /\ msg' = [msg EXCEPT !.session_args = [session |-> s, ret |-> "ok"]]
          /\ verdict' = [verdict EXCEPT !["open"] = "ok"]
     \/ /\ msg' = [msg EXCEPT !.session_args.ret = "err"]
        /\ verdict' = [verdict EXCEPT !["open"] = "err"]
        /\ UNCHANGED ta_open
  /\ ta_pc' = "notify"
  /\ UNCHANGED <<client_vars, irq_vars, payload, ta_irq, client_irq, ta_req,
                 answered, acked>>

\* The parameters whose memref covers word w of slot k and is of a type in T.
Covering(T, k, w) == {i \in Slot : /\ ta_req.params[i].attr \in T
                                   /\ ta_req.params[i].a = k
                                   /\ w <= ta_req.params[i].b}

\* Every input it was given is the portion of the challenge it asked for.
InputsRight ==
  \A k \in Slot, w \in Word :
    \A i \in Covering({"input", "inout"}, k, w) :
      payload[k][w] = Chal(ta_req.call, i)

\* What it leaves in the payload: its answer if the inputs were right.
TaOutput ==
  [k \in Slot |-> [w \in Word |->
     LET out == Covering({"output", "inout"}, k, w)
     IN  IF out = {} THEN payload[k][w]
         ELSE IF InputsRight
              THEN Answer(ta_req.call, CHOOSE i \in out : \A j \in out : j <= i)
              ELSE Junk]]

\* It computes an answer, or fails, or is asked for a session it does not hold.
TaInvoke ==
  /\ ta_pc = "busy" /\ ta_req.call \in Invoke
  /\ \/ /\ ta_req.session \in ta_open
        /\ payload' = TaOutput
        /\ msg' = [msg EXCEPT !.invoke_args.ret = "ok"]
        /\ verdict' = [verdict EXCEPT ![ta_req.call] = "ok"]
     \/ /\ msg' = [msg EXCEPT !.invoke_args.ret = "err"]
        /\ verdict' = [verdict EXCEPT ![ta_req.call] = "err"]
        /\ UNCHANGED payload
  /\ ta_pc' = "notify"
  /\ UNCHANGED <<client_vars, irq_vars, ta_irq, client_irq, ta_req, ta_open,
                 answered, acked>>

\* It releases the session, if it holds it.
TaClose ==
  /\ ta_pc = "busy" /\ ta_req.call = "close"
  /\ ta_open' = ta_open \ {ta_req.session}
  /\ verdict' = [verdict EXCEPT !["close"] =
                   IF ta_req.session \in ta_open THEN "ok" ELSE "err"]
  /\ ta_pc' = "notify"
  /\ UNCHANGED <<client_vars, irq_vars, msg, payload, ta_irq, client_irq,
                 ta_req, answered, acked>>

\* An invocation whose arguments are not there yet names no function it knows.
TaUnknown ==
  /\ ta_pc = "busy" /\ ta_req.call = "none"
  /\ msg' = [msg EXCEPT !.invoke_args.ret = "err"]
  /\ ta_pc' = "notify"
  /\ UNCHANGED <<client_vars, irq_vars, payload, ta_irq, client_irq, ta_req,
                 ta_open, verdict, answered, acked>>

\* It rings back; interrupts at the client coalesce.
TaNotify ==
  /\ ta_pc = "notify"
  /\ client_irq' = TRUE
  /\ answered' = answered \cup (Call \cap {ta_req.call})
  /\ ta_pc' = "idle"
  /\ UNCHANGED <<client_vars, irq_vars, msg, payload, ta_irq, ta_req, ta_open,
                 verdict, acked>>

(***************************************************************************)
(* The whole.  Zephyr keeps the only busy thread running and takes its     *)
(* interrupts; the hypervisor gives the TA's VM its share of the core.     *)
(***************************************************************************)
MainThread == \/ Bind \/ FillParam \/ Stage \/ WriteType \/ WriteArgs
              \/ WriteParam \/ Ring \/ CheckOpened \/ Wake \/ CopyResult
TrustedApp == TaTake \/ TaOpen \/ TaInvoke \/ TaClose \/ TaUnknown \/ TaNotify

\* challenge_puf has returned and nothing is left to be delivered.
Terminated == pc = "done" /\ Quiet /\ UNCHANGED vars

Next == MainThread \/ ipc_irq_client_handler \/ TrustedApp \/ Terminated

Spec == Init /\ [][Next]_vars

Fairness == WF_vars(MainThread) /\ WF_vars(ipc_irq_client_handler)
            /\ WF_vars(TrustedApp)

FairSpec == Spec /\ Fairness

\* The client alone: nothing is assumed of the TA or of the hypervisor.
ClientSpec == Spec /\ WF_vars(MainThread)

(***************************************************************************)
(* Correctness.                                                            *)
(***************************************************************************)

\* challenge_puf is done with c.
Past(c) == Rank[call] > Rank[c]

\* What portion i must hold when c has succeeded: the answer, or, where the TA
\* only reads, the challenge itself.
Expected(c, i) == IF ParamOf(c, i).attr = "input" THEN Chal(c, i) ELSE Answer(c, i)
HasResult(c) == \A i \in Slot, w \in Word :
                  w <= Len(c, i) => data[c][i][w] = Expected(c, i)

\* When the TA ran a function well, the buffers handed back to the TLS client
\* hold that function's answer for this challenge, in every portion: no word of
\* an earlier call, of another slot, or of the cleared page (cpy_last_result).
FreshResults == \A c \in Invoke : Past(c) /\ verdict[c] = "ok" => HasResult(c)

\* cpy_last_result runs only after the interrupt handler has seen the completion
\* of this very call: "Give time to process, wait for interrupt".
CopyAfterInterrupt == pc = "copy" => call \in acked

\* The session identifier the client passes on is, from the first function to
\* the close, the one the TA granted and still holds open (the handler's
\* session_id against the TA's own record).
SessionAgreement ==
  /\ verdict["open"] = "ok" /\ call # "open" /\ verdict["close"] = "none" =>
       session_id \in ta_open
  /\ ta_pc = "busy" /\ ta_req.call \in Invoke /\ verdict["open"] = "ok" =>
       ta_req.session \in ta_open

\* However late the TA is, an identifier the handler has stored is one the TA
\* granted and still holds open until challenge_puf asks to close it: the client
\* may go on without a session, but never with a wrong one.
HandleNeverWrong == session_id # 0 /\ call # "close" => session_id \in ta_open

\* A function the TA reports as failed makes challenge_puf fail, as its error
\* messages ("calling PUF_TA_init failed ... TEE_ret") promise.
ErrorsReported == status = "ok" => \A c \in Invoke : verdict[c] # "err"

\* When the TA refuses the session, no function is asked of it.
RefusalStops == verdict["open"] = "err" => \A c \in Invoke : verdict[c] = "none"

\* The session of a challenge that was answered is closed in the end, although
\* challenge_puf returns before it is.
SessionClosed == status = "ok" ~> ta_open = {}

\* challenge_puf returns, whatever the TA does: it waits for time alone.
Termination == <>(pc = "done")

\* With a prompt TA, challenge_puf keeps the promises of PufRpc.
Returned == [c \in Invoke |-> IF ~Past(c) THEN "pending"
                              ELSE IF HasResult(c) THEN "result" ELSE "other"]
Rpc == INSTANCE PufRpc WITH returned <- Returned
RpcSpec == Rpc!RpcSpec
=============================================================================
