-------------------------- MODULE PufPromptProofs --------------------------
(***************************************************************************)
(* With a prompt TA the invariant IInv is inductive; FreshResults and      *)
(* CopyAfterInterrupt follow from it, for every set of session             *)
(* identifiers.  One lemma per conjunct of IInv, one step per action.      *)
(* Under the same timing PufIpc implements PufRpc.                         *)
(***************************************************************************)
EXTENDS PufIpcProofs

USE DEF Slot, Word, Invoke, Call


(***************************************************************************)
(* What the actions that store into the message do to each of its fields.  *)
(***************************************************************************)
LEMMA WriteTypeMsg ==
  TypeOK /\ WriteType =>
    /\ msg'.call_type = TypeOf(call)
    /\ msg'.invoke_args = msg.invoke_args /\ msg'.params = msg.params
BY DEF WriteType, TypeOK, Msg

\* The arguments: of the session, or of the function that is called.
LEMMA WriteArgsMsg ==
  TypeOK /\ WriteArgs =>
    /\ msg'.call_type = msg.call_type /\ msg'.params = msg.params
    /\ call \in Invoke => msg'.invoke_args.func = call
BY DEF WriteArgs, InvokeArgs, SessionArgs, TypeOK, Msg

\* A parameter: the descriptor of one slot.
LEMMA WriteParamMsg ==
  TypeOK /\ WriteParam =>
    /\ msg'.call_type = msg.call_type /\ msg'.invoke_args = msg.invoke_args
    /\ msg'.params = [msg.params EXCEPT ![slot] = param[slot]]
    /\ msg.params \in [Slot -> Descriptor]
BY DEF WriteParam, TypeOK, Msg

\* The TA answers in the arguments of the session alone.
LEMMA TaMsg ==
  TypeOK /\ (TaOpen \/ TaInvoke \/ TaUnknown) =>
    /\ msg'.call_type = msg.call_type /\ msg'.params = msg.params
    /\ msg'.invoke_args.func = msg.invoke_args.func
<1>1. TypeOK /\ TaOpen => /\ msg'.call_type = msg.call_type
                         /\ msg'.params = msg.params
                         /\ msg'.invoke_args.func = msg.invoke_args.func
  BY DEF TaOpen, TypeOK, Msg
<1>2. TypeOK /\ (TaInvoke \/ TaUnknown) =>
        /\ msg'.call_type = msg.call_type
        /\ msg'.params = msg.params
        /\ msg'.invoke_args.func = msg.invoke_args.func
  BY DEF TaInvoke, TaUnknown, TypeOK, Msg
<1> QED
  BY <1>1, <1>2

\* The invariant holds at the beginning.
LEMMA InitIInv == Init => IInv
<1> SUFFICES ASSUME Init PROVE IInv
  OBVIOUS
<1>1. TypeOK
  BY InitTypeOK
<1>2. Turns /\ Places
  BY DEF Init, Turns, Quiet, Places
<1>3. Header /\ Requested /\ Described /\ StagedInPage
  BY DEF Init, Header, Requested, Described, StagedInPage
<1>4. ResultInPage /\ CopiedSoFar /\ Acknowledged
  BY DEF Init, ResultInPage, CopiedSoFar, Acknowledged
<1>5. NotYet /\ FreshResults
  BY DEF Init, NotYet, FreshResults
<1>6. ChallengeKept
  BY DEF Init, ChallengeKept
<1>7. SessionFetched /\ SessionPassed /\ Ended
  BY DEF Init, SessionFetched, SessionPassed, Ended
<1> QED
  BY <1>1, <1>2, <1>3, <1>4, <1>5, <1>6, <1>7 DEF IInv

\* Whose turn it is on the page.
LEMMA StepTurns ==
  ASSUME Prompt = Call, IInv, [Next]_vars
  PROVE  Turns'
<1> USE DEF client_vars, irq_vars, ta_vars, Turns, Quiet
<1>0. TypeOK /\ Turns /\ Places
  BY DEF IInv
<1>1. CASE Bind \/ Stage \/ WriteType \/ WriteArgs
  BY <1>0, <1>1 DEF Bind, Stage, WriteType, WriteArgs, Places
<1>2. CASE FillParam \/ WriteParam
  BY <1>0, <1>2 DEF FillParam, WriteParam, Turn, Places, TypeOK
<1>3. CASE Ring
  BY <1>0, <1>3 DEF Ring, Places
<1>4. CASE CheckOpened
  BY <1>0, <1>4 DEF CheckOpened, Places
<1>5. CASE Wake
  BY <1>0, <1>5 DEF Wake, Enter, Places, TypeOK
<1>6. CASE CopyResult
  BY <1>0, <1>6 DEF CopyResult, Enter, Places, TypeOK
<1>7. CASE ipc_irq_client_handler
  BY <1>0, <1>7 DEF ipc_irq_client_handler
<1>8. CASE TaTake
  BY <1>0, <1>8 DEF TaTake
<1>9. CASE TaOpen \/ TaInvoke \/ TaClose \/ TaUnknown
  BY <1>0, <1>9 DEF TaOpen, TaInvoke, TaClose, TaUnknown
<1>10. CASE TaNotify
  BY <1>0, <1>10 DEF TaNotify
<1>11. CASE UNCHANGED vars
  BY <1>0, <1>11 DEF vars
<1> QED
  BY <1>1, <1>2, <1>3, <1>4, <1>5, <1>6, <1>7, <1>8, <1>9, <1>10, <1>11
     DEF Next, MainThread, TrustedApp, Terminated

\* The header describes the call under way.
LEMMA StepHeader ==
  ASSUME Prompt = Call, IInv, [Next]_vars
  PROVE  Header'
<1> USE DEF client_vars, irq_vars, ta_vars, Header
<1>0. TypeOK /\ Turns /\ Places /\ Header
  BY DEF IInv
<1>1. CASE Bind \/ FillParam \/ Stage
  BY <1>0, <1>1 DEF Bind, FillParam, Turn, Stage, Places
<1>2. CASE WriteType
  <2>1. pc' = "args" /\ call' = call /\ status' = status
    BY <1>2 DEF WriteType
  <2> QED
    BY <1>0, <1>2, <2>1, WriteTypeMsg DEF TypeOf
<1>3. CASE WriteArgs
  <2>1. pc = "args" /\ pc' = IF call \in Invoke THEN "params" ELSE "ring"
    BY <1>3 DEF WriteArgs
  <2>2. call' = call /\ status' = status
    BY <1>3 DEF WriteArgs
  <2> QED
    BY <1>0, <1>3, <2>1, <2>2, WriteArgsMsg
<1>4. CASE WriteParam
  <2>1. pc = "params" /\ pc' \in {"params", "ring"} /\ call' = call
    BY <1>4 DEF WriteParam, Turn
  <2> QED
    BY <1>0, <1>4, <2>1, WriteParamMsg DEF Places
<1>5. CASE Ring
  BY <1>0, <1>5 DEF Ring, Places
<1>6. CASE CheckOpened
  BY <1>0, <1>6 DEF CheckOpened, Places
<1>7. CASE Wake
  BY <1>0, <1>7 DEF Wake, Enter, Places
<1>8. CASE CopyResult
  BY <1>0, <1>8 DEF CopyResult, Enter, Places
<1>9. CASE ipc_irq_client_handler \/ TaTake \/ TaClose \/ TaNotify
  BY <1>0, <1>9 DEF ipc_irq_client_handler, TaTake, TaClose, TaNotify
<1>10. CASE TaOpen \/ TaInvoke \/ TaUnknown
  <2>1. pc' = pc /\ call' = call /\ status' = status
    BY <1>10 DEF TaOpen, TaInvoke, TaUnknown
  <2> QED
    BY <1>0, <1>10, <2>1, TaMsg
<1>11. CASE UNCHANGED vars
  BY <1>0, <1>11 DEF vars
<1> QED
  BY <1>1, <1>2, <1>3, <1>4, <1>5, <1>6, <1>7, <1>8, <1>9, <1>10, <1>11
     DEF Next, MainThread, TrustedApp, Terminated

\* So do the descriptors, as far as they are written.
LEMMA StepDescribed ==
  ASSUME Prompt = Call, IInv, [Next]_vars
  PROVE  Described'
<1> USE DEF client_vars, irq_vars, ta_vars
<1>0. TypeOK /\ Turns /\ Places /\ Header /\ Described
  BY DEF IInv
<1>1. CASE Bind
  BY <1>0, <1>1 DEF Bind, Places, Described
<1>2. CASE FillParam
  <2>1. pc = "fill" /\ call' = call /\ msg' = msg
        /\ param' = [param EXCEPT ![slot] = ParamOf(call, slot)]
        /\ slot' = (IF slot = 3 THEN 0 ELSE slot + 1)
        /\ pc' = (IF slot = 3 THEN "stage" ELSE "fill")
    BY <1>2 DEF FillParam, Turn
  <2>2. slot \in Slot /\ param \in [Slot -> Descriptor]
    BY <1>0 DEF TypeOK
  <2> QED
    BY <1>0, <2>1, <2>2 DEF Described
<1>3. CASE Stage
  BY <1>0, <1>3 DEF Stage, Described
<1>4. CASE WriteType
  <2>1. pc = "type" /\ pc' = "args" /\ call' = call /\ param' = param
    BY <1>4 DEF WriteType
  <2> QED
    BY <1>0, <2>1 DEF Described
<1>5. CASE WriteArgs
  <2>1. pc = "args" /\ pc' \in {"params", "ring"} /\ call' = call /\ param' = param
    BY <1>5 DEF WriteArgs
  <2>2. slot' = 0 /\ (call \in Invoke => pc' = "params")
    BY <1>0, <1>5 DEF WriteArgs, Turns
  <2> QED
    BY <1>0, <2>1, <2>2 DEF Described
<1>6. CASE WriteParam
  <2>1. pc = "params" /\ call' = call /\ param' = param
        /\ slot' = (IF slot = 3 THEN 0 ELSE slot + 1)
        /\ pc' = (IF slot = 3 THEN "ring" ELSE "params")
    BY <1>6 DEF WriteParam, Turn
  <2>2. slot \in Slot
    BY <1>0 DEF TypeOK
  <2> QED
    BY <1>0, <1>6, <2>1, <2>2, WriteParamMsg DEF Described
<1>7. CASE Ring
  BY <1>0, <1>7 DEF Ring, Described
<1>8. CASE CheckOpened
  BY <1>0, <1>8 DEF CheckOpened, Places, Described
<1>9. CASE Wake
  <2>1. CASE call = "open"
    BY <1>0, <1>9, <2>1 DEF Wake, Enter, Turns, Described
  <2>2. CASE call # "open"
    BY <1>0, <1>9, <2>2 DEF Wake, Described
  <2> QED
    BY <2>1, <2>2
<1>10. CASE CopyResult
  <2>1. pc = "copy" /\ param' = param /\ msg' = msg
    BY <1>10 DEF CopyResult
  <2>2. CASE slot = 3
    <3>1. slot' = 0 /\ (call' \in Invoke => pc' = "fill")
      BY <1>10, <2>2 DEF CopyResult, Enter
    <3> QED
      BY <3>1 DEF Described
  <2>3. CASE slot # 3
    <3>1. pc' = pc /\ call' = call
      BY <1>10, <2>3 DEF CopyResult
    <3> QED
      BY <1>0, <2>1, <3>1 DEF Described
  <2> QED
    BY <2>2, <2>3
<1>11. CASE ipc_irq_client_handler
  <2>1. pc' = pc /\ call' = call /\ slot' = slot /\ msg' = msg
    BY <1>11 DEF ipc_irq_client_handler
  <2>2. CASE call \in Invoke
    <3>1. pc = "sleep" /\ msg.call_type = "invoke"
      BY <1>0, <1>11, <2>2 DEF ipc_irq_client_handler, Turns, Quiet, Places, Header
    <3>2. param' = msg.params
      BY <1>11, <3>1 DEF ipc_irq_client_handler
    <3> QED
      BY <1>0, <2>1, <2>2, <3>1, <3>2 DEF Described
  <2> QED
    BY <2>1, <2>2 DEF Described
<1>12. CASE TaTake \/ TaClose \/ TaNotify
  BY <1>0, <1>12 DEF TaTake, TaClose, TaNotify, Described
<1>13. CASE TaOpen \/ TaInvoke \/ TaUnknown
  <2>1. pc' = pc /\ call' = call /\ slot' = slot /\ param' = param
    BY <1>13 DEF TaOpen, TaInvoke, TaUnknown
  <2> QED
    BY <1>0, <1>13, <2>1, TaMsg DEF Described
<1>14. CASE UNCHANGED vars
  BY <1>0, <1>14 DEF vars, Described
<1> QED
  BY <1>1, <1>2, <1>3, <1>4, <1>5, <1>6, <1>7, <1>8, <1>9, <1>10, <1>11, <1>12,
     <1>13, <1>14 DEF Next, MainThread, TrustedApp, Terminated

\* The TA took the call under way.
LEMMA StepRequested ==
  ASSUME Prompt = Call, IInv, [Next]_vars
  PROVE  Requested'
<1> USE DEF client_vars, irq_vars, ta_vars, Requested
<1>0. TypeOK /\ Turns /\ Places /\ Header /\ Described /\ Requested
  BY DEF IInv
<1>1. CASE MainThread
  <2>1. CASE ta_pc = "idle"
    BY <1>1, <2>1 DEF MainThread, Bind, FillParam, Stage, WriteType, WriteArgs,
       WriteParam, Ring, CheckOpened, Wake, CopyResult
  <2>2. CASE ta_pc # "idle"
    <3>1. pc \in {"opened", "sleep", "done"}
      BY <1>0, <2>2 DEF Turns, Quiet
    <3>2. ~Wake
      BY <1>0, <2>2 DEF Wake, Quiet, TypeOK
    <3>3. CheckOpened
      BY <1>1, <3>1, <3>2 DEF MainThread, Bind, FillParam, Stage, WriteType,
         WriteArgs, WriteParam, Ring, CopyResult
    <3> QED
      BY <1>0, <3>3 DEF CheckOpened
  <2> QED
    BY <2>1, <2>2
<1>2. CASE ipc_irq_client_handler
  BY <1>0, <1>2 DEF ipc_irq_client_handler
<1>3. CASE TaTake
  <2>1. pc \in {"opened", "sleep", "done"} /\ status # "err"
    BY <1>0, <1>3 DEF TaTake, Turns, Quiet
  <2>2. CASE call \in Invoke
    BY <1>0, <1>3, <2>1, <2>2 DEF TaTake, Header, Described, Places
  <2>3. CASE call \notin Invoke
    BY <1>0, <1>3, <2>1, <2>3 DEF TaTake, Header, TypeOK
  <2> QED
    BY <2>2, <2>3
<1>4. CASE TaOpen \/ TaInvoke \/ TaClose \/ TaUnknown \/ TaNotify
  BY <1>0, <1>4 DEF TaOpen, TaInvoke, TaClose, TaUnknown, TaNotify
<1>5. CASE UNCHANGED vars
  BY <1>0, <1>5 DEF vars
<1> QED
  BY <1>1, <1>2, <1>3, <1>4, <1>5 DEF Next, TrustedApp, Terminated

(***************************************************************************)
(* What most actions leave alone.                                          *)
(***************************************************************************)
Background == ipc_irq_client_handler \/ TrustedApp \/ UNCHANGED vars

\* What the TA and the handlers leave to the main thread.
LEMMA ControlFrame == Background => UNCHANGED <<pc, call, slot, status, data>>
BY DEF Background, ipc_irq_client_handler, TrustedApp, TaTake, TaOpen, TaInvoke,
       TaClose, TaUnknown, TaNotify, vars, client_vars

\* What the main thread leaves to them.
LEMMA ThreadFrame ==
  MainThread => /\ UNCHANGED <<ta_pc, ta_req, verdict, client_irq, answered, acked>>
                /\ ~Stage => payload' = payload
                /\ ~CopyResult => data' = data
                /\ ~Ring => ta_irq' = ta_irq
                /\ ~Wake /\ ~CopyResult => call' = call /\ pc' # "copy"
BY DEF MainThread, Bind, FillParam, Stage, WriteType, WriteArgs, WriteParam, Ring,
       CheckOpened, Wake, CopyResult, Turn, ta_vars

\* The rank grows with every call entered.
LEMMA NextPast ==
  \A c \in Invoke : /\ NextCall[c] \in Call
                    /\ \A d \in Call : Rank[NextCall[c]] > Rank[d] <=>
                                         Rank[c] > Rank[d] \/ d = c
BY DEF NextCall, Rank

\* The TA acts on an invocation only while the thread sleeps in it.
LEMMA InvokeTurn ==
  ASSUME IInv, TaInvoke
  PROVE  /\ call \in Invoke /\ ta_req.call = call /\ pc = "sleep" /\ ~ta_irq
         /\ \A i \in Slot : ta_req.params[i] = ParamOf(call, i)
<1>1. ta_pc = "busy" /\ ta_req.call = call /\ call \in Invoke
      /\ \A i \in Slot : ta_req.params[i] = ParamOf(call, i)
  BY DEF IInv, Requested, TaInvoke
<1>2. pc \in {"opened", "sleep", "done"} /\ status # "err" /\ ~ta_irq
  BY <1>1 DEF IInv, Turns, Quiet
<1> QED
  BY <1>1, <1>2 DEF IInv, Places

\* Calls to come have no verdict.
LEMMA StepNotYet ==
  ASSUME Prompt = Call, IInv, [Next]_vars
  PROVE  NotYet'
<1>0. TypeOK /\ Turns /\ Places /\ NotYet
  BY DEF IInv
<1> SUFFICES ASSUME NEW c \in Invoke, verdict'[c] # "none"
             PROVE  \/ Past(c)'
                    \/ c = call' /\ pc' \in {"sleep", "copy"} /\ ~ta_irq' /\ ta_pc' # "busy"
  BY DEF NotYet
<1>1. CASE MainThread /\ ~Wake /\ ~CopyResult
  <2>1. verdict[c] # "none" /\ call' = call /\ pc \notin {"sleep", "copy"}
    BY <1>1, ThreadFrame DEF MainThread, Bind, FillParam, Stage, WriteType,
       WriteArgs, WriteParam, Ring, CheckOpened
  <2> QED
    BY <1>0, <2>1 DEF NotYet, Past
<1>2. CASE Wake
  <2>1. verdict[c] # "none" /\ ta_pc' = ta_pc /\ ta_irq' = ta_irq
    BY <1>2 DEF Wake, ta_vars
  <2>2. CASE call = "open"
    BY <1>0, <2>1, <2>2 DEF NotYet, Past, Rank
  <2>3. CASE call # "open"
    BY <1>0, <1>2, <2>1, <2>3 DEF Wake, NotYet, Past
  <2> QED
    BY <2>2, <2>3
<1>3. CASE CopyResult
  <2>1. verdict[c] # "none" /\ ta_pc' = ta_pc /\ ta_irq' = ta_irq /\ call \in Invoke
    BY <1>0, <1>3 DEF CopyResult, Places, ta_vars
  <2>2. CASE slot = 3
    BY <1>0, <1>3, <2>1, <2>2, NextPast DEF CopyResult, Enter, NotYet, Past
  <2>3. CASE slot # 3
    BY <1>0, <1>3, <2>1, <2>3 DEF CopyResult, NotYet, Past
  <2> QED
    BY <2>2, <2>3
<1>4. CASE ipc_irq_client_handler \/ UNCHANGED vars
  BY <1>0, <1>4 DEF ipc_irq_client_handler, vars, client_vars, ta_vars, NotYet, Past
<1>5. CASE TaTake
  BY <1>0, <1>5 DEF TaTake, client_vars, NotYet, Past
<1>6. CASE TaOpen \/ TaClose
  <2>1. verdict[c] # "none" /\ ta_pc = "busy" /\ call' = call
    BY <1>0, <1>6 DEF TaOpen, TaClose, client_vars, TypeOK
  <2> QED
    BY <1>0, <2>1 DEF NotYet, Past
<1>7. CASE TaInvoke
  <2>1. pc' = pc /\ call' = call /\ ta_irq' = ta_irq /\ ta_pc' = "notify"
    BY <1>7 DEF TaInvoke, client_vars
  <2>2. c # call => verdict[c] # "none"
    BY <1>0, <1>7, InvokeTurn DEF TaInvoke, TypeOK
  <2> QED
    BY <1>0, <1>7, <2>1, <2>2, InvokeTurn DEF NotYet, Past
<1>8. CASE TaUnknown \/ TaNotify
  BY <1>0, <1>8 DEF TaUnknown, TaNotify, client_vars, NotYet, Past
<1> QED
  BY <1>1, <1>2, <1>3, <1>4, <1>5, <1>6, <1>7, <1>8
     DEF Next, TrustedApp, Terminated

\* The parameters are in the page until the TA ran.
LEMMA StepStagedInPage ==
  ASSUME Prompt = Call, IInv, [Next]_vars
  PROVE  StagedInPage'
<1>0. TypeOK /\ Turns /\ Places /\ Described /\ StagedInPage /\ ChallengeKept
  BY DEF IInv
<1> USE DEF StagedInPage
<1>1. CASE Bind
  BY <1>0, <1>1 DEF Bind, Places
<1>2. CASE FillParam
  BY <1>2 DEF FillParam, Turn
<1>3. CASE Stage
  <2>1. call' = call /\ call \in Invoke
    BY <1>0, <1>3 DEF Stage, Places
  <2>2. ASSUME NEW i \in Staged(call), NEW w \in Word, w <= ParamOf(call, i).b
        PROVE  payload'[i][w] = Chal(call, i)
    <3>1. i \in Slot /\ w <= Len(call, i) /\ call # "init"
      BY <2>1, <2>2 DEF Staged, ParamOf, Len
    <3>2. payload' = StageInto(Wipe(payload), call)
      BY <1>3, <3>1 DEF Stage
    <3> DEFINE src == {j \in Staged(call) : param[j].a = i /\ w <= param[j].b}
    <3>3. \A j \in Staged(call) : param[j] = ParamOf(call, j) /\ param[j].a = j
      BY <1>0, <1>3, <2>1 DEF Stage, Described, Staged, ParamOf
    <3>4. src = {i}
      BY <2>2, <3>3
    <3>5. (CHOOSE j \in src : \A k \in src : k <= j) = i
      BY <3>1, <3>4
    <3>6. payload'[i][w] = data[call][i][w]
      BY <3>1, <3>2, <3>4, <3>5 DEF StageInto
    <3>7. pc # "copy" /\ ~Past(call)
      BY <1>3, <2>1 DEF Stage, Past, Rank
    <3> QED
      BY <1>0, <2>1, <3>1, <3>6, <3>7 DEF ChallengeKept
  <2> QED
    BY <2>1, <2>2
<1>4. CASE WriteType \/ WriteArgs \/ WriteParam
  BY <1>0, <1>4 DEF WriteType, WriteArgs, WriteParam, Turn
<1>5. CASE Ring \/ CheckOpened
  BY <1>0, <1>5 DEF Ring, CheckOpened, Places
<1>6. CASE Wake
  BY <1>6 DEF Wake, Enter
<1>7. CASE CopyResult
  BY <1>0, <1>7 DEF CopyResult, Enter, Places
<1>8. CASE ipc_irq_client_handler \/ UNCHANGED vars
  BY <1>0, <1>8 DEF ipc_irq_client_handler, vars, client_vars, ta_vars
<1>9. CASE TaTake
  BY <1>0, <1>9 DEF TaTake, client_vars
<1>10. CASE TaInvoke
  BY <1>0, <1>10, InvokeTurn DEF TaInvoke, client_vars
<1>11. CASE TaOpen \/ TaClose \/ TaUnknown \/ TaNotify
  BY <1>0, <1>11 DEF TaOpen, TaClose, TaUnknown, TaNotify, client_vars
<1> QED
  BY <1>1, <1>2, <1>3, <1>4, <1>5, <1>6, <1>7, <1>8, <1>9, <1>10, <1>11
     DEF Next, MainThread, TrustedApp, Terminated

\* Of a well-run function the TA leaves exactly the expected words in the page.
LEMMA TaOutputRight ==
  ASSUME IInv, TaInvoke, NEW i \in Slot, NEW w \in Word, w <= Len(call, i)
  PROVE  TaOutput[i][w] = Expected(call, i)
<1>0. call \in Invoke /\ ta_req.call = call /\ pc = "sleep" /\ ta_pc = "busy"
      /\ \A j \in Slot : ta_req.params[j] = ParamOf(call, j)
  BY InvokeTurn DEF TaInvoke
<1>1. \A j \in Slot : /\ ParamOf(call, j).a = j
                      /\ ParamOf(call, j).b = Len(call, j)
                      /\ ParamOf(call, j).attr \in {"input", "inout"} =>
                           j \in Staged(call)
                      /\ ParamOf(call, j).attr \in {"input", "output", "inout"}
  BY <1>0 DEF ParamOf, Len, Staged
<1>2. \A j \in Staged(call), v \in Word :
        v <= Len(call, j) => payload[j][v] = Chal(call, j)
  <2>1. Staged(call) \subseteq Slot
    BY DEF Staged
  <2> QED
    BY <1>0, <1>1, <2>1 DEF IInv, StagedInPage
<1>3. \A T, k, v : Covering(T, k, v)
                     = {j \in Slot : ParamOf(call, j).attr \in T /\ j = k
                                     /\ v <= Len(call, j)}
  BY <1>0, <1>1 DEF Covering
<1>4. InputsRight
  BY <1>0, <1>1, <1>2, <1>3 DEF InputsRight
<1>5. CASE ParamOf(call, i).attr = "input"
  <2>1. Covering({"output", "inout"}, i, w) = {}
    BY <1>3, <1>5
  <2>2. TaOutput[i][w] = payload[i][w]
    BY <2>1 DEF TaOutput
  <2> QED
    BY <1>1, <1>2, <1>5, <2>2 DEF Expected
<1>6. CASE ParamOf(call, i).attr # "input"
  <2> DEFINE out == Covering({"output", "inout"}, i, w)
  <2>1. out = {i}
    BY <1>1, <1>3, <1>6
  <2>2. (CHOOSE j \in out : \A k \in out : k <= j) = i
    BY <2>1
  <2>3. TaOutput[i][w] = Answer(call, i)
    BY <1>0, <1>4, <2>1, <2>2 DEF TaOutput
  <2> QED
    BY <1>6, <2>3 DEF Expected
<1> QED
  BY <1>5, <1>6

\* The results are in the page until they are copied.
LEMMA StepResultInPage ==
  ASSUME Prompt = Call, IInv, [Next]_vars
  PROVE  ResultInPage'
<1>0. TypeOK /\ Turns /\ Places /\ NotYet /\ ResultInPage
  BY DEF IInv
<1> USE DEF ResultInPage
<1>1. CASE MainThread
  <2>1. verdict' = verdict
    BY <1>1, ThreadFrame
  <2>2. CASE Stage
    <3>1. call' = call /\ pc = "stage" /\ call \in Invoke
      BY <1>0, <2>2 DEF Stage, Places
    <3>2. verdict[call] = "none"
      BY <1>0, <3>1 DEF NotYet, Past, Rank
    <3> QED
      BY <2>1, <3>1, <3>2
  <2>3. CASE ~Stage /\ call' = call
    BY <1>0, <1>1, <2>1, <2>3, ThreadFrame
  <2>4. CASE call' # call /\ call' \in Invoke
    <3>1. Rank[call'] > Rank[call]
      BY <1>0, <1>1, <2>4, ThreadFrame, NextPast
         DEF Wake, CopyResult, Enter, Places, Rank
    <3>2. verdict[call'] = "none"
      BY <1>0, <2>4, <3>1 DEF NotYet, Past, Rank, TypeOK
    <3> QED
      BY <2>1, <3>2
  <2> QED
    BY <2>2, <2>3, <2>4
<1>2. CASE ipc_irq_client_handler \/ TaTake \/ TaNotify \/ TaUnknown \/ UNCHANGED vars
  BY <1>0, <1>2 DEF ipc_irq_client_handler, TaTake, TaNotify, TaUnknown, vars,
                    client_vars, ta_vars
<1>3. CASE TaOpen \/ TaClose
  BY <1>0, <1>3 DEF TaOpen, TaClose, client_vars, TypeOK
<1>4. CASE TaInvoke
  <2>1. call' = call /\ ta_req.call = call /\ call \in Invoke
    BY <1>4, InvokeTurn DEF TaInvoke, client_vars
  <2>2. verdict'[call] = "ok" => payload' = TaOutput
    BY <1>0, <1>4, <2>1 DEF TaInvoke, TypeOK
  <2> QED
    BY <1>4, <2>1, <2>2, TaOutputRight
<1> QED
  BY <1>1, <1>2, <1>3, <1>4 DEF Next, TrustedApp, Terminated

\* cpy_last_result takes the portion from its own slot.
LEMMA CopyEffect ==
  ASSUME IInv, CopyResult
  PROVE  /\ call \in Invoke /\ verdict' = verdict /\ payload' = payload
         /\ \A c \in Invoke : c # call => data'[c] = data[c]
         /\ verdict[call] = "ok" =>
              \A i \in Slot, w \in Word :
                i <= slot /\ w <= Len(call, i) => data'[call][i][w] = Expected(call, i)
<1>0. TypeOK /\ Places /\ Described /\ ResultInPage /\ CopiedSoFar
  BY DEF IInv
<1>1. call \in Invoke /\ pc = "copy" /\ verdict' = verdict /\ payload' = payload
      /\ slot \in Slot
  BY <1>0 DEF CopyResult, Places, TypeOK, ta_vars
<1>2. param[slot].a = slot
  BY <1>0, <1>1 DEF Described, ParamOf
<1>3. \A c \in Invoke : c # call => data'[c] = data[c]
  BY <1>0, <1>1 DEF CopyResult, TypeOK
<1>4. ASSUME verdict[call] = "ok", NEW i \in Slot, NEW w \in Word,
             i <= slot, w <= Len(call, i)
      PROVE  data'[call][i][w] = Expected(call, i)
  <2>1. CASE i = slot
    BY <1>0, <1>1, <1>2, <1>4, <2>1 DEF CopyResult, TypeOK, ResultInPage
  <2>2. CASE i < slot
    BY <1>0, <1>1, <1>4, <2>2 DEF CopyResult, TypeOK, CopiedSoFar
  <2> QED
    BY <1>1, <1>4, <2>1, <2>2
<1> QED
  BY <1>1, <1>3, <1>4

\* The portions copied are the call's own.
LEMMA StepCopiedSoFar ==
  ASSUME Prompt = Call, IInv, [Next]_vars
  PROVE  CopiedSoFar'
<1>0. TypeOK /\ Turns /\ Places /\ CopiedSoFar
  BY DEF IInv
<1> USE DEF CopiedSoFar
<1>1. CASE MainThread /\ ~Wake /\ ~CopyResult
  BY <1>1, ThreadFrame
<1>2. CASE Wake
  <2>1. slot' = 0
    BY <1>0, <1>2 DEF Wake, Turns
  <2> QED
    BY <2>1
<1>3. CASE CopyResult
  <2>1. CASE slot = 3
    BY <1>3, <2>1 DEF CopyResult, Enter
  <2>2. CASE slot # 3
    <3>1. slot' = slot + 1 /\ call' = call
      BY <1>3, <2>2 DEF CopyResult
    <3> QED
      BY <1>0, <1>3, <3>1, CopyEffect DEF TypeOK
  <2> QED
    BY <2>1, <2>2
<1>4. CASE ipc_irq_client_handler \/ UNCHANGED vars
  BY <1>0, <1>4 DEF ipc_irq_client_handler, vars, client_vars, ta_vars
<1>5. CASE TrustedApp
  <2>1. pc # "copy"
    BY <1>0, <1>5 DEF TrustedApp, TaTake, TaOpen, TaInvoke, TaClose, TaUnknown,
                      TaNotify, Turns, Quiet
  <2> QED
    BY <1>5, <2>1, ControlFrame DEF Background
<1> QED
  BY <1>1, <1>2, <1>3, <1>4, <1>5 DEF Next, Terminated

\* The challenges stay in the buffers until their call.
LEMMA StepChallengeKept ==
  ASSUME Prompt = Call, IInv, [Next]_vars
  PROVE  ChallengeKept'
<1>0. TypeOK /\ Places /\ ChallengeKept
  BY DEF IInv
<1>1. CASE MainThread /\ ~Wake /\ ~CopyResult
  <2>1. call' = call /\ data' = data /\ pc # "copy"
    BY <1>1, ThreadFrame DEF MainThread, Bind, FillParam, Stage, WriteType,
       WriteArgs, WriteParam, Ring, CheckOpened
  <2> QED
    BY <1>0, <2>1 DEF ChallengeKept, Past
<1>2. CASE Wake
  <2>1. data' = data /\ pc = "sleep"
    BY <1>2 DEF Wake
  <2>2. ASSUME NEW c \in Invoke, ~Past(c)'
        PROVE  ~Past(c)
    BY <1>2, <2>2 DEF Wake, Enter, Past, Rank
  <2> QED
    BY <1>0, <2>1, <2>2 DEF ChallengeKept
<1>3. CASE CopyResult
  <2>1. ASSUME NEW c \in Invoke, ~Past(c)', ~(c = call' /\ pc' = "copy")
        PROVE  c # call /\ ~Past(c)
    <3>1. CASE slot = 3
      BY <1>0, <1>3, <2>1, <3>1, NextPast DEF CopyResult, Enter, Past, Places
    <3>2. CASE slot # 3
      BY <1>3, <2>1, <3>2 DEF CopyResult, Past
    <3> QED
      BY <3>1, <3>2
  <2> QED
    BY <1>0, <1>3, <2>1, CopyEffect DEF ChallengeKept
<1>4. CASE Background
  BY <1>0, <1>4, ControlFrame DEF ChallengeKept, Past
<1> QED
  BY <1>1, <1>2, <1>3, <1>4 DEF Next, Terminated, Background

\* The portions handed back are of the call that was made.
LEMMA StepFreshResults ==
  ASSUME Prompt = Call, IInv, [Next]_vars
  PROVE  FreshResults'
<1>0. TypeOK /\ Turns /\ Places /\ FreshResults
  BY DEF IInv
<1> SUFFICES ASSUME NEW c \in Invoke, Past(c)', verdict'[c] = "ok"
             PROVE  HasResult(c)'
  BY DEF FreshResults
<1>1. CASE MainThread /\ ~CopyResult
  <2>1. verdict' = verdict /\ data' = data
    BY <1>1, ThreadFrame
  <2>2. Past(c)
    BY <1>1, ThreadFrame DEF Wake, Enter, Past, Rank
  <2> QED
    BY <1>0, <2>1, <2>2 DEF FreshResults, HasResult
<1>2. CASE CopyResult
  <2>1. CASE c = call
    <3>1. slot = 3
      BY <1>2, <2>1 DEF CopyResult, Past, Rank
    <3> QED
      BY <1>2, <2>1, <3>1, CopyEffect DEF HasResult
  <2>2. CASE c # call
    <3>1. Past(c)
      BY <1>0, <1>2, <2>2, NextPast DEF CopyResult, Enter, Past, Places
    <3> QED
      BY <1>0, <1>2, <2>2, <3>1, CopyEffect DEF FreshResults, HasResult
  <2> QED
    BY <2>1, <2>2
<1>3. CASE Background
  <2>1. call' = call /\ data' = data
    BY <1>3, ControlFrame
  <2>2. verdict[c] = "ok"
    <3>1. CASE TaInvoke
      BY <1>0, <2>1, <3>1, InvokeTurn DEF TaInvoke, Past, Rank, TypeOK
    <3>2. CASE ~TaInvoke
      BY <1>0, <1>3, <3>2 DEF Background, ipc_irq_client_handler, TrustedApp,
         TaTake, TaOpen, TaClose, TaUnknown, TaNotify, vars, ta_vars, TypeOK
    <3> QED
      BY <3>1, <3>2
  <2> QED
    BY <1>0, <2>1, <2>2 DEF FreshResults, HasResult, Past
<1> QED
  BY <1>1, <1>2, <1>3 DEF Next, Terminated, Background

\* A call is over after its interrupt.
LEMMA StepAcknowledged ==
  ASSUME Prompt = Call, IInv, [Next]_vars
  PROVE  Acknowledged'
<1>0. TypeOK /\ Turns /\ Places /\ Requested /\ Acknowledged
  BY DEF IInv
<1> USE DEF Acknowledged, Quiet
<1>1. CASE MainThread /\ ~Wake /\ ~CopyResult
  BY <1>0, <1>1, ThreadFrame DEF MainThread, Bind, FillParam, Stage, WriteType,
     WriteArgs, WriteParam, Turn, Ring, CheckOpened, Places
<1>2. CASE Wake
  BY <1>0, <1>2 DEF Wake, Enter, ta_vars
<1>3. CASE CopyResult
  BY <1>0, <1>3 DEF CopyResult, Enter, ta_vars
<1>4. CASE ipc_irq_client_handler
  BY <1>0, <1>4 DEF ipc_irq_client_handler, client_vars, ta_vars, Turns
<1>5. CASE TaTake \/ TaOpen \/ TaInvoke \/ TaClose \/ TaUnknown
  BY <1>0, <1>5 DEF TaTake, TaOpen, TaInvoke, TaClose, TaUnknown, client_vars
<1>6. CASE TaNotify
  BY <1>0, <1>6 DEF TaNotify, client_vars, Requested
<1>7. CASE UNCHANGED vars
  BY <1>0, <1>7 DEF vars, client_vars, ta_vars
<1> QED
  BY <1>1, <1>2, <1>3, <1>4, <1>5, <1>6, <1>7 DEF Next, TrustedApp, Terminated

(***************************************************************************)
(* The session and the ends of the calls.                                  *)
(***************************************************************************)
LEMMA StepEnded ==
  ASSUME Prompt = Call, IInv, [Next]_vars
  PROVE  Ended'
<1> USE DEF client_vars, irq_vars, ta_vars
<1>0. TypeOK /\ Turns /\ Places /\ Requested /\ Ended
  BY DEF IInv
<1>1. CASE MainThread /\ ~Wake /\ ~CopyResult
  BY <1>0, <1>1, ThreadFrame DEF MainThread, Bind, FillParam, Stage, WriteType,
     WriteArgs, WriteParam, Ring, CheckOpened, Turn, Turns, Places, Quiet, Ended
<1>2. CASE Wake
  BY <1>0, <1>2 DEF Wake, Enter, Quiet, Ended
<1>3. CASE CopyResult
  BY <1>0, <1>3 DEF CopyResult, Enter, Places, Turns, Quiet, NextCall, Ended
<1>4. CASE ipc_irq_client_handler \/ UNCHANGED vars
  BY <1>0, <1>4 DEF ipc_irq_client_handler, vars, Ended
<1>5. CASE TaTake
  BY <1>0, <1>5 DEF TaTake, Turns, Ended
<1>6. ASSUME NEW c \in Call, NEW v \in {"ok", "err"}, ta_pc = "busy", ta_req.call = c,
             verdict' = [verdict EXCEPT ![c] = v], ta_pc' = "notify",
             UNCHANGED <<pc, call, status, ta_irq, ta_req, answered>>
      PROVE  Ended'
  <2>1. call = c /\ ~ta_irq /\ pc \in {"opened", "sleep", "done"} /\ status # "err"
    BY <1>0, <1>6 DEF Turns, Requested, Quiet
  <2>2. (pc = "done" => c = "close") /\ (c = "close" => pc = "done")
    BY <1>0, <2>1 DEF Places
  <2>3. verdict \in [Call -> Verdict]
    BY <1>0 DEF TypeOK
  <2> QED
    BY <1>0, <1>6, <2>1, <2>2, <2>3 DEF Ended
<1>7. CASE TaOpen
  BY <1>6, <1>7 DEF TaOpen
<1>8. CASE TaInvoke
  BY <1>6, <1>8 DEF TaInvoke
<1>9. CASE TaClose
  BY <1>6, <1>9 DEF TaClose
<1>10. CASE TaUnknown
  BY <1>0, <1>10 DEF TaUnknown, Requested, TypeOK
<1>11. CASE TaNotify
  BY <1>0, <1>11 DEF TaNotify, Requested, Ended
<1> QED
  BY <1>1, <1>2, <1>3, <1>4, <1>5, <1>7, <1>8, <1>9, <1>10, <1>11
     DEF Next, TrustedApp, Terminated

\* The identifier passed on is the one fetched.
LEMMA StepSessionPassed ==
  ASSUME Prompt = Call, IInv, [Next]_vars
  PROVE  SessionPassed'
<1> USE DEF client_vars, irq_vars, ta_vars, SessionPassed
<1>0. TypeOK /\ Turns /\ Places /\ Header /\ Requested /\ SessionPassed
  BY DEF IInv
<1>1. CASE Bind \/ FillParam \/ Stage
  BY <1>0, <1>1 DEF Bind, FillParam, Stage, Turn, Turns, Places, Quiet
<1>2. CASE WriteType
  BY <1>0, <1>2, WriteTypeMsg DEF WriteType
<1>3. CASE WriteArgs
  BY <1>0, <1>3 DEF WriteArgs, InvokeArgs, TypeOK, Msg
<1>4. CASE WriteParam
  BY <1>0, <1>4, WriteParamMsg DEF WriteParam, Turn
<1>5. CASE Ring \/ CheckOpened
  BY <1>0, <1>5 DEF Ring, CheckOpened, Places
<1>6. CASE Wake
  BY <1>0, <1>6 DEF Wake, Enter, Quiet
<1>7. CASE CopyResult
  BY <1>0, <1>7 DEF CopyResult, Enter, Turns, Quiet
<1>8. CASE ipc_irq_client_handler
  <2>1. call \in Invoke => pc = "sleep"
    BY <1>0, <1>8 DEF ipc_irq_client_handler, Turns, Quiet, Places
  <2>2. call \in Invoke => session_id' = session_id
                           /\ invoke_arg'.session = invoke_arg.session
    BY <1>0, <1>8, <2>1 DEF ipc_irq_client_handler, Header, TypeOK
  <2> QED
    BY <1>0, <1>8, <2>1, <2>2 DEF ipc_irq_client_handler
<1>9. CASE TaTake
  <2>1. call \in Invoke => pc = "sleep"
    BY <1>0, <1>9 DEF TaTake, Turns, Quiet, Places
  <2> QED
    BY <1>0, <1>9, <2>1 DEF TaTake, Header
<1>10. CASE TaOpen
  BY <1>0, <1>10 DEF TaOpen, Requested
<1>11. CASE TaInvoke \/ TaUnknown
  <2>1. msg'.invoke_args.session = msg.invoke_args.session
    BY <1>0, <1>11 DEF TaInvoke, TaUnknown, TypeOK, Msg
  <2> QED
    BY <1>0, <1>11, <2>1 DEF TaInvoke, TaUnknown
<1>12. CASE TaClose \/ TaNotify
  BY <1>0, <1>12 DEF TaClose, TaNotify
<1>13. CASE UNCHANGED vars
  BY <1>0, <1>13 DEF vars
<1> QED
  BY <1>1, <1>2, <1>3, <1>4, <1>5, <1>6, <1>7, <1>8, <1>9, <1>10, <1>11, <1>12,
     <1>13 DEF Next, MainThread, TrustedApp, Terminated

\* The identifier fetched is the one granted.
LEMMA StepSessionFetched ==
  ASSUME Prompt = Call, IInv, [Next]_vars
  PROVE  SessionFetched'
<1> USE DEF client_vars, irq_vars, ta_vars, SessionFetched
<1>0. TypeOK /\ Turns /\ Places /\ Header /\ Requested /\ Ended /\ SessionFetched
  BY DEF IInv
<1>1. CASE MainThread
  <2>1. UNCHANGED <<ta_pc, client_irq, ta_open, verdict, session_id>>
    BY <1>1 DEF MainThread, Bind, FillParam, Stage, WriteType, WriteArgs, WriteParam,
       Ring, CheckOpened, Wake, CopyResult
  <2>2. CASE Quiet
    BY <1>0, <2>1, <2>2 DEF Quiet
  <2>3. CASE ~Quiet
    <3>1. Ring \/ CheckOpened
      BY <1>0, <1>1, <2>3 DEF MainThread, Bind, FillParam, Stage, WriteType,
         WriteArgs, WriteParam, Wake, CopyResult, Turns, TypeOK
    <3> QED
      BY <1>0, <2>1, <3>1 DEF Ring, CheckOpened
  <2> QED
    BY <2>2, <2>3
<1>2. CASE ipc_irq_client_handler
  <2>1. call = "open" => msg.call_type = "open"
    BY <1>0, <1>2 DEF ipc_irq_client_handler, Turns, Quiet, Header
  <2>2. call # "open" => session_id' = session_id
    <3>1. pc \in {"opened", "sleep", "done"} /\ status # "err"
      BY <1>0, <1>2 DEF ipc_irq_client_handler, Turns, Quiet
    <3>2. call # "open" => msg.call_type # "open"
      BY <1>0, <3>1 DEF Header, Places, TypeOK
    <3> QED
      BY <1>2, <3>2 DEF ipc_irq_client_handler
  <2>3. call = "open" => session_id' = msg.session_args.session
    BY <1>2, <2>1 DEF ipc_irq_client_handler
  <2>4. UNCHANGED <<call, ta_pc, ta_open, verdict, msg>> /\ ta_pc = "idle"
        /\ client_irq /\ ~client_irq'
    BY <1>0, <1>2 DEF ipc_irq_client_handler, Turns
  <2> QED
    BY <1>0, <2>2, <2>3, <2>4
<1>3. CASE TaTake
  BY <1>0, <1>3 DEF TaTake
<1>4. CASE TaOpen
  <2>1. call = "open" /\ verdict["open"] = "none" /\ ta_open = {}
    BY <1>0, <1>4 DEF TaOpen, Requested, Ended
  <2>2. verdict' = [verdict EXCEPT !["open"] = "ok"] =>
          msg'.session_args.session \in ta_open'
    BY <1>0, <1>4 DEF TaOpen, TypeOK, Msg
  <2> QED
    BY <1>0, <1>4, <2>1, <2>2 DEF TaOpen, TypeOK
<1>5. CASE TaInvoke
  <2>1. call # "open" /\ verdict'["open"] = verdict["open"]
        /\ verdict'["close"] = verdict["close"]
    BY <1>0, <1>5 DEF TaInvoke, Requested, TypeOK
  <2> QED
    BY <1>0, <1>5, <2>1 DEF TaInvoke
<1>6. CASE TaClose
  BY <1>0, <1>6 DEF TaClose, TypeOK
<1>7. CASE TaUnknown
  BY <1>0, <1>7 DEF TaUnknown, Requested, TypeOK
<1>8. CASE TaNotify
  BY <1>0, <1>8 DEF TaNotify
<1>9. CASE UNCHANGED vars
  BY <1>0, <1>9 DEF vars
<1> QED
  BY <1>1, <1>2, <1>3, <1>4, <1>5, <1>6, <1>7, <1>8, <1>9
     DEF Next, TrustedApp, Terminated

(***************************************************************************)
(* The theorems.                                                           *)
(***************************************************************************)

\* The invariant is inductive.
LEMMA StepIInv ==
  ASSUME Prompt = Call
  PROVE  IInv /\ [Next]_vars => IInv'
<1> SUFFICES ASSUME IInv, [Next]_vars PROVE IInv'
  OBVIOUS
<1>1. TypeOK' /\ Places'
  BY StepTypeOK, StepPlaces DEF IInv
<1> QED
  BY <1>1, StepTurns, StepHeader, StepDescribed, StepRequested,
     StepStagedInPage, StepNotYet, StepResultInPage, StepCopiedSoFar,
     StepChallengeKept, StepAcknowledged, StepFreshResults, StepSessionFetched,
     StepSessionPassed, StepEnded DEF IInv

\* If the TA answers every call within the sleep that follows it, the invariant
\* of the turns on the page always holds.
THEOREM PromptInvariant ==
  ASSUME Prompt = Call
  PROVE  Spec => []IInv
<1>1. IInv /\ [Next]_vars => IInv'
  BY StepIInv
<1> QED
  BY <1>1, InitIInv, PTL DEF Spec

\* ... and so challenge_puf never hands back a word that is not the function's
\* answer when the TA ran the function well ...
THEOREM PromptFreshResults ==
  ASSUME Prompt = Call
  PROVE  Spec => []FreshResults
<1>1. IInv => FreshResults
  BY DEF IInv
<1> QED
  BY <1>1, PromptInvariant, PTL

\* ... and cpy_last_result never runs ahead of the interrupt of its call.
THEOREM PromptCopyAfterInterrupt ==
  ASSUME Prompt = Call
  PROVE  Spec => []CopyAfterInterrupt
<1>1. IInv => CopyAfterInterrupt
  BY DEF IInv, Turns, Places, Acknowledged, CopyAfterInterrupt
<1> QED
  BY <1>1, PromptInvariant, PTL

\* ... and the session identifier that the client passes on, to every function and to
\* the close, is the one that the TA granted and still holds open.
THEOREM PromptSessionAgreement ==
  ASSUME Prompt = Call
  PROVE  Spec => []SessionAgreement
<1>1. IInv => SessionAgreement
  BY DEF IInv, Requested, SessionFetched, SessionPassed, Ended, SessionAgreement
<1> QED
  BY <1>1, PromptInvariant, PTL

(***************************************************************************)
(* PufIpc implements PufRpc: one lemma for each kind of step, which is a   *)
(* step of PufRpc or changes nothing that the caller sees.                 *)
(***************************************************************************)
RpcStep == [Rpc!RpcNext]_(Rpc!rpc_vars)

\* The caller sees the calls end, the results and the status, and nothing else.
LEMMA Stutter ==
  UNCHANGED <<verdict, status, data, call>> => RpcStep
BY DEF RpcStep, Rpc!rpc_vars, Returned, Past, HasResult

\* The caller has nothing at the beginning.
LEMMA InitRpc == Init => Rpc!RpcInit
<1> SUFFICES ASSUME Init PROVE Rpc!RpcInit
  OBVIOUS
<1>1. call = "open" /\ status = "none" /\ verdict = [c \in Call |-> "none"]
  BY DEF Init
<1>2. Returned = [c \in Invoke |-> "pending"]
  BY <1>1 DEF Returned, Past, Rank
<1> QED
  BY <1>1, <1>2 DEF Rpc!RpcInit, Rpc!Invoked

\* The results that are in stay as they are while the call and the buffers do.
LEMMA SameReturned ==
  UNCHANGED <<data, call>> => Returned' = Returned
BY DEF Returned, Past, HasResult

\* A binding that fails gives up.
LEMMA BindRpc ==
  ASSUME IInv, Bind
  PROVE  RpcStep
<1>1. CASE status' = status
  BY <1>1, Stutter DEF Bind, client_vars, ta_vars
<1>2. CASE status' = "err"
  <2>1. status = "none" /\ verdict["open"] = "none"
    BY DEF Bind, IInv, Places, Ended
  <2>2. UNCHANGED <<verdict, Returned>>
    BY SameReturned DEF Bind, ta_vars
  <2>3. Rpc!GiveUp
    BY <1>2, <2>1, <2>2 DEF Rpc!GiveUp
  <2> QED
    BY <2>3 DEF RpcStep, Rpc!RpcNext
<1> QED
  BY <1>1, <1>2 DEF Bind

\* The close is rung for and not waited for.
LEMMA RingRpc ==
  ASSUME IInv, Ring
  PROVE  RpcStep
<1>1. UNCHANGED <<verdict, data, call>>
  BY DEF Ring, ta_vars
<1>2. CASE call # "close"
  BY <1>1, <1>2, Stutter DEF Ring
<1>3. CASE call = "close"
  <2>1. \A c \in Invoke : Returned[c] # "pending"
    BY <1>3 DEF Returned, Past, Rank
  <2>2. status = "none" /\ status' = "ok"
    BY <1>3 DEF Ring, IInv, Places
  <2>3. Rpc!Finish
    BY <1>1, <2>1, <2>2, SameReturned DEF Rpc!Finish, Rpc!Invoked
  <2> QED
    BY <2>3 DEF RpcStep, Rpc!RpcNext
<1> QED
  BY <1>2, <1>3

\* The sleep is over: the session is open, or a call goes on.
LEMMA WakeRpc ==
  ASSUME IInv, Wake
  PROVE  RpcStep
<1>1. UNCHANGED <<verdict, status, data>>
  BY DEF Wake, ta_vars
<1>2. CASE call # "open"
  BY <1>1, <1>2, Stutter DEF Wake
<1>3. CASE call = "open"
  <2>1. call' = "init"
    BY <1>3 DEF Wake, Enter
  <2>2. \A c \in Invoke : ~Past(c) /\ ~Past(c)'
    BY <1>3, <2>1 DEF Past, Rank
  <2>3. Returned' = Returned
    BY <2>2 DEF Returned
  <2> QED
    BY <1>1, <2>3 DEF RpcStep, Rpc!rpc_vars
<1> QED
  BY <1>2, <1>3

\* The last portion copied makes the function return.
LEMMA CopyRpc ==
  ASSUME Prompt = Call, IInv, CopyResult
  PROVE  RpcStep
<1>0. call \in Invoke /\ call \in Call /\ Quiet /\ call \in answered
  BY DEF IInv, Places, Turns, Acknowledged, CopyResult, Quiet
<1>1. UNCHANGED <<verdict, status>>
  BY DEF CopyResult, ta_vars
<1>2. \A c \in Invoke \ {call} : data'[c] = data[c]
  BY DEF CopyResult, IInv, TypeOK
<1>3. CASE slot # 3
  <2>1. call' = call
    BY <1>3 DEF CopyResult
  <2>2. ~Past(call)
    BY <1>0 DEF Past, Rank
  <2>3. \A c \in Invoke : /\ Past(c)' <=> Past(c)
                          /\ Past(c) => (HasResult(c)' <=> HasResult(c))
    BY <1>2, <2>1, <2>2 DEF Past, HasResult
  <2>4. Returned' = Returned
    BY <2>3 DEF Returned
  <2> QED
    BY <1>1, <2>4 DEF RpcStep, Rpc!rpc_vars
<1>4. ASSUME slot = 3, NEW d \in Invoke, d = call
      PROVE  RpcStep
  <2>1. call' = NextCall[d]
    BY <1>4 DEF CopyResult, Enter
  <2>2. ~Past(d) /\ \A c \in Invoke : Past(c)' <=> Past(c) \/ c = d
    BY <1>0, <1>4, <2>1, NextPast DEF Past, Rank
  <2>3. \A c \in Invoke \ {d} : HasResult(c)' <=> HasResult(c)
    BY <1>2, <1>4 DEF HasResult
  <2>4. Returned' = [Returned EXCEPT ![d] = IF HasResult(d)' THEN "result"
                                                             ELSE "other"]
    BY <2>2, <2>3 DEF Returned
  <2>5. Returned[d] = "pending"
    BY <2>2 DEF Returned
  <2>6. verdict[d] # "none"
    BY <1>0, <1>4 DEF IInv, Ended
  <2>7. verdict[d] = "ok" => HasResult(d)'
    <3>1. FreshResults'
      BY StepFreshResults, <1>0 DEF Next, MainThread
    <3> QED
      BY <1>1, <2>2, <3>1 DEF FreshResults
  <2>8. \E r \in {"result", "other"} : Rpc!Return(d, r)
    BY <1>1, <2>4, <2>5, <2>6, <2>7 DEF Rpc!Return
  <2> QED
    BY <2>8 DEF RpcStep, Rpc!RpcNext, Rpc!Invoked
<1> QED
  BY <1>0, <1>3, <1>4

\* The TA opens the session or refuses.
LEMMA OpenRpc ==
  ASSUME IInv, TaOpen
  PROVE  RpcStep
<1>1. call = "open" /\ ~Quiet /\ ta_pc = "busy"
  BY DEF TaOpen, IInv, Requested, Quiet
<1>2. verdict["open"] = "none" /\ status = "none"
  BY <1>1 DEF IInv, Ended, Places, Turns
<1>3. UNCHANGED <<status, Returned>>
  BY SameReturned DEF TaOpen, client_vars
<1>4. \E v \in {"ok", "err"} : Rpc!Open(v)
  BY <1>2, <1>3 DEF TaOpen, Rpc!Open
<1> QED
  BY <1>4 DEF RpcStep, Rpc!RpcNext

\* The TA runs the function that is due.
LEMMA InvokeRpc ==
  ASSUME IInv, TaInvoke
  PROVE  RpcStep
<1>1. call \in Invoke /\ ta_req.call = call /\ ta_pc = "busy"
  BY InvokeTurn DEF TaInvoke
<1>2. verdict[call] = "none" /\ verdict["open"] # "none"
  BY <1>1 DEF IInv, Ended, NotYet, Past, Rank
<1>3. UNCHANGED <<status, Returned>>
  BY SameReturned DEF TaInvoke, client_vars
<1>4. PICK v \in {"ok", "err"} : /\ verdict' = [verdict EXCEPT ![call] = v]
                                 /\ v = "ok" => ta_open # {}
  BY <1>1 DEF TaInvoke
<1>5. v = "ok" => verdict["open"] = "ok"
  BY <1>4 DEF IInv, SessionFetched
<1>6. PICK n \in 1..3 : /\ Rpc!Functions[n] = call
                        /\ \A m \in 1..(n - 1) : Rpc!Functions[m] \in Invoke
                                                 /\ Past(Rpc!Functions[m])
  <2>1. Rpc!Functions[1] = "init" /\ Rpc!Functions[2] = "commit"
        /\ Rpc!Functions[3] = "proofs"
    BY DEF Rpc!Functions
  <2>2. CASE call = "init"
    BY <2>1, <2>2
  <2>3. CASE call = "commit"
    BY <2>1, <2>3 DEF Past, Rank
  <2>4. CASE call = "proofs"
    <3>1. \A m \in 1..(3 - 1) : m = 1 \/ m = 2
      OBVIOUS
    <3> QED
      BY <2>1, <2>4, <3>1 DEF Past, Rank
  <2> QED
    BY <1>1, <2>2, <2>3, <2>4
<1>7. \A m \in 1..(n - 1) : Returned[Rpc!Functions[m]] # "pending"
  BY <1>6 DEF Returned
<1>8. Rpc!Execute(n, v)
  BY <1>2, <1>3, <1>4, <1>5, <1>6, <1>7 DEF Rpc!Execute
<1> QED
  BY <1>8 DEF RpcStep, Rpc!RpcNext

\* The TA closes the session, when the caller has its results.
LEMMA CloseRpc ==
  ASSUME IInv, TaClose
  PROVE  RpcStep
<1>1. call = "close" /\ ~Quiet /\ ta_pc = "busy"
  BY DEF TaClose, IInv, Requested, Quiet
<1>2. pc = "done" /\ status = "ok" /\ verdict["close"] = "none"
  BY <1>1 DEF IInv, TypeOK, Verdict, Ended, Places, Turns
<1>3. UNCHANGED <<status, Returned>>
  BY SameReturned DEF TaClose, client_vars
<1>4. \E v \in {"ok", "err"} : Rpc!Close(v)
  BY <1>2, <1>3 DEF TaClose, Rpc!Close
<1> QED
  BY <1>4 DEF RpcStep, Rpc!RpcNext

\* Every step is one of PufRpc, or the caller does not see it.
LEMMA NextRpc ==
  ASSUME Prompt = Call, IInv, [Next]_vars
  PROVE  RpcStep
<1>1. CASE FillParam \/ Stage \/ WriteType \/ WriteArgs \/ WriteParam
  BY <1>1, Stutter DEF FillParam, Stage, WriteType, WriteArgs, WriteParam, ta_vars
<1>2. CASE CheckOpened
  BY <1>2, Stutter DEF CheckOpened, ta_vars, IInv, Turns
<1>3. CASE ipc_irq_client_handler \/ TaTake \/ TaUnknown \/ TaNotify \/ UNCHANGED vars
  BY <1>3, Stutter DEF ipc_irq_client_handler, TaTake, TaUnknown, TaNotify, vars,
     client_vars, ta_vars
<1> QED
  BY <1>1, <1>2, <1>3, BindRpc, RingRpc, WakeRpc, CopyRpc, OpenRpc, InvokeRpc,
     CloseRpc DEF Next, MainThread, TrustedApp, Terminated

\* If the TA answers every call within the sleep that follows it, challenge_puf keeps
\* its promise: one session, the functions once each and in order, each after the one
\* before has returned, and the result of every function that ran well.
THEOREM PromptImplementsRpc ==
  ASSUME Prompt = Call
  PROVE  Spec => RpcSpec
<1>1. IInv /\ [Next]_vars => [Rpc!RpcNext]_(Rpc!rpc_vars)
  BY NextRpc DEF RpcStep
<1> QED
  BY <1>1, InitRpc, PromptInvariant, PTL DEF Spec, RpcSpec, Rpc!RpcSpec
=============================================================================
