---------------------------- MODULE PufIpcProofs ----------------------------
(***************************************************************************)
(* Proofs about PufIpc for every set of session identifiers: the types of  *)
(* its variables under any timing, and, when the TA is prompt, the         *)
(* inductive invariant IInv with the freshness of results that follows     *)
(* from it.                                                                *)
(***************************************************************************)
EXTENDS PufIpcInv, TLAPS

USE DEF Slot, Word, Invoke, Call

(***************************************************************************)
(* Types.                                                                  *)
(***************************************************************************)

\* The descriptors that challenge_puf passes are descriptors.
LEMMA ParamOfType == \A c \in Call, i \in Slot : ParamOf(c, i) \in Descriptor
BY DEF ParamOf, Descriptor

\* What the pages and the buffers hold are data.
LEMMA DatumType ==
  /\ Zero \in Datum /\ Junk \in Datum
  /\ \A c \in Invoke, i \in Slot : Chal(c, i) \in Datum /\ Answer(c, i) \in Datum
BY DEF Zero, Junk, Chal, Answer, Datum

\* The identifiers that the TA grants, and none, are identifiers.
LEMMA SessionType == 0 \in AnySession /\ Sessions \subseteq AnySession
BY DEF AnySession

\* Every variable has its type at the beginning.
LEMMA InitTypeOK == Init => TypeOK
<1> SUFFICES ASSUME Init PROVE TypeOK
  OBVIOUS
<1>1. data \in [Invoke -> [Slot -> [Word -> Datum]]]
  BY DatumType DEF Init
<1>2. msg \in Msg
  BY SessionType DEF Init, Msg, NoDesc, Descriptor
<1>3. ta_req \in Request
  BY SessionType DEF Init, Request, NoDesc, Descriptor
<1>4. param \in [Slot -> Descriptor]
  BY DEF Init, NoDesc, Descriptor
<1>5. payload \in [Slot -> [Word -> Datum]]
  BY DatumType DEF Init
<1>6. pc = "boot" /\ status = "none" BY DEF Init
<1>61. call \in Call BY DEF Init
<1>62. slot \in Slot BY DEF Init
<1>63. irq_enabled \in BOOLEAN BY DEF Init
<1>64. arg_session \in AnySession  /\ session_id \in AnySession BY SessionType DEF Init
<1>65.  session_arg_ret = "ok" BY DEF Init
<1>8. invoke_arg \in [session : AnySession, ret : {"ok", "err"}]
  BY SessionType DEF Init
<1>7. /\ ta_irq \in BOOLEAN /\ client_irq \in BOOLEAN /\ ta_pc = "idle"
      /\ ta_open \subseteq Sessions /\ verdict \in [Call -> Verdict]
      /\ answered \subseteq Call /\ acked \subseteq Call
  BY DEF Init, Verdict
<1> QED
  BY <1>1, <1>2, <1>3, <1>4, <1>5, <1>6, <1>61,<1>62,<1>63,<1>64,<1>65,<1>8,<1>7 DEF TypeOK, Verdict


\* Where several descriptors cover the same word the last one wins.
LEMMA LastOf ==
  ASSUME NEW S, S \subseteq Slot, S # {}
  PROVE  (CHOOSE i \in S : \A j \in S : j <= i) \in S
<1>1. \E i \in S : \A j \in S : j <= i
  <2>1. CASE 3 \in S
    BY <2>1
  <2>2. CASE 3 \notin S /\ 2 \in S
    BY <2>2
  <2>3. CASE 3 \notin S /\ 2 \notin S /\ 1 \in S
    BY <2>3
  <2>4. CASE 3 \notin S /\ 2 \notin S /\ 1 \notin S
    <3>1. PICK x \in S : TRUE
      OBVIOUS
    <3>2. \A j \in S : j = 0
      BY <2>4
    <3> QED
      BY <3>1, <3>2
  <2> QED
    BY <2>1, <2>2, <2>3, <2>4
<1> QED
  BY <1>1

\* Staging keeps the type of the page.
LEMMA StageIntoType ==
  ASSUME NEW c \in Invoke, data \in [Invoke -> [Slot -> [Word -> Datum]]],
         payload \in [Slot -> [Word -> Datum]]
  PROVE  StageInto(Wipe(payload), c) \in [Slot -> [Word -> Datum]]
<1>1. Wipe(payload) \in [Slot -> [Word -> Datum]]
  BY DatumType DEF Wipe
<1>2. ASSUME NEW k \in Slot, NEW w \in Word
      PROVE  StageInto(Wipe(payload), c)[k][w] \in Datum
  <2> DEFINE src == {i \in Staged(c) : param[i].a = k /\ w <= param[i].b}
  <2>1. src \subseteq Slot
    BY DEF Staged
  <2>2. CASE src = {}
    BY <1>1, <2>2 DEF StageInto
  <2>3. CASE src # {}
    <3> DEFINE last == CHOOSE i \in src : \A j \in src : j <= i
    <3>1. last \in Slot
      BY <2>1, <2>3, LastOf
    <3>2. StageInto(Wipe(payload), c)[k][w] = data[c][last][w]
      BY <2>3 DEF StageInto
    <3> HIDE DEF last
    <3> QED
      BY <3>1, <3>2
  <2> QED
    BY <2>2, <2>3
<1> QED
  BY <1>2 DEF StageInto

\* So does what the TA writes.
LEMMA TaOutputType ==
  ASSUME ta_req.call \in Invoke, payload \in [Slot -> [Word -> Datum]]
  PROVE  TaOutput \in [Slot -> [Word -> Datum]]
<1>1. ASSUME NEW k \in Slot, NEW w \in Word
      PROVE  TaOutput[k][w] \in Datum
  <2> DEFINE out == Covering({"output", "inout"}, k, w)
  <2>1. out \subseteq Slot
    BY DEF Covering
  <2>2. CASE out = {}
    BY <2>2 DEF TaOutput
  <2>3. CASE out # {}
    <3>1. (CHOOSE i \in out : \A j \in out : j <= i) \in Slot
      BY <2>1, <2>3, LastOf
    <3> QED
      BY <2>3, <3>1, DatumType DEF TaOutput
  <2> QED
    BY <2>2, <2>3
<1> QED
  BY <1>1 DEF TaOutput

\* Every step keeps the types.
LEMMA StepTypeOK == TypeOK /\ Places /\ [Next]_vars => TypeOK'
<1> USE DEF AnySession, client_vars, irq_vars, ta_vars
<1> SUFFICES ASSUME TypeOK, Places, [Next]_vars PROVE TypeOK'
  OBVIOUS
<1>1. CASE Bind
  BY <1>1 DEF Bind, TypeOK, Verdict
<1>2. CASE FillParam
  BY <1>2, ParamOfType DEF FillParam, Turn, TypeOK
<1>3. CASE Stage
  <2>1. payload' \in [Slot -> [Word -> Datum]]
    <3>1. CASE call = "init"
      BY <1>3, <3>1 DEF Stage, TypeOK
    <3>2. CASE call \in Invoke
      BY <1>3, <3>2, StageIntoType DEF Stage, TypeOK
    <3> QED
      BY <1>3, <3>1, <3>2 DEF Stage, Places
  <2> QED
    BY <1>3, <2>1 DEF Stage, TypeOK
<1>4. CASE WriteType
  BY <1>4 DEF WriteType, TypeOf, TypeOK, Msg
<1>5. CASE WriteArgs
  BY <1>5 DEF WriteArgs, InvokeArgs, SessionArgs, TypeOK, Msg
<1>6. CASE WriteParam
  BY <1>6 DEF WriteParam, Turn, TypeOK, Msg
<1>7. CASE Ring
  BY <1>7 DEF Ring, TypeOK, Verdict
<1>8. CASE CheckOpened
  BY <1>8 DEF CheckOpened, TypeOK, Verdict
<1>9. CASE Wake
  BY <1>9 DEF Wake, Enter, TypeOK, Verdict
<1>10. CASE CopyResult
  <2>1. data' \in [Invoke -> [Slot -> [Word -> Datum]]]
    <3>1. /\ call \in Invoke /\ slot \in Slot /\ param[slot].a \in Slot
          /\ data \in [Invoke -> [Slot -> [Word -> Datum]]]
          /\ payload \in [Slot -> [Word -> Datum]]
      BY <1>10 DEF CopyResult, TypeOK, Places, Descriptor
    <3>2. [w \in Word |-> IF w <= Len(call, slot) THEN payload[param[slot].a][w]
                          ELSE data[call][slot][w]] \in [Word -> Datum]
      BY <3>1
    <3> QED
      BY <1>10, <3>1, <3>2 DEF CopyResult
  <2>2. call' \in Call /\ pc' \in {"type", "fill", "copy"} /\ slot' \in Slot
        /\ arg_session' \in AnySession
    BY <1>10 DEF CopyResult, Enter, NextCall, TypeOK
  <2> QED
    BY <1>10, <2>1, <2>2 DEF CopyResult, TypeOK
<1>11. CASE ipc_irq_client_handler
  <2>1. param' \in [Slot -> Descriptor] /\ session_id' \in AnySession
    BY <1>11 DEF ipc_irq_client_handler, TypeOK, Msg
  <2>2. invoke_arg' \in [session : AnySession, ret : {"ok", "err"}]
    BY <1>11 DEF ipc_irq_client_handler, TypeOK, Msg
  <2> QED
    BY <1>11, <2>1, <2>2 DEF ipc_irq_client_handler, TypeOK
<1>12. CASE TaTake
  <2>1. ta_req' \in Request
    BY <1>12 DEF TaTake, TypeOK, Msg, Request
  <2>2. ta_irq' \in BOOLEAN /\ ta_pc' \in {"idle", "busy", "notify"}
    BY <1>12 DEF TaTake
  <2>3. UNCHANGED <<client_vars, irq_vars, msg, payload, client_irq, ta_open,
                    verdict, answered, acked>>
    BY <1>12 DEF TaTake
  <2> QED
    BY <2>1, <2>2, <2>3 DEF TypeOK
<1>13. CASE TaOpen
  BY <1>13 DEF TaOpen, TypeOK, Msg, Verdict
<1>14. CASE TaInvoke
  <2>1. payload' \in [Slot -> [Word -> Datum]]
    BY <1>14, TaOutputType DEF TaInvoke, TypeOK
  <2>2. msg' \in Msg
    BY <1>14 DEF TaInvoke, TypeOK, Msg
  <2>3. verdict' \in [Call -> Verdict]
    BY <1>14 DEF TaInvoke, TypeOK, Verdict
  <2> QED
    BY <1>14, <2>1, <2>2, <2>3 DEF TaInvoke, TypeOK
<1>15. CASE TaClose
  BY <1>15 DEF TaClose, TypeOK, Verdict
<1>16. CASE TaUnknown
  BY <1>16 DEF TaUnknown, TypeOK, Msg
<1>17. CASE TaNotify
  BY <1>17 DEF TaNotify, TypeOK, Request
<1>18. CASE UNCHANGED vars
  BY <1>18 DEF vars, TypeOK
<1> QED
  BY <1>1, <1>2, <1>3, <1>4, <1>5, <1>6, <1>7, <1>8, <1>9, <1>10, <1>11, <1>12,
     <1>13, <1>14, <1>15, <1>16, <1>17, <1>18
     DEF Next, MainThread, TrustedApp, Terminated

\* Every step keeps the caller at a place of its call.
LEMMA StepPlaces == TypeOK /\ Places /\ [Next]_vars => Places'
<1> SUFFICES ASSUME TypeOK, Places, [Next]_vars PROVE Places'
  OBVIOUS
<1> USE DEF client_vars
<1>1. CASE Bind \/ Stage \/ WriteType \/ WriteArgs \/ Ring \/ CheckOpened
  BY <1>1 DEF Bind, Stage, WriteType, WriteArgs, Ring, CheckOpened, Places, TypeOK
<1>2. CASE FillParam \/ WriteParam
  BY <1>2 DEF FillParam, WriteParam, Turn, Places
<1>3. CASE Wake \/ CopyResult
  BY <1>3 DEF Wake, CopyResult, Enter, NextCall, Places, TypeOK
<1>4. CASE ipc_irq_client_handler \/ TrustedApp \/ UNCHANGED vars
  BY <1>4 DEF ipc_irq_client_handler, TrustedApp, TaTake, TaOpen, TaInvoke,
              TaClose, TaUnknown, TaNotify, vars, Places
<1> QED
  BY <1>1, <1>2, <1>3, <1>4 DEF Next, MainThread, Terminated

\* Whatever the timing, every variable keeps its type.
THEOREM TypeCorrect == Spec => []TypeOK
<1>1. Init => Places
  BY DEF Init, Places
<1>2. TypeOK /\ Places /\ [Next]_vars => Places'
  BY StepPlaces
<1> QED
  BY InitTypeOK, StepTypeOK, <1>1, <1>2, PTL DEF Spec

(***************************************************************************)
(* The session identifier, under any timing.                               *)
(***************************************************************************)
LEMMA InitHandleInv == Init => HandleInv
BY DEF Init, HandleInv

\* A step of any timing keeps what is said of the session identifier.
LEMMA StepHandleInv ==
  TypeOK /\ Places /\ HandleInv /\ [Next]_vars => HandleInv'
<1> SUFFICES ASSUME TypeOK, Places, HandleInv, [Next]_vars PROVE HandleInv'
  OBVIOUS
<1> USE DEF client_vars, irq_vars, ta_vars, HandleInv
<1>1. CASE Bind \/ FillParam \/ Stage \/ Ring \/ CheckOpened
  BY <1>1 DEF Bind, FillParam, Stage, Ring, CheckOpened
<1>2. CASE WriteType
  <2>1. /\ msg'.call_type = TypeOf(call)
        /\ msg'.session_args = msg.session_args
    BY <1>2 DEF WriteType, TypeOK, Msg
  <2> QED
    BY <1>2, <2>1 DEF WriteType, TypeOf
<1>3. CASE WriteArgs
  <2>1. /\ msg'.call_type = msg.call_type
        /\ call # "close" => msg'.session_args.session \in {0, msg.session_args.session}
    BY <1>3 DEF WriteArgs, InvokeArgs, SessionArgs, TypeOK, Msg
  <2> QED
    BY <1>3, <2>1 DEF WriteArgs
<1>4. CASE WriteParam
  <2>1. /\ msg'.call_type = msg.call_type
        /\ msg'.session_args = msg.session_args
    BY <1>4 DEF WriteParam, TypeOK, Msg
  <2> QED
    BY <1>4, <2>1 DEF WriteParam
<1>5. CASE Wake
  BY <1>5 DEF Wake, Enter
<1>6. CASE CopyResult
  <2>1. call # "close"
    BY <1>6 DEF CopyResult, Places
  <2> QED
    BY <1>6, <2>1 DEF CopyResult
<1>7. CASE ipc_irq_client_handler
  BY <1>7 DEF ipc_irq_client_handler
<1>8. CASE TaTake
  BY <1>8 DEF TaTake, TypeOK, Msg
<1>9. CASE TaOpen
  <2>1. /\ msg'.call_type = msg.call_type /\ ta_req' = ta_req
        /\ msg'.session_args.session \in ta_open' \cup {msg.session_args.session}
        /\ ta_open \subseteq ta_open'
    BY <1>9 DEF TaOpen, TypeOK, Msg
  <2> QED
    BY <1>9, <2>1 DEF TaOpen
<1>10. CASE TaInvoke \/ TaUnknown
  <2>1. /\ msg'.call_type = msg.call_type /\ ta_req' = ta_req /\ ta_open' = ta_open
        /\ msg'.session_args = msg.session_args
    BY <1>10 DEF TaInvoke, TaUnknown, TypeOK, Msg
  <2> QED
    BY <1>10, <2>1 DEF TaInvoke, TaUnknown
<1>11. CASE TaClose \/ TaNotify
  BY <1>11 DEF TaClose, TaNotify
<1>12. CASE UNCHANGED vars
  BY <1>12 DEF vars
<1> QED
  BY <1>1, <1>2, <1>3, <1>4, <1>5, <1>6, <1>7, <1>8, <1>9, <1>10, <1>11, <1>12
     DEF Next, MainThread, TrustedApp, Terminated

\* Whatever the timing, the identifier that the handler has stored is one that the TA
\* granted and still holds open: a late TA leaves the client without a session, never
\* with a wrong one.
THEOREM HandleCorrect == Spec => []HandleNeverWrong
<1>1. Init => Places
  BY DEF Init, Places
<1>2. TypeOK /\ Places /\ [Next]_vars => Places'
  BY StepPlaces
<1>3. HandleInv => HandleNeverWrong
  BY DEF HandleInv, HandleNeverWrong
<1> QED
  BY InitTypeOK, StepTypeOK, InitHandleInv, StepHandleInv, <1>1, <1>2, <1>3, PTL
     DEF Spec
=============================================================================
