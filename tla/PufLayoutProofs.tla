-------------------------- MODULE PufLayoutProofs --------------------------
(***************************************************************************)
(* Facts about the shared-memory layout, for every size the compiler may   *)
(* give the call_type enumeration.                                         *)
(***************************************************************************)
EXTENDS PufLayout, TLAPS

USE DEF Slot, Word

\* A slot is 971 bytes whatever the size of the enumeration (so slots 1 and 3
\* start at odd addresses).
LEMMA SlotSize == VMS_MEMREF_SLOT_SIZE = 971
<1>1. CALL_TYPE_SIZE = 1 \/ CALL_TYPE_SIZE = 2 \/ CALL_TYPE_SIZE = 4
  BY CallTypeSizeAssumption
<1>2. VMS_USABLE_PAYLOAD_SIZE = 3884
  BY <1>1 DEF VMS_USABLE_PAYLOAD_SIZE, VMS_IPC_FULL_SIZE, VMS_HEADER_SIZE,
              SESSION_ARGS_SIZE, INVOKE_ARGS_SIZE, PARAMS_SIZE
<1> QED
  BY <1>2 DEF VMS_MEMREF_SLOT_SIZE

\* Two portions of different slots, each as long as the longest the PUF calls
\* use (64 bytes), never share a byte of the payload, and all of them lie in it:
\* a staged challenge or a result cannot overwrite a neighbour's.
THEOREM PortionsDisjoint ==
  /\ \A i, j \in Slot : i < j => WordEnd(i, 2) <= WordStart(j, 1)
  /\ \A i \in Slot, w \in Word : /\ 0 <= WordStart(i, w)
                                 /\ WordEnd(i, w) <= VMS_USABLE_PAYLOAD_SIZE
<1>1. CALL_TYPE_SIZE = 1 \/ CALL_TYPE_SIZE = 2 \/ CALL_TYPE_SIZE = 4
  BY CallTypeSizeAssumption
<1>2. VMS_USABLE_PAYLOAD_SIZE = 3884
  BY <1>1 DEF VMS_USABLE_PAYLOAD_SIZE, VMS_IPC_FULL_SIZE, VMS_HEADER_SIZE,
              SESSION_ARGS_SIZE, INVOKE_ARGS_SIZE, PARAMS_SIZE
<1>3. ASSUME NEW i \in Slot, NEW j \in Slot, i < j
      PROVE  WordEnd(i, 2) <= WordStart(j, 1)
  BY <1>3, SlotSize DEF WordStart, WordEnd, MEMREF_OFFSET, WORD_SIZE
<1>4. ASSUME NEW i \in Slot, NEW w \in Word
      PROVE  /\ 0 <= WordStart(i, w)
             /\ WordEnd(i, w) <= VMS_USABLE_PAYLOAD_SIZE
  BY <1>2, SlotSize DEF WordStart, WordEnd, MEMREF_OFFSET, WORD_SIZE
<1> QED
  BY <1>3, <1>4

\* What memset(shm_ptr, 0, 1024) reaches: slot 0 and the first word of slot 1.
\* The second word of slot 1 is torn; slots 2 and 3, which carry every result of
\* the commitment and the proofs, keep what the call before left in them.
THEOREM WipeReach ==
  \A i \in Slot, w \in Word :
     /\ WipedWord(i, w) <=> i = 0 \/ (i = 1 /\ w = 1)
     /\ TornWord(i, w) <=> i = 1 /\ w = 2
BY SlotSize DEF WipedWord, TornWord, WordStart, WordEnd, MEMREF_OFFSET,
                WORD_SIZE, WIPE_SIZE
=============================================================================
