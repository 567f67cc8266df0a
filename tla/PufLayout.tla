----------------------------- MODULE PufLayout -----------------------------
(***************************************************************************)
(* The layout of the shared-memory page through which the TLS client (VM0) *)
(* talks to the PUF trusted application (VM1): crosscon_hv_config.h.       *)
(*                                                                         *)
(* The payload area is cut into four slots, one per GlobalPlatform memref  *)
(* parameter.  Offsets are bytes from the start of the payload.  The       *)
(* client clears "the payload" with memset(shm_ptr, 0, 1024), which is     *)
(* less than the area it uses: WipedWord and TornWord say how far it gets. *)
(***************************************************************************)
EXTENDS Integers

\* sizeof(tee_call_type_t): 1 with short enums (AAPCS), 4 without.
CONSTANT CALL_TYPE_SIZE

ASSUME CallTypeSizeAssumption == CALL_TYPE_SIZE \in {1, 2, 4}

Slot == 0..3                     \* VMS_MAX_PARAMS = 4
Word == 1..2                     \* a portion is one or two words of 32 bytes
WORD_SIZE == 32

VMS_IPC_FULL_SIZE == 4096
SESSION_ARGS_SIZE == 16 + 16 + 6 * 4      \* sizeof(GP_OpenSessionArgs)
INVOKE_ARGS_SIZE == 6 * 4                 \* sizeof(GP_InvokeArgs)
PARAMS_SIZE == 4 * (4 * 8)                \* VMS_MAX_PARAMS * sizeof(GP_Param)

VMS_HEADER_SIZE ==
    CALL_TYPE_SIZE + SESSION_ARGS_SIZE + INVOKE_ARGS_SIZE + PARAMS_SIZE

\* (full - header) & ~3
VMS_USABLE_PAYLOAD_SIZE ==
    ((VMS_IPC_FULL_SIZE - VMS_HEADER_SIZE) \div 4) * 4

VMS_MEMREF_SLOT_SIZE == VMS_USABLE_PAYLOAD_SIZE \div 4

MEMREF_OFFSET(i) == i * VMS_MEMREF_SLOT_SIZE

\* The byte range [WordStart, WordEnd) of word w of slot i.
WordStart(i, w) == MEMREF_OFFSET(i) + WORD_SIZE * (w - 1)
WordEnd(i, w)   == MEMREF_OFFSET(i) + WORD_SIZE * w

\* memset(shm_ptr, 0, 1024) clears the bytes below WIPE_SIZE: the words that
\* end below it are zero afterwards, the one that straddles it is torn.
WIPE_SIZE == 1024
WipedWord(i, w) == WordEnd(i, w) <= WIPE_SIZE
TornWord(i, w)  == WordStart(i, w) < WIPE_SIZE /\ WIPE_SIZE < WordEnd(i, w)
=============================================================================
