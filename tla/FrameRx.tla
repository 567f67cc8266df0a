------------------------------ MODULE FrameRx ------------------------------
(***************************************************************************)
(* recStream() and readExact() of transmission.c: taking one framed        *)
(* portion (start sequence, payload, stop sequence) out of a TLS byte      *)
(* stream that delivers bytes in pieces and may end anywhere.              *)
(*                                                                         *)
(* The stream is what the peer has written, the bytes of it that have      *)
(* arrived are a prefix; a closed connection delivers no more.  wolfSSL    *)
(* (external) hands out arrived bytes in order, asks to be called again    *)
(* (WANT_READ) while there are none, and fails for good once they are used *)
(* up on a closed connection.                                              *)
(***************************************************************************)
EXTENDS Integers, Sequences

CONSTANTS
  SEQ_LEN,      \* START_SEQ_LEN and STOP_SEQ_LEN: 4 in the code
  PayloadLen,   \* payload_len: the length the caller expects
  Streams       \* what a peer may write

Byte == 0..255
START == 85      \* 0x55, SEQ_LEN times
STOP == 255      \* 0xFF, SEQ_LEN times

ASSUME SizesAssumption == SEQ_LEN \in Nat \ {0} /\ PayloadLen \in Nat \ {0}
ASSUME StreamsAssumption == Streams \subseteq Seq(Byte)

VARIABLES
  stream,    \* all the peer writes
  arrived,   \* how many of its bytes have arrived
  closed,    \* no more will
  pos,       \* how many were read
  pc,        \* where recStream is
  seq_buf,   \* char seq_buf[SEQ_LEN]
  idx,       \* its index during the scan
  got,       \* total_read of the readExact in progress
  out_buf,   \* the caller's buffer
  ret,       \* what recStream returned, 2 before it does
  frame      \* history: where the matched start sequence ends

vars == <<stream, arrived, closed, pos, pc, seq_buf, idx, got, out_buf, ret, frame>>

Index == 0..(SEQ_LEN - 1)

TypeOK ==
  /\ stream \in Seq(Byte)
  /\ arrived \in 0..Len(stream)
  /\ closed \in BOOLEAN
  /\ pos \in 0..arrived
  /\ pc \in {"scan", "payload", "stop", "compare", "done"}
  /\ seq_buf \in [Index -> Byte]
  /\ idx \in Index
  /\ got \in Nat
  /\ out_buf \in [0..(PayloadLen - 1) -> Byte]
  /\ ret \in {0, 1, 2}
  /\ frame \in 0..Len(stream)

Init ==
  /\ stream \in Streams
  /\ arrived = 0 /\ closed = FALSE /\ pos = 0
  /\ pc = "scan" /\ idx = 0 /\ got = 0 /\ ret = 2 /\ frame = 0
  /\ seq_buf = [j \in Index |-> 0]
  /\ out_buf = [j \in 0..(PayloadLen - 1) |-> 0]

(***************************************************************************)
(* The connection.                                                         *)
(***************************************************************************)
Arrive ==
  /\ ~closed /\ arrived < Len(stream)
  /\ arrived' = arrived + 1
  /\ UNCHANGED <<stream, closed, pos, pc, seq_buf, idx, got, out_buf, ret, frame>>

Close ==
  /\ ~closed
  /\ closed' = TRUE
  /\ UNCHANGED <<stream, arrived, pos, pc, seq_buf, idx, got, out_buf, ret, frame>>

\* wolfSSL_read() returns at least one byte, or fails for good.
Readable == pos < arrived
ReadFails == pos = arrived /\ closed

\* How many bytes a read into the rest of a buffer of len bytes may return.
Room_whole(len) == {n \in 1..(arrived - pos) : n <= len}
Room(len) == {n \in 1..(arrived - pos) : got + n <= len}

(***************************************************************************)
(* recStream.                                                              *)
(***************************************************************************)
Matches_short(buf, byte) == \A j \in 0..(SEQ_LEN - 2) : buf[j] = byte
Matches(buf, byte) == \A j \in Index : buf[j] = byte

\* memmove(seq_buf, seq_buf + 1, SEQ_LEN - 1)
Shifted_none(buf) == buf
Shifted(buf) == [j \in Index |-> IF j < SEQ_LEN - 1 THEN buf[j + 1] ELSE buf[j]]

\* The window is not full yet.
Filling_late == idx <= SEQ_LEN - 1
Filling == idx < SEQ_LEN - 1

\* The window slides over the stream until it shows the start sequence.
Scan ==
  /\ pc = "scan" /\ Readable
  /\ pos' = pos + 1
  /\ LET buf == [seq_buf EXCEPT ![idx] = stream[pos + 1]]
     IN  IF Filling
         THEN /\ idx' = idx + 1 /\ seq_buf' = buf
              /\ UNCHANGED <<pc, frame>>
         ELSE IF Matches(buf, START)
         THEN /\ pc' = "payload" /\ seq_buf' = buf /\ frame' = pos + 1
              /\ UNCHANGED idx
         ELSE /\ seq_buf' = Shifted(buf) /\ idx' = SEQ_LEN - 1
              /\ UNCHANGED <<pc, frame>>
  /\ UNCHANGED <<stream, arrived, closed, got, out_buf, ret>>

\* The end of the connection taken for WANT_READ.
ScanFails_retries == pc = "scan" /\ ReadFails /\ UNCHANGED vars
ScanFails ==
  /\ pc = "scan" /\ ReadFails
  /\ pc' = "done" /\ ret' = 1
  /\ UNCHANGED <<stream, arrived, closed, pos, seq_buf, idx, got, out_buf, frame>>

\* readExact(ssl, out_buf, payload_len): n more bytes.
ReadPayload ==
  /\ pc = "payload"
  /\ \E n \in Room(PayloadLen) :
       /\ pos' = pos + n
       /\ out_buf' = [j \in 0..(PayloadLen - 1) |->
                        IF got <= j /\ j < got + n THEN stream[pos + 1 + j - got]
                                                   ELSE out_buf[j]]
       /\ IF got + n >= PayloadLen THEN got' = 0 /\ pc' = "stop"
                                   ELSE got' = got + n /\ pc' = pc
  /\ UNCHANGED <<stream, arrived, closed, seq_buf, idx, ret, frame>>

\* readExact(ssl, seq_buf, STOP_SEQ_LEN): n more bytes.
ReadStop ==
  /\ pc = "stop"
  /\ \E n \in Room(SEQ_LEN) :
       /\ pos' = pos + n
       /\ seq_buf' = [j \in Index |->
                        IF got <= j /\ j < got + n THEN stream[pos + 1 + j - got]
                                                   ELSE seq_buf[j]]
       /\ got' = got + n
       /\ pc' = IF got + n >= SEQ_LEN THEN "compare" ELSE pc
  /\ UNCHANGED <<stream, arrived, closed, idx, out_buf, ret, frame>>

\* A readExact that fails returns 1, and recStream only looks for a negative
\* result: it goes on as if the bytes had come.
ReadExactFails ==
  /\ pc \in {"payload", "stop"} /\ ReadFails
  /\ pc' = IF pc = "payload" THEN "stop" ELSE "compare"
  /\ got' = 0
  /\ UNCHANGED <<stream, arrived, closed, pos, seq_buf, idx, out_buf, ret, frame>>

\* matchSeq(seq_buf, STOP_SEQ, STOP_SEQ_LEN)
Compare ==
  /\ pc = "compare"
  /\ ret' = IF Matches(seq_buf, STOP) THEN 0 ELSE 1
  /\ pc' = "done"
  /\ UNCHANGED <<stream, arrived, closed, pos, seq_buf, idx, got, out_buf, frame>>

RecStream == \/ Scan \/ ScanFails \/ ReadPayload \/ ReadStop \/ ReadExactFails
             \/ Compare

\* recStream has returned.
Returned == pc = "done" /\ UNCHANGED vars

Next == Arrive \/ Close \/ RecStream \/ Returned

Spec == Init /\ [][Next]_vars

\* The caller's thread runs, and the network delivers what was written; that the
\* peer ever closes is not assumed.
Fairness == WF_vars(RecStream) /\ WF_vars(Arrive)
FairSpec == Spec /\ Fairness

(***************************************************************************)
(* Correctness.                                                            *)
(***************************************************************************)

\* A start sequence ends with byte k of the stream, and none ends before.
StartAt(k) == k \in SEQ_LEN..Len(stream) /\ \A j \in Index : stream[k - j] = START
FirstStart(k) == StartAt(k) /\ \A m \in 1..(k - 1) : ~StartAt(m)

\* The frame behind it has arrived whole.
FrameAt(k) ==
  /\ FirstStart(k)
  /\ k + PayloadLen + SEQ_LEN <= arrived
  /\ \A j \in 1..SEQ_LEN : stream[k + PayloadLen + j] = STOP

\* recStream returns 0 exactly when the first start sequence opens a frame of
\* the expected length that arrived whole, and then out_buf holds its payload:
\* a cut connection is never taken for a frame, although the results of
\* readExact are not looked at.
FrameVerdict ==
  pc = "done" =>
    /\ ret = 0 <=> \E k \in 1..Len(stream) : FrameAt(k)
    /\ ret = 0 => \A k \in 1..Len(stream) : FrameAt(k) =>
         \A j \in 0..(PayloadLen - 1) : out_buf[j] = stream[k + 1 + j]

\* Having returned 0, recStream has read its frame and not a byte more: what
\* follows is left for the next recStream or waitForAck.
ReadsNoFurther ==
  pc = "done" /\ ret = 0 => pos = frame + PayloadLen + SEQ_LEN

\* What sendFramedStream writes after m bytes that hold no START byte (the stop
\* of the frame before, an ACK) is received, whatever the payload.
Sent(m) ==
  /\ \A j \in 1..m : stream[j] # START
  /\ m + SEQ_LEN + PayloadLen + SEQ_LEN <= Len(stream)
  /\ \A j \in 1..SEQ_LEN : stream[m + j] = START
  /\ \A j \in 1..SEQ_LEN : stream[m + SEQ_LEN + PayloadLen + j] = STOP
FrameDelivered ==
  (\E m \in 0..Len(stream) : Sent(m)) ~> (closed \/ (pc = "done" /\ ret = 0))

\* A closed connection ends the wait.
CloseEnds == closed ~> pc = "done"

(***************************************************************************)
(* The inductive invariant behind FrameVerdict and ReadsNoFurther.         *)
(***************************************************************************)

\* While it scans, seq_buf shows the last idx bytes read, and no start
\* sequence has gone by.
NoStartTo(k) == \A m \in 1..k : ~StartAt(m)
Scanning ==
  pc = "scan" =>
    /\ frame = 0 /\ got = 0
    /\ idx = IF pos < SEQ_LEN - 1 THEN pos ELSE SEQ_LEN - 1
    /\ \A j \in 0..(idx - 1) : seq_buf[j] = stream[pos - idx + j + 1]
    /\ NoStartTo(pos)

\* Behind the start sequence the bytes go where they belong.
Copied(n) == \A j \in 0..(n - 1) : out_buf[j] = stream[frame + 1 + j]
Payload ==
  pc = "payload" =>
    /\ frame > 0 /\ FirstStart(frame)
    /\ pos = frame + got /\ got < PayloadLen
    /\ Copied(got) /\ Matches(seq_buf, START)

\* The payload came whole, and then got bytes of the stop sequence.
Whole ==
  /\ pos = frame + PayloadLen + got /\ got <= SEQ_LEN
  /\ Copied(PayloadLen)
  /\ \A j \in Index :
       seq_buf[j] = IF j < got THEN stream[frame + PayloadLen + 1 + j] ELSE START

\* The connection ended inside the frame: a byte of the start sequence is still
\* where the stop sequence should be.
Cut(len) ==
  /\ closed /\ pos = arrived /\ pos < frame + len
  /\ \E j \in Index : seq_buf[j] = START

Stopping ==
  /\ pc \in {"stop", "compare"} => frame > 0 /\ FirstStart(frame)
  /\ pc = "stop" => \/ Whole /\ got < SEQ_LEN
                    \/ Cut(PayloadLen) /\ got = 0
  /\ pc = "compare" => \/ Whole /\ got = SEQ_LEN
                       \/ Cut(PayloadLen + SEQ_LEN)

Finished ==
  /\ pc # "done" <=> ret = 2
  /\ ret = 0 => /\ FirstStart(frame) /\ Copied(PayloadLen)
                /\ pos = frame + PayloadLen + SEQ_LEN
                /\ \A j \in 1..SEQ_LEN : stream[frame + PayloadLen + j] = STOP
  /\ ret = 1 =>
       \/ closed /\ pos = arrived /\ NoStartTo(pos)
       \/ /\ FirstStart(frame)
          /\ \/ closed /\ arrived < frame + PayloadLen + SEQ_LEN
             \/ \E j \in 1..SEQ_LEN : stream[frame + PayloadLen + j] # STOP

IInv == TypeOK /\ Scanning /\ Payload /\ Stopping /\ Finished
=============================================================================
