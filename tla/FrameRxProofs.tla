--------------------------- MODULE FrameRxProofs ---------------------------
(***************************************************************************)
(* recStream takes exactly the first frame, for every length of the        *)
(* sequences and of the payload and for every stream.                      *)
(***************************************************************************)
EXTENDS FrameRx, TLAPS

\* The framing bytes are two bytes.
LEMMA Distinct == START \in Byte /\ STOP \in Byte /\ 0 \in Byte /\ START # STOP
BY DEF START, STOP, Byte

\* What arrives are bytes.
LEMMA StreamByte ==
  ASSUME TypeOK, NEW i \in 1..Len(stream)
  PROVE  stream[i] \in Byte
BY DEF TypeOK

(***************************************************************************)
(* What the scanning window says about the stream.                         *)
(***************************************************************************)

\* With a full window, the window shows the start sequence exactly when one
\* ends with the byte just read.
LEMMA WindowMatches ==
  ASSUME NEW p \in Nat, p + 1 \in SEQ_LEN..Len(stream), NEW buf,
         \A j \in Index : buf[j] = stream[(p + 1) - SEQ_LEN + 1 + j]
  PROVE  Matches(buf, START) <=> StartAt(p + 1)
<1>1. ASSUME Matches(buf, START), NEW j \in Index PROVE stream[(p + 1) - j] = START
  <2> DEFINE i == SEQ_LEN - 1 - j
  <2>1. i \in Index /\ (p + 1) - SEQ_LEN + 1 + i = (p + 1) - j
    BY SizesAssumption DEF Index
  <2>2. buf[i] = START
    BY <1>1, <2>1 DEF Matches
  <2> QED BY <2>1, <2>2
<1>2. ASSUME StartAt(p + 1), NEW j \in Index PROVE buf[j] = START
  <2> DEFINE i == SEQ_LEN - 1 - j
  <2>1. i \in Index /\ (p + 1) - SEQ_LEN + 1 + j = (p + 1) - i
    BY SizesAssumption DEF Index
  <2> HIDE DEF i
  <2>2. stream[(p + 1) - i] = START
    BY <1>2, <2>1, Zenon DEF StartAt
  <2> QED BY <2>1, <2>2
<1>3. ASSUME Matches(buf, START) PROVE StartAt(p + 1)
  <2>1. \A j \in Index : stream[(p + 1) - j] = START
    BY <1>1, <1>3
  <2> QED BY <2>1, Zenon DEF StartAt
<1>4. ASSUME StartAt(p + 1) PROVE Matches(buf, START)
  BY <1>2, <1>4 DEF Matches
<1> QED BY <1>3, <1>4

\* Only one start sequence is the first.
LEMMA FirstStartUnique ==
  ASSUME SEQ_LEN \in Nat \ {0}, NEW k, NEW m, FirstStart(k), FirstStart(m),
         Len(stream) \in Nat
  PROVE  k = m
<1>1. k \in 1..Len(stream) /\ m \in 1..Len(stream) /\ StartAt(k) /\ StartAt(m)
  BY DEF FirstStart, StartAt
<1> QED BY <1>1 DEF FirstStart

(***************************************************************************)
(* Initially.                                                              *)
(***************************************************************************)
LEMMA InitInv == Init => IInv
<1> SUFFICES ASSUME Init PROVE IInv
  OBVIOUS
<1>1. stream \in Seq(Byte) /\ Len(stream) \in Nat
  BY StreamsAssumption DEF Init
<1>2. TypeOK
  <2>1. seq_buf \in [Index -> Byte] /\ out_buf \in [0..(PayloadLen - 1) -> Byte]
    BY Distinct DEF Init
  <2>2. idx \in Index
    BY SizesAssumption DEF Init, Index
  <2>3. closed \in BOOLEAN
    BY DEF Init
  <2> QED BY <1>1, <2>1, <2>2, <2>3 DEF Init, TypeOK
<1>3. Scanning
  BY <1>1, SizesAssumption DEF Init, Scanning, NoStartTo
<1>4. Payload /\ Stopping /\ Finished
  BY DEF Init, Payload, Stopping, Finished
<1> QED BY <1>2, <1>3, <1>4 DEF IInv

(***************************************************************************)
(* The connection's steps.                                                 *)
(***************************************************************************)
LEMMA ArriveInv == IInv /\ Arrive => IInv'
<1> SUFFICES ASSUME IInv, Arrive PROVE IInv'
  OBVIOUS
<1> USE DEF IInv, Arrive
<1>1. TypeOK'
  BY DEF TypeOK
<1>2. Scanning'
  BY DEF Scanning, NoStartTo, StartAt
<1>3. Payload'
  BY DEF Payload, FirstStart, StartAt, Copied, Matches
<1>4. Stopping'
  BY DEF Stopping, FirstStart, StartAt, Whole, Cut, Copied
<1>5. Finished'
  BY DEF Finished, FirstStart, StartAt, Copied, NoStartTo
<1> QED BY <1>1, <1>2, <1>3, <1>4, <1>5

\* The end of the stream keeps the invariant.
LEMMA CloseInv == IInv /\ Close => IInv'
<1> SUFFICES ASSUME IInv, Close PROVE IInv'
  OBVIOUS
<1> USE DEF IInv, Close
<1>1. TypeOK'
  BY DEF TypeOK
<1>2. Scanning'
  BY DEF Scanning, NoStartTo, StartAt
<1>3. Payload'
  BY DEF Payload, FirstStart, StartAt, Copied, Matches
<1>4. Stopping'
  BY DEF Stopping, FirstStart, StartAt, Whole, Cut, Copied
<1>5. Finished'
  BY DEF Finished, FirstStart, StartAt, Copied, NoStartTo
<1> QED BY <1>1, <1>2, <1>3, <1>4, <1>5

(***************************************************************************)
(* recStream's steps.                                                      *)
(***************************************************************************)
LEMMA ScanInv == IInv /\ Scan => IInv'
<1> SUFFICES ASSUME IInv, Scan PROVE IInv'
  OBVIOUS
<1> DEFINE buf == [seq_buf EXCEPT ![idx] = stream[pos + 1]]
<1>1. /\ pc = "scan" /\ pos < arrived /\ pos' = pos + 1 /\ frame = 0 /\ got = 0
      /\ UNCHANGED <<stream, arrived, closed, got, out_buf, ret>>
      /\ arrived \in Nat /\ arrived <= Len(stream) /\ Len(stream) \in Nat
      /\ pos \in Nat /\ idx \in Index
  BY DEF IInv, TypeOK, Scanning, Scan, Readable
<1>2. stream[pos + 1] \in Byte
  BY <1>1, StreamByte DEF IInv
<1>3. buf \in [Index -> Byte]
  BY <1>1, <1>2 DEF IInv, TypeOK
<1>4. \A j \in 0..idx : buf[j] = stream[pos - idx + j + 1]
  BY <1>1, SizesAssumption DEF IInv, TypeOK, Scanning, Index
<1>5. ret = 2
  BY <1>1 DEF IInv, Finished, TypeOK
<1>6. CASE Filling
  <2>1. idx' = idx + 1 /\ seq_buf' = buf /\ UNCHANGED <<pc, frame>>
    BY <1>6 DEF Scan
  <2>2. TypeOK'
    BY <1>1, <1>3, <1>6, <2>1, SizesAssumption DEF IInv, TypeOK, Index, Filling
  <2>3. idx = pos /\ pos < SEQ_LEN - 1
    BY <1>1, <1>6, SizesAssumption DEF IInv, Scanning, Filling
  <2>4. \A j \in 0..(idx' - 1) : seq_buf'[j] = stream'[pos' - idx' + j + 1]
    BY <1>1, <1>4, <2>1, <2>3
  <2>5. NoStartTo(pos)'
    BY <1>1, <2>3, SizesAssumption DEF NoStartTo, StartAt
  <2>6. Scanning'
    BY <1>1, <2>1, <2>3, <2>4, <2>5, SizesAssumption DEF Scanning
  <2>7. Payload' /\ Stopping' /\ Finished'
    BY <1>1, <1>5, <2>1 DEF Payload, Stopping, Finished
  <2> QED BY <2>2, <2>6, <2>7 DEF IInv
<1>7. CASE ~Filling
  <2>1. idx = SEQ_LEN - 1 /\ pos >= SEQ_LEN - 1
    BY <1>1, <1>7, SizesAssumption DEF IInv, Scanning, Filling, Index
  <2>2. \A j \in Index : buf[j] = stream[(pos + 1) - SEQ_LEN + 1 + j]
    BY <1>1, <1>4, <2>1, SizesAssumption DEF Index
  <2>3. pos + 1 \in SEQ_LEN..Len(stream)
    BY <1>1, <2>1, SizesAssumption
  <2> HIDE DEF buf
  <2>4. Matches(buf, START) <=> StartAt(pos + 1)
    BY <1>1, <2>2, <2>3, WindowMatches, Zenon
  <2>5. NoStartTo(pos)
    BY <1>1 DEF IInv, Scanning
  <2>6. CASE Matches(buf, START)
    <3>1. pc' = "payload" /\ seq_buf' = buf /\ frame' = pos + 1 /\ UNCHANGED idx
      BY <1>7, <2>6 DEF Scan, buf
    <3>2. TypeOK'
      BY <1>1, <1>3, <3>1 DEF IInv, TypeOK
    <3>3. FirstStart(pos + 1)
      BY <1>1, <2>4, <2>5, <2>6 DEF FirstStart, NoStartTo
    <3>4. Payload'
      BY <1>1, <2>6, <3>1, <3>3, SizesAssumption
         DEF Payload, FirstStart, StartAt, Copied, Matches
    <3>5. Scanning' /\ Stopping' /\ Finished'
      BY <1>1, <1>5, <3>1 DEF Scanning, Stopping, Finished
    <3> QED BY <3>2, <3>4, <3>5 DEF IInv
  <2>7. CASE ~Matches(buf, START)
    <3>1. seq_buf' = Shifted(buf) /\ idx' = SEQ_LEN - 1 /\ UNCHANGED <<pc, frame>>
      BY <1>7, <2>7 DEF Scan, buf
    <3>2. Shifted(buf) \in [Index -> Byte]
      BY <1>3, SizesAssumption DEF Shifted, Index
    <3>3. TypeOK'
      BY <1>1, <2>1, <3>1, <3>2 DEF IInv, TypeOK
    <3>4. \A j \in 0..(SEQ_LEN - 2) : Shifted(buf)[j] = buf[j + 1]
      BY SizesAssumption DEF Shifted, Index
    <3>5. \A j \in 0..(SEQ_LEN - 2) :
             Shifted(buf)[j] = stream[(pos + 1) - SEQ_LEN + 1 + (j + 1)]
      BY <2>2, <3>4, SizesAssumption DEF Index
    <3>6. NoStartTo(pos)'
      BY <1>1, <2>4, <2>5, <2>7 DEF NoStartTo, StartAt
    <3>7. Scanning'
      BY <1>1, <2>1, <3>1, <3>5, <3>6, SizesAssumption DEF Scanning
    <3>8. Payload' /\ Stopping' /\ Finished'
      BY <1>1, <1>5, <3>1 DEF Payload, Stopping, Finished
    <3> QED BY <3>3, <3>7, <3>8 DEF IInv
  <2> QED BY <2>6, <2>7
<1> QED BY <1>6, <1>7

\* So does a read that fails.
LEMMA ScanFailsInv == IInv /\ ScanFails => IInv'
<1> SUFFICES ASSUME IInv, ScanFails PROVE IInv'
  OBVIOUS
<1> USE DEF IInv, ScanFails
<1>1. TypeOK'
  BY DEF TypeOK
<1>2. Scanning' /\ Payload' /\ Stopping'
  BY DEF Scanning, Payload, Stopping
<1>3. Finished'
  BY DEF Finished, Scanning, NoStartTo, StartAt, ReadFails
<1> QED BY <1>1, <1>2, <1>3

\* Reading into out_buf puts the next bytes of the stream behind the ones it has.
LEMMA ReadPayloadInv == IInv /\ ReadPayload => IInv'
<1> SUFFICES ASSUME IInv, ReadPayload PROVE IInv'
  OBVIOUS
<1>1. /\ pc = "payload" /\ got \in Nat /\ frame \in Nat /\ arrived \in Nat
      /\ pos = frame + got /\ got < PayloadLen /\ arrived <= Len(stream)
      /\ Len(stream) \in Nat /\ pos \in Nat /\ frame > 0
      /\ FirstStart(frame) /\ Copied(got) /\ Matches(seq_buf, START)
      /\ UNCHANGED <<stream, arrived, closed, seq_buf, idx, ret, frame>>
  BY DEF IInv, TypeOK, Payload, ReadPayload
<1>2. PICK n \in Room(PayloadLen) :
        /\ pos' = pos + n
        /\ out_buf' = [j \in 0..(PayloadLen - 1) |->
                         IF got <= j /\ j < got + n THEN stream[pos + 1 + j - got]
                                                    ELSE out_buf[j]]
        /\ IF got + n >= PayloadLen THEN got' = 0 /\ pc' = "stop"
                                    ELSE got' = got + n /\ pc' = pc
  BY DEF ReadPayload
<1>3. n \in Nat /\ n >= 1 /\ pos + n <= arrived /\ got + n <= PayloadLen
  BY <1>1, <1>2 DEF Room
<1>4. out_buf' \in [0..(PayloadLen - 1) -> Byte]
  <2>1. \A j \in 0..(PayloadLen - 1) : got <= j /\ j < got + n =>
          stream[pos + 1 + j - got] \in Byte
    <3> SUFFICES ASSUME NEW j \in 0..(PayloadLen - 1), got <= j, j < got + n
                 PROVE  stream[pos + 1 + j - got] \in Byte
      OBVIOUS
    <3>1. pos + 1 + j - got \in 1..Len(stream)
      BY <1>1, <1>3, SizesAssumption
    <3> QED BY <3>1, StreamByte DEF IInv
  <2> QED BY <1>2, <2>1 DEF IInv, TypeOK
<1>5. TypeOK'
  <2>1. pos' \in 0..arrived' /\ got' \in Nat /\ pc' \in {"payload", "stop"}
    BY <1>1, <1>2, <1>3
  <2> QED BY <1>1, <1>4, <2>1 DEF IInv, TypeOK
<1>6. \A j \in 0..(got + n - 1) : out_buf'[j] = stream[frame + 1 + j]
  <2> SUFFICES ASSUME NEW j \in 0..(got + n - 1)
               PROVE  out_buf'[j] = stream[frame + 1 + j]
    OBVIOUS
  <2>1. j \in 0..(PayloadLen - 1)
    BY <1>1, <1>3, SizesAssumption
  <2>2. CASE j < got
    BY <1>1, <1>2, <2>1, <2>2 DEF Copied
  <2>3. CASE j >= got
    <3>1. pos + 1 + j - got = frame + 1 + j
      BY <1>1
    <3> QED BY <1>1, <1>2, <1>3, <2>1, <2>3, <3>1
  <2> QED BY <1>1, <2>2, <2>3
<1>7. FirstStart(frame)'
  BY <1>1 DEF FirstStart, StartAt
<1>8. Finished'
  BY <1>1, <1>2 DEF IInv, TypeOK, Finished
<1>9. CASE got + n < PayloadLen
  <2>1. got' = got + n /\ pc' = "payload"
    BY <1>1, <1>2, <1>3, <1>9, SizesAssumption
  <2>2. Payload'
    BY <1>1, <1>2, <1>3, <1>6, <1>7, <1>9, <2>1 DEF Payload, Copied, Matches
  <2>3. Scanning' /\ Stopping'
    BY <2>1 DEF Scanning, Stopping
  <2> QED BY <1>5, <1>8, <2>2, <2>3 DEF IInv
<1>10. CASE got + n = PayloadLen
  <2>1. got' = 0 /\ pc' = "stop"
    BY <1>1, <1>2, <1>3, <1>10, SizesAssumption
  <2>2. Copied(PayloadLen)'
    <3>1. \A j \in 0..(PayloadLen - 1) : out_buf'[j] = stream[frame + 1 + j]
      <4> SUFFICES ASSUME NEW j \in 0..(PayloadLen - 1)
                   PROVE  out_buf'[j] = stream[frame + 1 + j]
        OBVIOUS
      <4>1. j \in 0..(got + n - 1)
        BY <1>1, <1>3, <1>10, SizesAssumption
      <4> QED BY <1>6, <4>1
    <3> QED BY <1>1, <3>1 DEF Copied
  <2>3. Whole'
    BY <1>1, <1>2, <1>3, <1>10, <2>1, <2>2, SizesAssumption
       DEF Whole, Matches, Index
  <2>4. Stopping'
    BY <1>1, <1>7, <2>1, <2>3, SizesAssumption DEF Stopping
  <2>5. Scanning' /\ Payload'
    BY <2>1 DEF Scanning, Payload
  <2> QED BY <1>5, <1>8, <2>4, <2>5 DEF IInv
<1> QED BY <1>1, <1>3, <1>9, <1>10, SizesAssumption

\* A byte of the stop sequence arrives only where the payload came whole.
LEMMA ReadStopInv == IInv /\ ReadStop => IInv'
<1> SUFFICES ASSUME IInv, ReadStop PROVE IInv'
  OBVIOUS
<1>1. PICK n \in Room(SEQ_LEN) :
        /\ pos' = pos + n
        /\ seq_buf' = [j \in Index |->
                         IF got <= j /\ j < got + n THEN stream[pos + 1 + j - got]
                                                    ELSE seq_buf[j]]
        /\ got' = got + n
        /\ pc' = IF got + n >= SEQ_LEN THEN "compare" ELSE pc
  BY DEF ReadStop
<1>2. /\ pc = "stop" /\ got \in Nat /\ frame \in Nat /\ arrived \in Nat
      /\ arrived <= Len(stream) /\ Len(stream) \in Nat /\ pos \in Nat
      /\ frame > 0 /\ FirstStart(frame)
      /\ UNCHANGED <<stream, arrived, closed, idx, out_buf, ret, frame>>
  BY DEF IInv, TypeOK, Stopping, ReadStop
<1>3. n \in Nat /\ n >= 1 /\ pos + n <= arrived /\ got + n <= SEQ_LEN
  BY <1>1, <1>2 DEF Room
<1>4. Whole /\ got < SEQ_LEN
  BY <1>2, <1>3 DEF IInv, Stopping, Cut
<1>5. seq_buf' \in [Index -> Byte]
  <2>1. \A j \in Index : got <= j /\ j < got + n =>
          stream[pos + 1 + j - got] \in Byte
    <3> SUFFICES ASSUME NEW j \in Index, got <= j, j < got + n
                 PROVE  stream[pos + 1 + j - got] \in Byte
      OBVIOUS
    <3>1. pos + 1 + j - got \in 1..Len(stream)
      BY <1>2, <1>3, SizesAssumption DEF Index
    <3> QED BY <3>1, StreamByte DEF IInv
  <2> QED BY <1>1, <2>1 DEF IInv, TypeOK
<1>6. TypeOK'
  <2>1. pos' \in 0..arrived' /\ got' \in Nat /\ pc' \in {"stop", "compare"}
    BY <1>1, <1>2, <1>3
  <2> QED BY <1>2, <1>5, <2>1 DEF IInv, TypeOK
<1>7. \A j \in Index :
        seq_buf'[j] = IF j < got + n THEN stream[frame + PayloadLen + 1 + j]
                                     ELSE START
  <2> SUFFICES ASSUME NEW j \in Index
               PROVE  seq_buf'[j] = IF j < got + n
                                    THEN stream[frame + PayloadLen + 1 + j]
                                    ELSE START
    OBVIOUS
  <2>1. j \in Nat
    BY SizesAssumption DEF Index
  <2>2. CASE got <= j /\ j < got + n
    <3>1. pos + 1 + j - got = frame + PayloadLen + 1 + j
      BY <1>2, <1>4, <2>1, SizesAssumption DEF Whole
    <3> QED BY <1>1, <2>2, <3>1
  <2>3. CASE ~(got <= j /\ j < got + n)
    <3>1. seq_buf'[j] = seq_buf[j]
      BY <1>1, <2>3
    <3>2. j < got <=> j < got + n
      BY <1>2, <1>3, <2>1, <2>3
    <3> QED BY <1>4, <3>1, <3>2 DEF Whole
  <2> QED BY <2>2, <2>3
<1>8. Whole'
  <2>1. pos' = frame' + PayloadLen + got' /\ got' <= SEQ_LEN
    BY <1>1, <1>2, <1>3, <1>4, SizesAssumption DEF Whole
  <2>2. Copied(PayloadLen)'
    BY <1>2, <1>4 DEF Whole, Copied
  <2> QED BY <1>1, <1>2, <1>7, <2>1, <2>2 DEF Whole
<1>9. FirstStart(frame)'
  BY <1>2 DEF FirstStart, StartAt
<1>10. Stopping'
  BY <1>1, <1>2, <1>3, <1>8, <1>9, SizesAssumption DEF Stopping
<1>11. Scanning' /\ Payload' /\ Finished'
  BY <1>1, <1>2 DEF IInv, TypeOK, Scanning, Payload, Finished
<1> QED BY <1>6, <1>10, <1>11 DEF IInv

\* When the connection ends, the stop sequence cannot be complete.
LEMMA ReadExactFailsInv == IInv /\ ReadExactFails => IInv'
<1> SUFFICES ASSUME IInv, ReadExactFails PROVE IInv'
  OBVIOUS
<1>1. /\ pc \in {"payload", "stop"} /\ closed /\ pos = arrived
      /\ pc' = (IF pc = "payload" THEN "stop" ELSE "compare") /\ got' = 0
      /\ UNCHANGED <<stream, arrived, closed, pos, seq_buf, idx, out_buf, ret, frame>>
      /\ pos \in Nat /\ frame \in Nat /\ got \in Nat
  BY DEF IInv, TypeOK, ReadExactFails, ReadFails
<1>2. TypeOK'
  BY <1>1 DEF IInv, TypeOK
<1>3. Scanning' /\ Payload' /\ Finished'
  BY <1>1 DEF IInv, Scanning, Payload, Finished, TypeOK
<1>4. frame > 0 /\ FirstStart(frame)
  BY <1>1 DEF IInv, Payload, Stopping
<1>5. (frame > 0 /\ FirstStart(frame))'
  BY <1>1, <1>4 DEF FirstStart, StartAt
<1>6. CASE pc = "payload"
  <2>1. pos < frame + PayloadLen /\ Matches(seq_buf, START)
    BY <1>1, <1>6, SizesAssumption DEF IInv, Payload
  <2>2. 0 \in Index
    BY SizesAssumption DEF Index
  <2>3. Cut(PayloadLen)'
    BY <1>1, <2>1, <2>2 DEF Cut, Matches
  <2> QED BY <1>1, <1>2, <1>3, <1>5, <1>6, <2>3 DEF IInv, Stopping
<1>7. CASE pc = "stop"
  <2>1. Cut(PayloadLen + SEQ_LEN)
    <3>1. CASE Whole /\ got < SEQ_LEN
      <4>1. got \in Index /\ seq_buf[got] = START
        BY <1>1, <3>1, SizesAssumption DEF Whole, Index
      <4> QED BY <1>1, <3>1, <4>1, SizesAssumption DEF Cut, Whole
    <3>2. CASE Cut(PayloadLen) /\ got = 0
      BY <1>1, <3>2, SizesAssumption DEF Cut
    <3> QED BY <1>7, <3>1, <3>2 DEF IInv, Stopping
  <2>2. Cut(PayloadLen + SEQ_LEN)'
    BY <1>1, <2>1 DEF Cut
  <2> QED BY <1>1, <1>2, <1>3, <1>5, <1>7, <2>2 DEF IInv, Stopping
<1> QED BY <1>1, <1>6, <1>7

\* So does the comparison of the window with the start sequence.
LEMMA CompareInv == IInv /\ Compare => IInv'
<1> SUFFICES ASSUME IInv, Compare PROVE IInv'
  OBVIOUS
<1>1. /\ pc = "compare" /\ pc' = "done"
      /\ ret' = (IF Matches(seq_buf, STOP) THEN 0 ELSE 1)
      /\ UNCHANGED <<stream, arrived, closed, pos, seq_buf, idx, got, out_buf, frame>>
      /\ frame > 0 /\ FirstStart(frame) /\ frame \in Nat /\ pos \in Nat
      /\ arrived \in Nat
      /\ (Whole /\ got = SEQ_LEN) \/ Cut(PayloadLen + SEQ_LEN)
  BY DEF IInv, TypeOK, Stopping, Compare
<1>2. TypeOK'
  BY <1>1 DEF IInv, TypeOK
<1>3. Scanning' /\ Payload' /\ Stopping'
  BY <1>1 DEF Scanning, Payload, Stopping
<1>4. FirstStart(frame)'
  BY <1>1 DEF FirstStart, StartAt
<1>5. CASE Whole /\ got = SEQ_LEN
  <2>1. pos = frame + PayloadLen + SEQ_LEN /\ Copied(PayloadLen)
    BY <1>5 DEF Whole
  <2>2. \A j \in Index : seq_buf[j] = stream[frame + PayloadLen + 1 + j]
    BY <1>5, SizesAssumption DEF Whole, Index
  <2>3. Copied(PayloadLen)'
    BY <1>1, <2>1 DEF Copied
  <2>4. CASE Matches(seq_buf, STOP)
    <3>1. ASSUME NEW j \in 1..SEQ_LEN PROVE stream[frame + PayloadLen + j] = STOP
      <4> DEFINE i == j - 1
      <4>1. i \in Index /\ frame + PayloadLen + 1 + i = frame + PayloadLen + j
        BY <1>1, SizesAssumption DEF Index
      <4> HIDE DEF i
      <4>2. seq_buf[i] = STOP
        BY <2>4, <4>1 DEF Matches
      <4> QED BY <2>2, <4>1, <4>2
    <3>2. \A j \in 1..SEQ_LEN : stream'[frame' + PayloadLen + j] = STOP
      BY <1>1, <3>1
    <3>3. ret' = 0 /\ pos' = frame' + PayloadLen + SEQ_LEN
      BY <1>1, <2>1, <2>4
    <3>4. Finished'
      BY <1>1, <1>4, <2>3, <3>2, <3>3 DEF Finished
    <3> QED BY <1>2, <1>3, <3>4 DEF IInv
  <2>5. CASE ~Matches(seq_buf, STOP)
    <3>1. PICK i \in Index : seq_buf[i] # STOP
      BY <2>5 DEF Matches
    <3>2. i + 1 \in 1..SEQ_LEN
          /\ frame + PayloadLen + (i + 1) = frame + PayloadLen + 1 + i
      BY <1>1, SizesAssumption DEF Index
    <3>3. stream[frame + PayloadLen + (i + 1)] # STOP
      BY <2>2, <3>1, <3>2
    <3>4. \E j \in 1..SEQ_LEN : stream'[frame' + PayloadLen + j] # STOP
      BY <1>1, <3>2, <3>3
    <3>5. ret' = 1
      BY <1>1, <2>5
    <3>6. Finished'
      BY <1>1, <1>4, <3>4, <3>5 DEF Finished
    <3> QED BY <1>2, <1>3, <3>6 DEF IInv
  <2> QED BY <2>4, <2>5
<1>6. CASE Cut(PayloadLen + SEQ_LEN)
  <2>1. ret' = 1
    BY <1>1, <1>6, Distinct DEF Cut, Matches
  <2>2. closed' /\ arrived' < frame' + PayloadLen + SEQ_LEN
    BY <1>1, <1>6, SizesAssumption DEF Cut
  <2>3. Finished'
    BY <1>1, <1>4, <2>1, <2>2 DEF Finished
  <2> QED BY <1>2, <1>3, <2>3 DEF IInv
<1> QED BY <1>1, <1>5, <1>6

(***************************************************************************)
(* The theorems.                                                           *)
(***************************************************************************)

\* The inductive invariant holds in every state of recStream and of the
\* connection under it, TypeOK with it.
THEOREM Invariant == Spec => []IInv
<1>1. IInv /\ [Next]_vars => IInv'
  <2> SUFFICES ASSUME IInv, [Next]_vars PROVE IInv'
    OBVIOUS
  <2>1. CASE UNCHANGED vars
    BY <2>1 DEF vars, IInv, TypeOK, Scanning, Payload, Stopping, Finished, NoStartTo,
                FirstStart, StartAt, Copied, Whole, Cut, Matches
  <2>2. CASE Next
    BY <2>1, <2>2, ArriveInv, CloseInv, ScanInv, ScanFailsInv, ReadPayloadInv,
       ReadStopInv, ReadExactFailsInv, CompareInv DEF Next, RecStream, Returned
  <2> QED BY <2>1, <2>2
<1> QED BY <1>1, InitInv, PTL DEF Spec

\* Every variable of recStream keeps its type: no index leaves its buffer, and
\* no byte is read that has not arrived.
THEOREM TypeCorrect == Spec => []TypeOK
<1>1. IInv => TypeOK
  BY DEF IInv
<1> QED BY <1>1, Invariant, PTL

\* recStream returns 0 exactly for a stream whose first start sequence opens a
\* whole frame, and then with its payload in out_buf.
THEOREM VerdictCorrect == Spec => []FrameVerdict
<1>1. IInv => FrameVerdict
  <2> SUFFICES ASSUME IInv, pc = "done" PROVE FrameVerdict
    BY DEF FrameVerdict
  <2>1. /\ ret \in {0, 1} /\ Len(stream) \in Nat /\ SEQ_LEN \in Nat \ {0}
        /\ PayloadLen \in Nat \ {0} /\ pos <= arrived /\ arrived <= Len(stream)
        /\ arrived \in Nat /\ frame \in Nat /\ pos \in Nat
    BY SizesAssumption DEF IInv, TypeOK, Finished
  <2>2. CASE ret = 0
    <3>1. FirstStart(frame) /\ Copied(PayloadLen) /\ frame \in 1..Len(stream)
      BY <2>1, <2>2 DEF IInv, Finished, FirstStart, StartAt
    <3>2. FrameAt(frame)
      BY <2>1, <2>2, <3>1 DEF IInv, Finished, FrameAt
    <3>3. \A k \in 1..Len(stream) : FrameAt(k) => k = frame
      BY <2>1, <3>1, FirstStartUnique DEF FrameAt
    <3>4. \A k \in 1..Len(stream) : FrameAt(k) =>
            \A j \in 0..(PayloadLen - 1) : out_buf[j] = stream[k + 1 + j]
      BY <3>1, <3>3 DEF Copied
    <3> QED BY <2>2, <3>1, <3>2, <3>4 DEF FrameVerdict
  <2>3. CASE ret = 1
    <3> SUFFICES ASSUME NEW k \in 1..Len(stream), FrameAt(k) PROVE FALSE
      BY <2>3 DEF FrameVerdict
    <3>1. FirstStart(k) /\ StartAt(k) /\ k + PayloadLen + SEQ_LEN <= arrived
      BY DEF FrameAt, FirstStart
    <3>2. CASE closed /\ pos = arrived /\ NoStartTo(pos)
      <4>1. k \in 1..pos
        BY <2>1, <3>1, <3>2
      <4> QED BY <3>1, <3>2, <4>1 DEF NoStartTo
    <3>3. CASE FirstStart(frame)
      <4>1. k = frame
        BY <2>1, <3>1, <3>3, FirstStartUnique
      <4>2. \A j \in 1..SEQ_LEN : stream[frame + PayloadLen + j] = STOP
        BY <4>1 DEF FrameAt
      <4>3. ~(arrived < frame + PayloadLen + SEQ_LEN)
        BY <2>1, <3>1, <4>1
      <4>4. CASE NoStartTo(pos) /\ pos = arrived
        <5>1. k \in 1..pos
          BY <2>1, <3>1, <4>4
        <5> QED BY <3>1, <4>4, <5>1 DEF NoStartTo
      <4> QED BY <2>3, <4>2, <4>3, <4>4 DEF IInv, Finished
    <3> QED BY <2>3, <3>2, <3>3 DEF IInv, Finished
  <2> QED BY <2>1, <2>2, <2>3
<1> QED BY <1>1, Invariant, PTL

\* Having returned 0, recStream has read its frame and not a byte more.
THEOREM NothingBeyond == Spec => []ReadsNoFurther
<1>1. IInv => ReadsNoFurther
  BY DEF IInv, Finished, ReadsNoFurther
<1> QED BY <1>1, Invariant, PTL
=============================================================================
