--------------------------- MODULE ChallengeProto ---------------------------
(***************************************************************************)
(* The exchange of challenge.c over one TLS connection: the server sends   *)
(* the challenge of every function, the client receives them, has the PUF  *)
(* compute, and sends the responses back (main.c).  A function is an       *)
(* identifier and its data portions; each of these travels in a frame of   *)
(* its own and waits for an acknowledgement.                               *)
(*                                                                         *)
(* The connection carries units: a start or a stop sequence, four bytes of *)
(* payload, or an ACK.  (FrameRx has recStream byte by byte.)  Lengths are *)
(* in units; an identifier is one.  The one-second sleeps are left out:    *)
(* they delay a step and order nothing.                                    *)
(*                                                                         *)
(* The server's program is external: it uses the same challenge.c and      *)
(* gives up when a call fails.                                             *)
(***************************************************************************)
EXTENDS Integers, Sequences, FiniteSets, FiniteSetsExt

CONSTANTS
  Pattern,    \* Pattern[f][p]: length of portion p of function f
  MallocFails,  \* may an allocation fail?
  LinkFails     \* may the connection break?

Functions == 1..Len(Pattern)
Portions == 1..4       \* DATA_PORTIONS
PortionsOf(f) == Portions \cap 1..Len(Pattern[f])

\* An identifier and a portion never have the same length (ID_LEN, LEN32).
ASSUME PatternAssumption ==
  /\ Pattern \in Seq(Seq(Nat \ {0, 1})) /\ Pattern # <<>>
  /\ \A f \in Functions : Len(Pattern[f]) \in Portions

Side == {"client", "server"}
Peer(s) == IF s = "client" THEN "server" ELSE "client"

\* Units: <<what, function, portion, which of its units>>.  No unit of a payload is the
\* start or the stop sequence.
S == <<"START_SEQ", 0, 0, 0>>
E == <<"STOP_SEQ", 0, 0, 0>>
ACK == <<"ACK", 0, 0, 0>>
Id(f) == <<"id", f, 0, 1>>
Units(what, f, p) == [k \in 1..Pattern[f][p] |-> <<what, f, p, k>>]
Challenge(f, p) == Units("challenge", f, p)
Response(f, p) == Units("response", f, p)
Zeros_first(f, p) == [k \in 1..Pattern[f][1] |-> <<"zero", 0, 0, 0>>]
Zeros(f, p) == [k \in 1..Pattern[f][p] |-> <<"zero", 0, 0, 0>>]
NULL == <<>>
Unit == {"START_SEQ", "STOP_SEQ", "ACK", "id", "challenge", "response", "zero"}
          \X (0..Len(Pattern)) \X (0..4) \X Nat

VARIABLES
  at,        \* at[s]: the call s is in, the portion of it, and where there
  buffer,    \* buffer[s]: what recStream has stored so far
  func,      \* func[s][f]: func_call_t.func
  data,      \* data[s][f][p]: func_call_t.data_p[p].data, of what s receives
  chan,      \* chan[s]: what was written for s and not read by it
  cut,       \* the connection is broken
  ok,        \* ok[s]: no call of s has failed
  accepted,  \* history: what recStream returned 0 for, in order
  acked      \* history: what waitForAck returned 0 for

vars == <<at, buffer, func, data, chan, cut, ok, accepted, acked>>
heap == <<func, data>>
history == <<accepted, acked>>

(***************************************************************************)
(* The programs: a sequence of calls for each side.                        *)
(***************************************************************************)
N == Len(Pattern)
Calls(s) ==
  LET Each(name) == [f \in Functions |-> <<name, f>>]
  IN  IF s = "client" THEN Each("rec") \o <<<<"puf", 0>>>> \o Each("send")
                      ELSE Each("send") \o Each("rec")

Place == [call : 1..(2 * N + 2), part : 0..4,
          pc : {"initFunc", "wStart", "wData", "wStop", "wAck", "rStart", "rData",
                "rStop", "sAck", "copy", "puf", "fault", "done"}]

\* Where a call begins; the client allocates just before it receives.
Entry(s, c) ==
  [call |-> c, part |-> 0,
   pc |-> IF c > Len(Calls(s)) THEN "done"
          ELSE CASE Calls(s)[c][1] = "puf" -> "puf"
                 [] Calls(s)[c][1] = "send" -> "wStart"
                 [] Calls(s)[c][1] = "rec" ->
                      IF s = "client" THEN "initFunc" ELSE "rStart"]

Fn(s) == Calls(s)[at[s].call][2]
Go(s, pc) == at' = [at EXCEPT ![s].pc = pc]
NextCall(s) == at' = [at EXCEPT ![s] = Entry(s, at[s].call + 1)]

\* The loops over data_p skip the portions that have no buffer.
Buffered(s) == {p \in PortionsOf(Fn(s)) : data[s][Fn(s)][p] # NULL}
Later_again(s) == {p \in Buffered(s) : p >= at[s].part}
Later(s) == {p \in Buffered(s) : p > at[s].part}
NextPart(s, pc) ==
  IF Later(s) = {} THEN NextCall(s)
  ELSE at' = [at EXCEPT ![s].part = Min(Later(s)), ![s].pc = pc]

\* A call of s returns 1: main.c logs a failed recChallenge and goes on, a failed
\* sendResponse ends the session; the server gives up.
Fails(s) ==
  /\ ok' = [ok EXCEPT ![s] = FALSE]
  /\ IF s = "client" /\ Calls(s)[at[s].call][1] = "rec" THEN NextCall(s)
                                                         ELSE Go(s, "done")

Init ==
  /\ at = [s \in Side |-> Entry(s, 1)]
  /\ buffer = [s \in Side |-> <<>>]
  /\ func = [s \in Side |-> [f \in Functions |-> Id(f)]]
  /\ data = [s \in Side |-> [f \in Functions |-> [p \in PortionsOf(f) |->
               IF s = "client" THEN NULL ELSE Zeros(f, p)]]]
  /\ chan = [s \in Side |-> <<>>]
  /\ cut = FALSE
  /\ ok = [s \in Side |-> TRUE]
  /\ accepted = <<>> /\ acked = <<>>

(***************************************************************************)
(* The connection.                                                         *)
(***************************************************************************)

\* What is in flight is lost from some point on.
Cut ==
  /\ LinkFails /\ ~cut
  /\ cut' = TRUE
  /\ \E c \in 0..Len(chan["client"]), v \in 0..Len(chan["server"]) :
       chan' = [s \in Side |-> SubSeq(chan[s], 1, IF s = "client" THEN c ELSE v)]
  /\ UNCHANGED <<at, buffer, heap, ok, history>>

\* The connection s writes to and reads from is not at its end.
Up(s) == ~cut /\ at[Peer(s)].pc # "done"

\* A write on a lost connection fails, or succeeds and reaches nobody.
Write_twice(s, units) ==
  chan' = IF Up(s) THEN [chan EXCEPT ![Peer(s)] = @ \o units \o units] ELSE chan
Write(s, units) ==
  chan' = IF Up(s) THEN [chan EXCEPT ![Peer(s)] = @ \o units] ELSE chan
WriteFails(s) ==
  /\ at[s].pc \in {"wStart", "wData", "wStop", "sAck"} /\ ~Up(s)
  /\ Fails(s)
  /\ UNCHANGED <<buffer, heap, chan, cut, history>>

Arrived(s) == chan[s] # <<>>
Waiting(s) == at[s].pc \in {"wAck", "rStart", "rData", "rStop"} /\ ~Arrived(s)
Take(s) == chan' = [chan EXCEPT ![s] = Tail(@)]
\* The end of the connection taken for WANT_READ.
ReadFails_retries(s) == Waiting(s) /\ ~Up(s) /\ UNCHANGED vars
\* The read is told of the end of the connection.  Of the peer's close it always is;
\* of a break it may be late or never (BreakReported), and it has no time limit.
ReadFails(s) ==
  /\ at[s].pc \in {"wAck", "rStart", "rData", "rStop"} /\ ~Arrived(s) /\ ~Up(s)
  /\ Fails(s)
  /\ UNCHANGED <<buffer, heap, chan, cut, history>>

(***************************************************************************)
(* sendChallenge, sendResponse.                                            *)
(***************************************************************************)
Outgoing_first(s) ==
  IF at[s].part = 0 THEN <<func[s][Fn(s)]>>
  ELSE IF s = "server" THEN Challenge(Fn(s), 1) ELSE data[s][Fn(s)][1]
Outgoing(s) ==
  IF at[s].part = 0 THEN <<func[s][Fn(s)]>>
  ELSE IF s = "server" THEN Challenge(Fn(s), at[s].part)
                       ELSE data[s][Fn(s)][at[s].part]

sendFramedStream(s) ==
  /\ \/ at[s].pc = "wStart" /\ Write(s, <<S>>) /\ Go(s, "wData")
     \/ at[s].pc = "wData" /\ Write(s, Outgoing(s)) /\ Go(s, "wStop")
     \/ at[s].pc = "wStop" /\ Write(s, <<E>>) /\ Go(s, "wAck")
  /\ UNCHANGED <<buffer, heap, cut, ok, history>>

IsAck_any(unit) == TRUE
IsAck(unit) == unit = ACK

waitForAck(s) ==
  /\ at[s].pc = "wAck" /\ Arrived(s)
  /\ Take(s)
  /\ IF IsAck(Head(chan[s]))
     THEN /\ acked' = Append(acked, <<Peer(s), Fn(s), at[s].part>>)
          /\ NextPart(s, "wStart") /\ UNCHANGED ok
     ELSE Fails(s) /\ UNCHANGED acked
  /\ UNCHANGED <<buffer, heap, cut, accepted>>

(***************************************************************************)
(* recChallenge, recResponse.                                              *)
(***************************************************************************)

\* initFunc: every buffer, or after a failed malloc none; main.c goes on.
initFunc ==
  /\ at["client"].pc = "initFunc"
  /\ LET f == Fn("client")
     IN  \E new \in {[p \in PortionsOf(f) |-> Zeros(f, p)]}
                    \cup (IF MallocFails THEN {[p \in PortionsOf(f) |-> NULL]}
                                         ELSE {}) :
           data' = [data EXCEPT !["client"][f] = new]
  /\ Go("client", "rStart")
  /\ UNCHANGED <<buffer, func, chan, cut, ok, history>>

\* The length recStream is asked for.
Wanted_word(s) == IF at[s].part = 0 THEN 2 ELSE Pattern[Fn(s)][at[s].part]
Wanted(s) == IF at[s].part = 0 THEN 1 ELSE Pattern[Fn(s)][at[s].part]

recStream(s) ==
  /\ Arrived(s) /\ Take(s)
  /\ LET unit == Head(chan[s])
     IN  \/ /\ at[s].pc = "rStart"
            /\ buffer' = [buffer EXCEPT ![s] = <<>>]
            /\ Go(s, IF unit = S THEN "rData" ELSE "rStart")
            /\ UNCHANGED <<ok, accepted>>
         \/ /\ at[s].pc = "rData"
            /\ buffer' = [buffer EXCEPT ![s] = Append(@, unit)]
            /\ Go(s, IF Len(buffer'[s]) = Wanted(s) THEN "rStop" ELSE "rData")
            /\ UNCHANGED <<ok, accepted>>
         \/ /\ at[s].pc = "rStop" /\ unit = E
            /\ accepted' = Append(accepted, <<s, Fn(s), at[s].part, buffer[s]>>)
            /\ Go(s, "sAck")
            /\ UNCHANGED <<buffer, ok>>
         \/ /\ at[s].pc = "rStop" /\ unit # E
            /\ Fails(s)
            /\ UNCHANGED <<buffer, accepted>>
  /\ UNCHANGED <<heap, cut, acked>>

\* The acknowledgement goes out before the portion is copied.
sendAck(s) ==
  /\ at[s].pc = "sAck"
  /\ Write(s, <<ACK>>)
  /\ Go(s, "copy")
  /\ UNCHANGED <<buffer, heap, cut, ok, history>>

Copy(s) ==
  /\ at[s].pc = "copy"
  /\ IF at[s].part = 0
     THEN func' = [func EXCEPT ![s][Fn(s)] = buffer[s][1]] /\ UNCHANGED data
     ELSE data' = [data EXCEPT ![s][Fn(s)][at[s].part] = buffer[s]] /\ UNCHANGED func
  /\ NextPart(s, "rStart")
  /\ UNCHANGED <<buffer, chan, cut, ok, history>>

(***************************************************************************)
(* challenge_puf (PufIpc), whose result main.c does not look at: the       *)
(* functions up to some n were answered.  Copying to or from a buffer that *)
(* was not allocated faults, or does nothing that is seen here.            *)
(***************************************************************************)
Answered(n) ==
  [f \in Functions |-> [p \in PortionsOf(f) |->
     IF f <= n /\ data["client"][f][p] # NULL THEN Response(f, p)
                                              ELSE data["client"][f][p]]]
Unallocated == \E f \in Functions : \E p \in PortionsOf(f) : data["client"][f][p] = NULL

challenge_puf ==
  /\ at["client"].pc = "puf"
  /\ \E n \in 0..N :
       \/ NextCall("client") /\ data' = [data EXCEPT !["client"] = Answered(n)]
       \/ Unallocated /\ Go("client", "fault") /\ UNCHANGED data
  /\ UNCHANGED <<buffer, func, chan, cut, ok, history>>

Step(s) ==
  \/ sendFramedStream(s) \/ waitForAck(s)
  \/ recStream(s) \/ sendAck(s) \/ Copy(s)
  \/ WriteFails(s) \/ ReadFails(s)
  \/ s = "client" /\ (initFunc \/ challenge_puf)

\* Nothing is left to run.
Ended(s) == at[s].pc = "done" \/ at[s].pc = "fault"
Quiet == (\A s \in Side : Ended(s)) /\ UNCHANGED vars

Next == Cut \/ (\E s \in Side : Step(s)) \/ Quiet

Spec == Init /\ [][Next]_vars

\* Nothing but the report of a break gets s out of its read.
Cutoff(s) == cut /\ Waiting(s)
FairSpec == Spec /\ \A s \in Side : WF_vars(Step(s) /\ ~Cutoff(s))
\* Not part of FairSpec: no receive timeout is set and no keepalive.
BreakReported == \A s \in Side : WF_vars(Step(s) /\ Cutoff(s))

(***************************************************************************)
(* Correctness.                                                            *)
(***************************************************************************)

\* Every variable keeps its type.
TypeOK ==
  /\ at \in [Side -> Place]
  /\ buffer \in [Side -> Seq(Unit)] /\ chan \in [Side -> Seq(Unit)]
  /\ func \in [Side -> [Functions -> {Id(f) : f \in Functions}]]
  /\ data \in [Side -> [Functions -> Seq(Seq(Unit))]]
  /\ \A s \in Side : \A f \in Functions :
       /\ DOMAIN data[s][f] = PortionsOf(f)
       /\ \A p \in PortionsOf(f) : Len(data[s][f][p]) \in {0, Pattern[f][p]}
  /\ cut \in BOOLEAN /\ ok \in [Side -> BOOLEAN]

\* A buffer is never filled with parts of something else: what the client holds is
\* nothing, the challenge for this portion or the response to it, and what the
\* server holds is nothing or what the client holds, although a receiver that
\* skipped a portion reads the frames of one call in another.
Integrity ==
  \A f \in Functions :
    /\ \A s \in Side : func[s][f] = Id(f)
    /\ \A p \in PortionsOf(f) :
         /\ data["client"][f][p] \in {NULL, Zeros(f, p), Challenge(f, p), Response(f, p)}
         /\ data["server"][f][p] \in {Zeros(f, p), data["client"][f][p]}

\* An acknowledgement stands for the very portion it follows: what a sender was
\* acknowledged its receiver has taken, in the same order, and no sender is more
\* than one portion ahead or behind.
AckedIsAccepted ==
  /\ Len(accepted) - Len(acked) \in {0, 1}
  /\ \A k \in 1..Len(acked) : acked[k] = SubSeq(accepted[k], 1, 3)

\* The client asked for a function's memory and did not get it.
Unlucky(f) ==
  /\ \E p \in PortionsOf(f) : data["client"][f][p] = NULL
  /\ at["client"].call > f \/ (at["client"].call = f /\ at["client"].pc # "initFunc")

\* While every allocation succeeds, the two sides stay in step: never is there
\* something to read on both, and at most one frame is on its way.
InStep ==
  (\A f \in Functions : ~Unlucky(f)) =>
    /\ ~(Arrived("client") /\ Arrived("server"))
    /\ \A s \in Side : Cardinality({k \in 1..Len(chan[s]) : chan[s][k] = S}) <= 1

\* Neither call that reads has a time limit, yet both sides wait for each other on a
\* sound connection only after a lost allocation: the client then takes the frame of
\* a portion for the next identifier and drops it without an acknowledgement.
MutualWaitNeedsLoss ==
  (~cut /\ \A s \in Side : Waiting(s)) => \E f \in Functions : Unlucky(f)

\* What recStream accepts follows the agreed order (init, commitment, proofs;
\* identifier first, then the portions; challenges to the client, then responses
\* to the server) and is what was sent, even after a lost allocation, a failed PUF
\* call or a broken connection.
After(item) ==
  LET s == item[1]  f == item[2]  p == item[3]
  IN  IF p < Len(Pattern[f]) THEN {<<s, f, p + 1>>}
      ELSE IF f < N THEN {<<s, f + 1, 0>>}
      ELSE IF s = "client" THEN {<<"server", 1, 0>>}
      ELSE {}
Contents(t) ==
  IF t[3] = 0 THEN {<<Id(t[2])>>}
  ELSE {Challenge(t[2], t[3])}
       \cup (IF t[1] = "server" THEN {Response(t[2], t[3])} ELSE {})
ProtoOffers(log) ==
  LET turns == IF log = <<>> THEN {<<"client", 1, 0>>} ELSE After(log[Len(log)])
  IN  UNION {{Append(t, c) : c \in Contents(t)} : t \in turns}
Abstract == INSTANCE Handover WITH Offers <- ProtoOffers, log <- accepted
HandoverSpec == Abstract!Spec

\* With memory and a connection, both sides get through all of their calls, even
\* when the PUF answers some or none of them.
Completion ==
  <>(\/ cut \/ \E f \in Functions : Unlucky(f)
     \/ \A s \in Side : at[s].pc = "done" /\ ok[s])

\* A broken connection leaves neither side anywhere but at its end or in a read that
\* nobody tells of the break, and ends the exchange on both sides if the breaks are
\* reported to the reads that wait.
LinkLossEnds ==
  /\ cut ~> \A s \in Side : Ended(s) \/ Waiting(s)
  /\ BreakReported => (cut ~> \A s \in Side : Ended(s))
=============================================================================
