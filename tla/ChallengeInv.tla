---------------------------- MODULE ChallengeInv ----------------------------
(***************************************************************************)
(* The inductive invariant behind the safety properties of ChallengeProto. *)
(* Of the two sides one sends and one receives; an item is an identifier   *)
(* or a portion.  As long as the sides agree on the item (InSync), one of  *)
(* nine arrangements holds, told apart by which side has gone on to the    *)
(* next item first.  Once the client has lost its place - it gave up an    *)
(* item on a broken connection (Derailed), or it has no memory for the     *)
(* portions the server is about to send (Lost) - nothing is accepted any   *)
(* more.                                                                   *)
(***************************************************************************)
EXTENDS ChallengeProto

Last(f) == Len(Pattern[f])
Writing == {"wStart", "wData", "wStop", "wAck"}
Reading == {"rStart", "rData", "rStop"}

\* The calls of each side: see Calls.
Sends(s) == at[s].call \in (IF s = "server" THEN 1..N ELSE N + 2..2 * N + 1)
Receives(s) == at[s].call \in (IF s = "client" THEN 1..N ELSE N + 1..2 * N)
Finished(s) == at[s].call = (IF s = "server" THEN 2 * N + 1 ELSE 2 * N + 2)

\* Where a side can be in each of its calls.
PlacedAt(s) ==
  /\ s = "server" => at[s].call <= 2 * N + 1
  /\ Sends(s) => at[s].pc \in Writing \cup {"done"}
  /\ Receives(s) => at[s].pc \in Reading \cup {"sAck", "copy"} \cup
                       (IF s = "client" THEN {"initFunc"} ELSE {"done"})
  /\ Finished(s) => at[s].pc = "done"
  /\ s = "client" /\ at[s].call = N + 1 => at[s].pc \in {"puf", "fault"}
  /\ Sends(s) \/ Receives(s) => at[s].part <= Last(Fn(s))
  /\ ~(Sends(s) \/ Receives(s)) \/ at[s].pc = "initFunc" => at[s].part = 0
Placed == \A s \in Side : PlacedAt(s)

\* What x sends as portion p of function f; p = 0 is the identifier.
Load(x, f, p) ==
  IF p = 0 THEN <<Id(f)>>
  ELSE IF x = "server" THEN Challenge(f, p) ELSE data["client"][f][p]
Incoming(r) == Load(Peer(r), Fn(r), at[r].part)

\* recStream counts to the length it is asked for, and what it hands over is the item.
FilledAt(s) ==
  /\ at[s].pc = "rData" => Len(buffer[s]) < Wanted(s)
  /\ at[s].pc = "rStop" => Len(buffer[s]) = Wanted(s)
  /\ at[s].pc \in {"sAck", "copy"} => buffer[s] = Incoming(s)
Filled == \A s \in Side : FilledAt(s)

\* The server takes a response only from a client that is past the PUF.
Turned ==
  at["server"].pc \in {"rData", "rStop", "sAck", "copy"} => at["client"].call > N + 1

\* The client has memory for all portions of a function or for none; the server
\* always has, and stores nothing before the client has sent a response.
Memory ==
  \A f \in Functions :
    /\ \/ \A p \in PortionsOf(f) : data["client"][f][p] = NULL
       \/ \A p \in PortionsOf(f) : data["client"][f][p] # NULL
    /\ \A p \in PortionsOf(f) :
         /\ data["server"][f][p] # NULL
         /\ at["client"].call <= N + 1 => data["server"][f][p] = Zeros(f, p)

(***************************************************************************)
(* What is on its way.                                                     *)
(***************************************************************************)
Frame(x, f, p) == <<S>> \o Load(x, f, p) \o <<E>>

\* How much of the frame x has written, and how much of it r has read.
Written(x) ==
  CASE at[x].pc = "wStart" -> 0
    [] at[x].pc = "wData"  -> 1
    [] at[x].pc = "wStop"  -> 1 + Wanted(x)
    [] OTHER               -> 2 + Wanted(x)
Read(r) ==
  CASE at[r].pc = "rData" -> 1 + Len(buffer[r])
    [] at[r].pc = "rStop" -> 1 + Wanted(r)
    [] OTHER              -> 0

\* queue holds the frame from unit from + 1 to unit to, or less unless whole.
Along(queue, frame, from, to, whole) ==
  /\ to <= Len(frame)
  /\ from + Len(queue) <= to
  /\ whole => from + Len(queue) = to
  /\ \A k \in 1..Len(queue) : queue[k] = frame[from + k]
Piece(x, queue, from) ==
  Along(queue, Frame(x, Fn(x), at[x].part), from, Written(x), ~cut)

\* The acknowledgement for x, unless the cut took it.
AckPending(x) == chan[x] = <<ACK>> \/ (cut /\ chan[x] = <<>>)

\* The last item accepted is the one r receives, at the place t.
LastIs(r, f, p) ==
  /\ accepted # <<>>
  /\ SubSeq(accepted[Len(accepted)], 1, 3) = <<r, f, p>>
Level == Len(accepted) = Len(acked)
OneAhead == Len(accepted) = Len(acked) + 1

\* It is the turn of the item that r is at.
Due(r) ==
  IF accepted = <<>> THEN r = "client" /\ Fn(r) = 1 /\ at[r].part = 0
  ELSE <<r, Fn(r), at[r].part>> \in After(accepted[Len(accepted)])

(***************************************************************************)
(* The sides agree on the item.                                            *)
(***************************************************************************)
SameItem(x, r) ==
  Sends(x) /\ Receives(r) /\ Fn(x) = Fn(r) /\ at[x].part = at[r].part

\* b is at the item after the one a is at, of the same direction.
ItemAfter(b, a) ==
  \/ Fn(b) = Fn(a) /\ at[b].part = at[a].part + 1
  \/ at[a].part = Last(Fn(a)) /\ Fn(b) = Fn(a) + 1 /\ at[b].part = 0

\* The receiver takes the item; or has accepted it; or has given up.
Together(x, r) ==
  /\ SameItem(x, r)
  /\ at[x].pc = "done" => cut
  /\ chan[x] # <<>> => at[r].pc = "copy"
  /\ \/ /\ at[r].pc \in Reading \cup {"initFunc"}
        /\ Level /\ Due(r)
        /\ Piece(x, chan[r], Read(r))
        /\ \A k \in 1..Len(buffer[r]) :
             at[r].pc \in {"rData", "rStop"} => buffer[r][k] = Incoming(r)[k]
     \/ /\ at[r].pc \in {"sAck", "copy"} /\ at[x].pc \in {"wAck", "done"}
        /\ OneAhead /\ LastIs(r, Fn(r), at[r].part)
        /\ chan[r] = <<>>
        /\ at[r].pc = "copy" => AckPending(x)
     \/ at[r].pc = "done" /\ cut /\ chan[r] = <<>>

\* The receiver has gone on, the sender has its acknowledgement to read.
Behind(x, r) ==
  /\ Sends(x) /\ at[x].pc \in {"wAck", "done"} /\ (at[x].pc = "done" => cut)
  /\ \/ /\ Receives(r) /\ ItemAfter(r, x)
        /\ at[r].pc \in {"initFunc", "rStart", "done"} /\ (at[r].pc = "done" => cut)
     \/ /\ r = "server" /\ Finished(r)
        /\ Fn(x) = N /\ at[x].part = Last(N)
  /\ OneAhead /\ LastIs(r, Fn(x), at[x].part)
  /\ chan[r] = <<>> /\ AckPending(x)

\* The sender has gone on, the receiver has yet to copy what it accepted.
Ahead(x, r) ==
  /\ Receives(r) /\ at[r].pc = "copy"
  /\ \/ /\ Sends(x) /\ ItemAfter(x, r) /\ (at[x].pc = "done" => cut)
        /\ Piece(x, chan[r], 0)
     \/ /\ x = "client" /\ Finished(x) /\ chan[r] = <<>>
        /\ Fn(r) = N /\ at[r].part = Last(N)
  /\ Level /\ LastIs(r, Fn(r), at[r].part)
  /\ chan[x] = <<>>

\* The last challenge is through, and the client has gone on to its responses.
AtLast(s) == Fn(s) = N /\ at[s].part = Last(N)
ClientTurns ==
  /\ at["server"].call = N /\ AtLast("server") /\ at["server"].pc \in {"wAck", "done"}
  /\ at["client"].call \in {N + 1, N + 2} /\ at["client"].part = 0
  /\ \A s \in Side : at[s].pc = "done" => cut
  /\ OneAhead /\ LastIs("client", N, Last(N))
  /\ chan["client"] = <<>>
  /\ \/ chan["server"] = <<>> /\ cut
     \/ /\ chan["server"] # <<>> /\ Head(chan["server"]) = ACK
        /\ IF at["client"].call = N + 1 THEN Tail(chan["server"]) = <<>>
           ELSE Piece("client", Tail(chan["server"]), 0)

\* The server has gone on to the responses.
ServerTurns ==
  /\ at["server"].call = N + 1 /\ at["server"].part = 0
  /\ at["server"].pc \in {"rStart", "done"} /\ (at["server"].pc = "done" => cut)
  /\ \/ at["client"].call = N /\ AtLast("client") /\ at["client"].pc = "copy"
     \/ at["client"].call = N + 1
  /\ Level /\ LastIs("client", N, Last(N))
  /\ chan["client"] = <<>> /\ chan["server"] = <<>>

AllThrough == \A s \in Side : Finished(s) /\ chan[s] = <<>>

\* The client holds a result for every portion before its place.
Held ==
  \A f \in Functions : \A p \in PortionsOf(f) :
    /\ at["client"].call > f \/ (at["client"].call = f /\ at["client"].part > p) =>
         data["client"][f][p] \in {Challenge(f, p), Response(f, p)}
    /\ at["client"].call = f /\ at["client"].part > 0 => data["client"][f][p] # NULL

InSync ==
  /\ Held
  /\ \/ Together("server", "client") \/ Together("client", "server")
     \/ Behind("server", "client") \/ Behind("client", "server")
     \/ Ahead("server", "client") \/ Ahead("client", "server")
     \/ ClientTurns \/ ServerTurns \/ AllThrough

(***************************************************************************)
(* The client has lost its place.                                          *)
(***************************************************************************)
\* The client gave up an item: it has nothing to read, now or later.
Derailed ==
  /\ cut /\ chan["client"] = <<>>
  /\ at["client"].pc \notin {"rData", "rStop", "sAck", "copy"} /\ at["client"].part = 0
  /\ Sends("server")
  /\ \/ chan["server"] = <<>>
     \/ /\ chan["server"] = <<ACK>> /\ OneAhead
        /\ LastIs("client", Fn("server"), at["server"].part) /\ ~AtLast("server")

\* The client goes on without the portions of f.  The server may still have to read
\* the acknowledgement of f's identifier; then it sends one portion, of which the
\* client takes i units for something else.
Lost(f) ==
  /\ \A p \in PortionsOf(f) : data["client"][f][p] = NULL
  /\ at["client"].call > f /\ at["client"].part = 0
  /\ at["client"].pc \notin {"sAck", "copy"}
  /\ at["server"].call = f
  /\ \/ /\ at["server"].part = 0 /\ at["server"].pc \in {"wAck", "done"}
        /\ at["client"].pc \notin {"rData", "rStop"}
        /\ chan["client"] = <<>>
        /\ OneAhead /\ LastIs("client", f, 0)
        /\ \A k \in 1..Len(chan["server"]) : chan["server"][k] = ACK => k = 1
     \/ /\ at["server"].part = 1
        /\ \A k \in 1..Len(chan["server"]) : chan["server"][k] # ACK
        /\ \E i \in 0..Written("server") :
             /\ Along(chan["client"], Frame("server", f, 1), i, Written("server"),
                      Up("server"))
             /\ at["client"].pc = "rData" => i = 1 /\ buffer["client"] = <<>>
             /\ at["client"].pc = "rStop" => i = 2

(***************************************************************************)
(* The invariant.                                                          *)
(***************************************************************************)
Logged ==
  /\ accepted \in Seq(Side \X Functions \X (0..4) \X Seq(Unit))
  /\ acked \in Seq(Side \X Functions \X (0..4))

\* What holds wherever the two sides are.
Base ==
  /\ TypeOK /\ Placed /\ Filled /\ Turned /\ Memory /\ Logged
  /\ Integrity /\ AckedIsAccepted

\* The exchange is in step, or the client has lost its place and takes nothing more.
IInv == Base /\ (InSync \/ Derailed \/ \E f \in Functions : Lost(f))
=============================================================================
