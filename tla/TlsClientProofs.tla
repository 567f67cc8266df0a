-------------------------- MODULE TlsClientProofs --------------------------
(***************************************************************************)
(* The safety of the whole client, for every pattern and whatever fails:   *)
(* the invariant of TlsClientInv is inductive, and the properties of       *)
(* TlsClient follow.                                                       *)
(***************************************************************************)
EXTENDS TlsClientInv, ChallengeProofs

(***************************************************************************)
(* The exchange under the client.                                          *)
(***************************************************************************)
\* The invariant of the exchange survives the exchange's steps.
LEMMA ExchangeKeeps ==
  ASSUME IInv, (\E s \in Side : Step(s)) \/ Cut \/ UNCHANGED vars
  PROVE  IInv'
<1>1. [Next]_vars
  BY DEF Next
<1> QED BY <1>1, NextKeeps

\* What a longer log of acknowledgements holds.
LEMMA AckedAppend ==
  ASSUME acked \in Seq(Side \X Functions \X (0..4)), NEW new \in Side \X Functions \X (0..4),
         acked' = Append(acked, new), NEW item
  PROVE  Acked(item)' <=> Acked(item) \/ item = new
<1> DEFINE n == Len(acked)
<1>1. /\ n \in Nat /\ Len(acked') = n + 1 /\ acked'[n + 1] = new
      /\ \A k \in 1..n : acked'[k] = acked[k]
  BY AppendProperties
<1>2. Acked(item)' <=> \E k \in 1..n + 1 : acked'[k] = item
  BY <1>1 DEF Acked
<1>3. Acked(item) <=> \E k \in 1..n : acked[k] = item
  BY DEF Acked
<1> HIDE DEF n
<1>4. \A k \in 1..n + 1 : k \in 1..n \/ k = n + 1
  BY <1>1
<1>5. (\A k \in 1..n : k \in 1..n + 1) /\ n + 1 \in 1..n + 1
  BY <1>1
<1> QED BY <1>1, <1>2, <1>3, <1>4, <1>5

\* Nothing is behind the client before its first response, and nothing comes there while
\* it stays at its portion.
LEMMA ProgressKept ==
  ASSUME Base, Progress, at' \in [Side -> Place],
         \A f \in Functions, p \in 0..4 :
           Acked(<<"server", f, p>>)' <=> Acked(<<"server", f, p>>),
         \/ at'["client"].call = at["client"].call /\ at'["client"].part = at["client"].part
         \/ /\ at["client"].call <= N + 1 /\ at'["client"].call <= N + 2
            /\ at'["client"].call = N + 2 => at'["client"].part = 0
  PROVE  Progress'
<1>1. /\ N \in Nat \ {0} /\ Functions = 1..N /\ at \in [Side -> Place]
      /\ \A f \in Functions : Last(f) \in 1..4
  BY PatternFacts, BaseFn
<1>2. /\ at["client"].call \in Nat /\ at["client"].part \in Nat
      /\ at'["client"].call \in Nat /\ at'["client"].part \in Nat
  <2>1. at["client"] \in Place /\ at'["client"] \in Place
    BY <1>1 DEF Side
  <2>2. \A a \in Place : a.call \in 1..2 * N + 2 /\ a.part \in 0..4
    BY DEF Place
  <2>3. /\ at["client"].call \in 1..2 * N + 2 /\ at["client"].part \in 0..4
        /\ at'["client"].call \in 1..2 * N + 2 /\ at'["client"].part \in 0..4
    BY <2>1, <2>2
  <2> QED BY <2>3
<1>3. ASSUME NEW f \in Functions, NEW p \in 0..Last(f)
      PROVE  Past(f, p)' <=> Past(f, p)
  <2>1. f \in Nat /\ f >= 1 /\ p \in Nat
    BY <1>1
  <2>2. CASE at'["client"].call = at["client"].call /\ at'["client"].part = at["client"].part
    BY <2>2 DEF Past
  <2>3. CASE /\ at["client"].call <= N + 1 /\ at'["client"].call <= N + 2
             /\ at'["client"].call = N + 2 => at'["client"].part = 0
    <3>1. ~Past(f, p)
      BY <1>1, <1>2, <2>1, <2>3 DEF Past
    <3>2. ~(at'["client"].call > N + 1 + f)
          /\ ~(at'["client"].call = N + 1 + f /\ at'["client"].part > p)
      BY <1>1, <1>2, <2>1, <2>3
    <3> QED BY <3>1, <3>2 DEF Past
  <2> QED BY <2>2, <2>3
<1>4. \A f \in Functions : \A p \in 0..Last(f) : p \in 0..4
  BY <1>1
<1>5. Functions' = Functions /\ \A f : Last(f)' = Last(f)
  BY DEF Functions, Last
<1> QED BY <1>3, <1>4, <1>5 DEF Progress

\* The client reads an acknowledgement only while the two sides agree on the item.
LEMMA AckInSync ==
  ASSUME IInv, waitForAck("client"), Head(chan["client"]) = ACK
  PROVE  Held /\ OneAhead
<1>1. Base /\ Arrived("client") /\ at["client"].pc = "wAck" /\ "client" \in Side
  BY DEF IInv, waitForAck, Side
<1>2. ~Derailed
  BY <1>1 DEF Derailed, Arrived
<1>3. \A f \in Functions : ~Lost(f)
  BY <1>1, LostReads
<1>4. Held
  BY <1>2, <1>3 DEF IInv, InSync
<1> QED BY <1>1, <1>4, AckMeans

\* The acknowledgement that the client reads is for the portion it then leaves behind.
LEMMA ProgressAck ==
  ASSUME IInv, Progress, waitForAck("client"), Head(chan["client"]) = ACK
  PROVE  Progress'
<1> DEFINE c == at["client"].call
           q == at["client"].part
           g == Fn("client")
<1>1. /\ Base /\ Held /\ OneAhead /\ N \in Nat \ {0} /\ Functions = 1..N
      /\ "client" \in Side /\ "server" \in Side /\ "server" = Peer("client")
      /\ \A f \in Functions : Last(f) \in 1..4
  BY AckInSync, PatternFacts DEF IInv, Side, Peer
<1>2. /\ Sends("client") /\ at' \in [Side -> Place]
      /\ \/ q < Last(g) /\ at'["client"].call = c /\ at'["client"].part = q + 1
         \/ q = Last(g) /\ at'["client"].call = c + 1 /\ at'["client"].part = 0
  <2>1. /\ Sends("client") /\ at' \in [Side -> Place]
        /\ \/ q < Last(g) /\ at'["client"].call = c /\ at'["client"].part = q + 1
           \/ q = Last(g) /\ at'["client"].call = c + 1 /\ at'["client"].part = 0
           \/ AtLast("client") /\ at'["client"].call = c + 1 /\ at'["client"].part = 0
    BY <1>1, WaitMoves
  <2> QED BY <2>1 DEF AtLast
<1>3. g \in 1..N /\ g = c - N - 1 /\ q \in 0..4 /\ c \in Nat
  BY <1>1, <1>2, BaseFn, ItemOf
<1>4. c = N + 1 + g
  BY <1>1, <1>3
<1>5. acked' = Append(acked, <<"server", g, q>>)
  BY <1>1 DEF waitForAck, IsAck
<1>6. <<"server", g, q>> \in Side \X Functions \X (0..4)
  BY <1>1, <1>3
<1>7. ASSUME NEW f \in Functions, NEW p \in 0..Last(f)
      PROVE  Past(f, p)' <=> Past(f, p) \/ (f = g /\ p = q)
  <2> HIDE DEF c, q, g
  <2>1. f \in 1..N /\ p \in Nat /\ Last(f) \in 1..4 /\ p <= Last(f)
    BY <1>1
  <2>2. Past(f, p) <=> c > N + 1 + f \/ (c = N + 1 + f /\ q > p)
    BY DEF Past, c, q
  <2>3. Past(f, p)' <=> \/ at'["client"].call > N + 1 + f
                        \/ at'["client"].call = N + 1 + f /\ at'["client"].part > p
    BY DEF Past
  <2>4. CASE q < Last(g) /\ at'["client"].call = c /\ at'["client"].part = q + 1
    BY <1>1, <1>3, <1>4, <2>1, <2>2, <2>3, <2>4
  <2>5. CASE q = Last(g) /\ at'["client"].call = c + 1 /\ at'["client"].part = 0
    <3>1. CASE f = g
      BY <1>1, <1>3, <1>4, <2>1, <2>2, <2>3, <2>5, <3>1
    <3>2. CASE f # g
      BY <1>1, <1>3, <1>4, <2>1, <2>2, <2>3, <2>5, <3>2
    <3> QED BY <3>1, <3>2
  <2> QED BY <1>2, <2>4, <2>5 DEF c, q, g
<1>8. ASSUME NEW f \in Functions, NEW p \in 0..Last(f)
      PROVE  Acked(<<"server", f, p>>)' <=> Past(f, p)'
  <2>1. Acked(<<"server", f, p>>)' <=>
          Acked(<<"server", f, p>>) \/ <<"server", f, p>> = <<"server", g, q>>
    BY <1>1, <1>5, <1>6, AckedAppend DEF Base, Logged
  <2>2. Acked(<<"server", f, p>>) <=> Past(f, p)
    BY DEF Progress
  <2>3. <<"server", f, p>> = <<"server", g, q>> <=> f = g /\ p = q
    OBVIOUS
  <2> QED BY <2>1, <2>2, <2>3, <1>7
<1>9. Functions' = Functions /\ \A f : Last(f)' = Last(f)
  BY DEF Functions, Last
<1> QED BY <1>8, <1>9 DEF Progress

\* Every step of either side, and the loss of the connection.
LEMMA ProgressStep ==
  ASSUME IInv, Progress, NEW s \in Side, Step(s)
  PROVE  Progress'
<1>1. /\ Base /\ TypeOK /\ Placed /\ Base' /\ N \in Nat \ {0} /\ Functions = 1..N
      /\ at \in [Side -> Place] /\ at' \in [Side -> Place]
      /\ acked \in Seq(Side \X Functions \X (0..4))
      /\ "client" \in Side /\ "server" \in Side
  BY ExchangeKeeps, PatternFacts DEF IInv, Base, TypeOK, Logged, Side
<1>2. acked' = acked =>
        \A f \in Functions, p \in 0..4 :
          Acked(<<"server", f, p>>)' <=> Acked(<<"server", f, p>>)
  BY DEF Acked
<1>3. ASSUME acked' = acked,
             at'["client"].call = at["client"].call /\ at'["client"].part = at["client"].part
      PROVE  Progress'
  BY <1>1, <1>2, <1>3, ProgressKept
<1>4. ASSUME acked' = acked,
             /\ at["client"].call <= N + 1 /\ at'["client"].call <= N + 2
             /\ at'["client"].call = N + 2 => at'["client"].part = 0
      PROVE  Progress'
  BY <1>1, <1>2, <1>4, ProgressKept
<1>5. ASSUME NEW name, Go(s, name)
      PROVE  at'["client"].call = at["client"].call /\ at'["client"].part = at["client"].part
  BY <1>1, <1>5 DEF Go, Place
<1>6. Receives("client") => at["client"].call \in Nat /\ at["client"].call <= N
  BY <1>1 DEF Receives
<1>7. ASSUME Receives(s), acked' = acked,
             at'["client"].call \in {at["client"].call, at["client"].call + 1},
             s = "server" => at'["client"] = at["client"]
      PROVE  Progress'
  <2>1. CASE s = "server"
    BY <1>3, <1>7, <2>1
  <2>2. CASE s = "client"
    <3>1. at["client"].call \in Nat /\ at["client"].call <= N
      BY <1>6, <1>7, <2>2
    <3>2. at'["client"].call <= N + 1
      BY <1>1, <1>7, <3>1
    <3> QED BY <1>1, <1>4, <1>7, <3>1, <3>2
  <2> QED BY <2>1, <2>2 DEF Side
<1>8. CASE sendFramedStream(s)
  <2>1. acked' = acked /\ \E name : Go(s, name)
    BY <1>8 DEF sendFramedStream, history
  <2> QED BY <1>3, <1>5, <2>1
<1>9. CASE sendAck(s)
  <2>1. acked' = acked /\ Go(s, "copy")
    BY <1>9 DEF sendAck, history
  <2> QED BY <1>3, <1>5, <2>1
<1>10. CASE waitForAck(s)
  <2>1. at[s].pc = "wAck" /\ Sends(s)
    BY <1>1, <1>10, Kinds DEF waitForAck, Writing
  <2>2. CASE Head(chan[s]) # ACK
    <3>1. Fails(s) /\ acked' = acked
      BY <1>10, <2>2 DEF waitForAck, IsAck
    <3>2. /\ at'[Peer(s)] = at[Peer(s)]
          /\ at'[s].call = at[s].call /\ at'[s].part = at[s].part
      BY <1>1, <2>1, <3>1, FailsMoves DEF Writing
    <3>3. at'["client"].call = at["client"].call /\ at'["client"].part = at["client"].part
      BY <3>2 DEF Side, Peer
    <3> QED BY <1>3, <3>1, <3>3
  <2>3. CASE Head(chan[s]) = ACK /\ s = "client"
    BY <1>10, <2>3, ProgressAck
  <2>4. CASE Head(chan[s]) = ACK /\ s = "server"
    <3>1. /\ acked' = Append(acked, <<"client", Fn(s), at[s].part>>) /\ NextPart(s, "wStart")
          /\ Fn(s) \in Functions /\ at[s].part \in 0..4
      BY <1>1, <1>10, <2>1, <2>4, ItemOf DEF waitForAck, IsAck, Peer
    <3>2. <<"client", Fn(s), at[s].part>> \in Side \X Functions \X (0..4)
      BY <1>1, <3>1
    <3>3. ASSUME NEW f \in Functions, NEW p \in 0..4
          PROVE  Acked(<<"server", f, p>>)' <=> Acked(<<"server", f, p>>)
      <4>1. Acked(<<"server", f, p>>)' <=> \/ Acked(<<"server", f, p>>)
                                          \/ <<"server", f, p>> = <<"client", Fn(s), at[s].part>>
        BY <1>1, <3>1, <3>2, AckedAppend
      <4>2. <<"server", f, p>> # <<"client", Fn(s), at[s].part>>
        OBVIOUS
      <4> QED BY <4>1, <4>2
    <3>4. at'["client"] = at["client"]
      BY <1>1, <2>4, <3>1 DEF NextPart, NextCall
    <3> QED BY <1>1, <3>3, <3>4, ProgressKept
  <2> QED BY <2>2, <2>3, <2>4 DEF Side
<1>11. CASE recStream(s)
  <2>1. Receives(s) /\ acked' = acked
    BY <1>1, <1>11, Kinds DEF recStream, Reading
  <2>2. CASE \E name : Go(s, name)
    BY <1>3, <1>5, <2>1, <2>2
  <2>3. CASE Fails(s) /\ at[s].pc = "rStop"
    <3>1. at'[Peer(s)] = at[Peer(s)] /\ at'[s].call \in {at[s].call, at[s].call + 1}
      BY <1>1, <2>3, FailsMoves DEF Reading
    <3>2. /\ s = "server" => at'["client"] = at["client"]
          /\ at'["client"].call \in {at["client"].call, at["client"].call + 1}
      BY <3>1 DEF Side, Peer
    <3> QED BY <1>7, <2>1, <3>2
  <2> QED BY <1>11, <2>2, <2>3 DEF recStream
<1>12. CASE Copy(s)
  <2>1. Receives(s) /\ acked' = acked /\ NextPart(s, "rStart")
    BY <1>1, <1>12, Kinds DEF Copy, history, Reading
  <2>2. CASE NextCall(s)
    <3>1. /\ s = "server" => at'["client"] = at["client"]
          /\ s = "client" => at'["client"] = Entry("client", at["client"].call + 1)
      BY <1>1, <2>2 DEF NextCall
    <3>2. Entry("client", at["client"].call + 1).call = at["client"].call + 1
      BY DEF Entry
    <3>3. at'["client"].call \in {at["client"].call, at["client"].call + 1}
      BY <3>1, <3>2 DEF Side
    <3> QED BY <1>7, <2>1, <3>1, <3>3
  <2>3. CASE \E p : at' = [at EXCEPT ![s].part = p, ![s].pc = "rStart"]
    <3>1. /\ s = "server" => at'["client"] = at["client"]
          /\ at'["client"].call = at["client"].call
      BY <1>1, <2>3 DEF Place
    <3> QED BY <1>7, <2>1, <3>1
  <2> QED BY <2>1, <2>2, <2>3 DEF NextPart
<1>13. CASE WriteFails(s) \/ ReadFails(s)
  <2> DEFINE z == Peer(s)
  <2>1. z \in Side
    BY DEF Side, Peer
  <2>2. /\ acked' = acked /\ at'[z] = at[z]
        /\ s = "server" \/ Sends(s) =>
             at'[s].call = at[s].call /\ at'[s].part = at[s].part
        /\ s = "client" /\ Receives(s) => at'[s].call = at[s].call + 1
        /\ Sends(s) \/ Receives(s)
    BY <1>1, <1>13, <2>1, QuitMoves, Kinds DEF Reading, Writing
  <2>3. CASE s = "server" \/ Sends(s)
    <3>1. at'["client"].call = at["client"].call /\ at'["client"].part = at["client"].part
      BY <2>2, <2>3 DEF Side, Peer
    <3> QED BY <1>3, <2>2, <3>1
  <2>4. CASE s = "client" /\ Receives(s)
    BY <1>7, <2>2, <2>4
  <2> QED BY <2>2, <2>3, <2>4 DEF Side
<1>14. CASE initFunc
  <2>1. /\ at'["client"].call = at["client"].call /\ at'["client"].part = 0
        /\ Receives("client") /\ acked' = acked
    BY <1>1, <1>14, InitFuncBase DEF initFunc, history
  <2>2. at'["client"].call <= N + 2 /\ at["client"].call <= N + 1
    BY <1>1, <1>6, <2>1
  <2> QED BY <1>4, <2>1, <2>2
<1>15. CASE challenge_puf
  <2>1. /\ at["client"].call = N + 1 /\ at'["client"].call \in {N + 1, N + 2}
        /\ at'["client"].part = 0 /\ acked' = acked
    BY <1>1, <1>15, PufBase DEF challenge_puf, history
  <2> QED BY <1>1, <1>4, <2>1
<1> QED BY <1>8, <1>9, <1>10, <1>11, <1>12, <1>13, <1>14, <1>15 DEF Step

\* A cut acknowledges nothing and moves nobody.
LEMMA ProgressCut ==
  ASSUME IInv, Progress, Cut
  PROVE  Progress'
BY DEF Progress, Acked, Past, Cut, history, Last, Functions, N

(***************************************************************************)
(* What the places of the client say.                                      *)
(***************************************************************************)
\* AllTaken, item by item.
LEMMA ResponsesIn ==
  ASSUME NEW log
  PROVE  {<<"server", f, p>> : f \in Functions, p \in {0}}
           \cup UNION {{<<"server", f, p>> : p \in PortionsOf(f)} : f \in Functions} \subseteq log
         <=> \A f \in Functions : \A p \in 0..Last(f) : <<"server", f, p>> \in log
<1> DEFINE A == {<<"server", f, p>> : f \in Functions, p \in {0}}
           B == UNION {{<<"server", f, p>> : p \in PortionsOf(f)} : f \in Functions}
<1>1. A \subseteq log <=> \A f \in Functions : <<"server", f, 0>> \in log
  OBVIOUS
<1>2. B \subseteq log <=> \A f \in Functions : \A p \in PortionsOf(f) : <<"server", f, p>> \in log
  <2>1. ASSUME B \subseteq log, NEW f \in Functions, NEW p \in PortionsOf(f)
        PROVE  <<"server", f, p>> \in log
    <3>1. <<"server", f, p>> \in {<<"server", f, q>> : q \in PortionsOf(f)}
      OBVIOUS
    <3>2. {<<"server", f, q>> : q \in PortionsOf(f)} \subseteq B
      OBVIOUS
    <3> QED BY <2>1, <3>1, <3>2
  <2>2. ASSUME \A f \in Functions : \A p \in PortionsOf(f) : <<"server", f, p>> \in log
        PROVE  B \subseteq log
    BY <2>2
  <2> QED BY <2>1, <2>2
<1>3. \A f \in Functions : \A p : p \in 0..Last(f) <=> p = 0 \/ p \in PortionsOf(f)
  BY PatternFacts
<1>4. A \cup B \subseteq log <=> A \subseteq log /\ B \subseteq log
  OBVIOUS
<1> HIDE DEF A, B
<1>5. A \cup B \subseteq log <=>
        \A f \in Functions : \A p \in 0..Last(f) : <<"server", f, p>> \in log
  BY <1>1, <1>2, <1>3, <1>4
<1> QED BY <1>5 DEF A, B

\* ... now and after a step.
LEMMA TakenItems ==
  /\ AllTaken <=> \A f \in Functions : \A p \in 0..Last(f) : Acked(<<"server", f, p>>)
  /\ AllTaken' <=> \A f \in Functions : \A p \in 0..Last(f) : Acked(<<"server", f, p>>)'
<1>1. AllTaken <=> \A f \in Functions : \A p \in 0..Last(f) : Acked(<<"server", f, p>>)
  <2> DEFINE log == {acked[k] : k \in 1..Len(acked)}
  <2>1. \A item : item \in log <=> Acked(item)
    BY DEF Acked
  <2>2. AllTaken <=> {<<"server", f, p>> : f \in Functions, p \in {0}}
           \cup UNION {{<<"server", f, p>> : p \in PortionsOf(f)} : f \in Functions} \subseteq log
    BY DEF AllTaken
  <2> HIDE DEF log
  <2>3. AllTaken <=> \A f \in Functions : \A p \in 0..Last(f) : <<"server", f, p>> \in log
    BY <2>2, ResponsesIn
  <2> QED BY <2>1, <2>3
<1>2. AllTaken' <=> \A f \in Functions : \A p \in 0..Last(f) : Acked(<<"server", f, p>>)'
  <2> DEFINE log == {acked'[k] : k \in 1..Len(acked')}
  <2>1. \A item : item \in log <=> Acked(item)'
    BY DEF Acked
  <2>2. AllTaken' <=> {<<"server", f, p>> : f \in Functions, p \in {0}}
           \cup UNION {{<<"server", f, p>> : p \in PortionsOf(f)} : f \in Functions} \subseteq log
    BY DEF AllTaken, Functions, PortionsOf
  <2> HIDE DEF log
  <2>3. AllTaken' <=> \A f \in Functions : \A p \in 0..Last(f) : <<"server", f, p>> \in log
    BY <2>2, ResponsesIn
  <2> QED BY <2>1, <2>3
<1> QED BY <1>1, <1>2

\* The exchange is over for the client: all is acknowledged, or what it sent last is not.
LEMMA OverTells ==
  ASSUME IInv, Progress, at["client"].pc = "done"
  PROVE  /\ at["client"].call > Len(Calls("client")) => AllTaken
         /\ ~(at["client"].call > Len(Calls("client"))) => ~AllTaken
<1>1. /\ Base /\ TypeOK /\ Placed /\ N \in Nat \ {0} /\ Functions = 1..N /\ "client" \in Side
      /\ at["client"].call \in 1..2 * N + 2 /\ Len(Calls("client")) = 2 * N + 1
  BY BaseFn, PatternFacts, CallsFacts DEF IInv, Side
<1>2. ASSUME at["client"].call > 2 * N + 1 PROVE AllTaken
  <2>1. ASSUME NEW f \in Functions, NEW p \in 0..Last(f) PROVE Past(f, p)
    BY <1>1, <1>2 DEF Past
  <2> QED BY <2>1, TakenItems DEF Progress
<1>3. ASSUME ~(at["client"].call > 2 * N + 1) PROVE ~AllTaken
  <2>1. Sends("client")
    BY <1>1, <1>3, Kinds DEF Finished
  <2>2. /\ Fn("client") \in Functions /\ at["client"].part \in 0..Last(Fn("client"))
        /\ Fn("client") = at["client"].call - N - 1 /\ Last(Fn("client")) \in Nat
    BY <1>1, <2>1, ItemOf, BaseFn
  <2>3. ~Past(Fn("client"), at["client"].part)
    BY <1>1, <2>2 DEF Past
  <2> QED BY <2>2, <2>3, TakenItems DEF Progress
<1> QED BY <1>1, <1>2, <1>3

\* Where nothing of the exchange changes.
LEMMA VarsKept ==
  ASSUME UNCHANGED vars
  PROVE  /\ IInv => IInv'
         /\ TypeOK => TypeOK'
         /\ Progress => Progress'
         /\ AllTaken' <=> AllTaken
         /\ NoBuffers' <=> NoBuffers
<1>1. IInv => IInv'
  BY StutterStep
<1>2. /\ at' = at /\ buffer' = buffer /\ func' = func /\ data' = data /\ chan' = chan
      /\ cut' = cut /\ ok' = ok /\ acked' = acked
  BY DEF vars, heap, history
<1>3. TypeOK => TypeOK'
  BY <1>2 DEF TypeOK
<1>4. Progress => Progress'
  BY <1>2 DEF Progress, Acked, Past
<1>5. AllTaken' <=> AllTaken
  BY <1>2 DEF AllTaken
<1>6. NoBuffers' <=> NoBuffers
  BY <1>2 DEF NoBuffers
<1> QED BY <1>1, <1>3, <1>4, <1>5, <1>6

(***************************************************************************)
(* One lemma for each kind of step.                                        *)
(***************************************************************************)
LEMMA ClientStarts ==
  ASSUME ClientInit
  PROVE  ClientIInv
<1>1. /\ IInv /\ TypeOK /\ Base /\ acked = <<>> /\ at["client"].call = 1
      /\ at["client"].part = 0
      /\ pc = "wait_for_dhcp" /\ held = {} /\ ret = "none" /\ failed = "none"
  <2>1. Init /\ pc = "wait_for_dhcp" /\ held = {} /\ ret = "none" /\ failed = "none"
    BY DEF ClientInit
  <2>2. IInv /\ Base /\ at["client"] = [call |-> 1, part |-> 0, pc |-> "initFunc"]
    BY <2>1, InitHolds, InitBase
  <2>3. acked = <<>>
    BY <2>1 DEF Init
  <2> QED BY <2>1, <2>2, <2>3 DEF Base
<1>2. ClientTypeOK
  BY <1>1 DEF ClientTypeOK, ClientInit, BringupInit, BringupTypeOK, Boot, Wifi, Resources
<1>3. held = Owned /\ Blamed
  BY <1>1 DEF Owned, Blamed, Leaving, Labels
<1>4. Freed
  BY DEF Freed, NoBuffers, ClientInit, Init, Side
<1>5. Exchanging
  <2>1. ASSUME NEW f \in Functions, NEW p \in 0..Last(f)
        PROVE  ~Acked(<<"server", f, p>>) /\ ~Past(f, p)
    <3>1. N \in Nat /\ f \in Nat
      BY PatternFacts
    <3> QED BY <1>1, <3>1 DEF Acked, Past
  <2> QED BY <1>1, <2>1 DEF Exchanging, Progress
<1>6. Told
  BY <1>1 DEF Told, Closing, Leaving, Labels
<1> QED BY <1>2, <1>3, <1>4, <1>5, <1>6 DEF ClientIInv

\* A step of the exchange, or the loss of its connection.
LEMMA ExchangeStep ==
  ASSUME ClientIInv, UNCHANGED session, BringupTypeOK', pc \notin Leaving,
         \/ Cut
         \/ pc \in {"exchange"} \cup Closing /\ \E s \in Side : Step(s)
  PROVE  ClientIInv'
<1>1. /\ pc' = pc /\ held' = held /\ ret' = ret /\ failed' = failed
      /\ IInv /\ Progress /\ ClientTypeOK /\ held = Owned /\ Blamed /\ Freed /\ Told
  BY DEF session, ClientIInv, Exchanging
<1>2. IInv' /\ Progress'
  BY <1>1, ExchangeKeeps, ProgressStep, ProgressCut
<1>3. ClientTypeOK'
  BY <1>1, <1>2 DEF ClientTypeOK, IInv, Base
<1>4. held' = Owned' /\ Blamed'
  BY <1>1 DEF Owned, Blamed, Kept
<1>5. Freed'
  <2>1. CASE Cut
    BY <1>1, <2>1 DEF Freed, NoBuffers, Cut, heap
  <2>2. CASE pc \in {"exchange"} \cup Closing
    BY <1>1, <2>2 DEF Freed, Before, Setup, Closing, Leaving, Labels
  <2> QED BY <2>1, <2>2
<1>6. AllTaken => AllTaken'
  <2>1. ASSUME NEW item, Acked(item) PROVE Acked(item)'
    <3>1. acked \in Seq(Side \X Functions \X (0..4))
      BY <1>1 DEF IInv, Base, Logged
    <3>2. CASE acked' = acked
      BY <2>1, <3>2 DEF Acked
    <3>3. CASE \E s \in Side : acked' = Append(acked, <<Peer(s), Fn(s), at[s].part>>)
               /\ waitForAck(s)
      <4>1. PICK s \in Side : acked' = Append(acked, <<Peer(s), Fn(s), at[s].part>>)
                              /\ waitForAck(s)
        BY <3>3
      <4>2. Fn(s) \in Functions /\ at[s].part \in 0..4 /\ Peer(s) \in Side
        BY <1>1, <4>1, Kinds, ItemOf DEF waitForAck, Writing, Side, Peer, IInv, Base
      <4> QED BY <2>1, <3>1, <4>1, <4>2, AckedAppend
    <3> QED BY <3>2, <3>3 DEF Step, Cut, history, sendFramedStream, waitForAck, recStream,
                 sendAck, Copy, WriteFails, ReadFails, initFunc, challenge_puf
  <2> QED BY <2>1, TakenItems
<1>7. Told'
  BY <1>1, <1>6 DEF Told
<1>8. Exchanging'
  BY <1>2 DEF Exchanging
<1> QED BY <1>3, <1>4, <1>5, <1>7, <1>8 DEF ClientIInv

\* A step of the session that leaves the exchange alone.
LEMMA SessionStep ==
  ASSUME ClientIInv, UNCHANGED vars, BringupTypeOK',
         pc' \in {"wait_for_dhcp", "exchange", "returned"} \cup Setup \cup Closing \cup Labels,
         ret' \in {"none", "zero", "length", "WOLFSSL_SUCCESS", "error"},
         failed' \in {"none", "sendResponse"} \cup Setup \cup Closing,
         held' = Owned', Blamed', Told',
         pc' \notin Leaving => pc \notin Leaving,
         pc' \in Before \cup (Leaving \ {"cleanup"}) =>
           pc \in Before \cup (Leaving \ {"cleanup"})
  PROVE  ClientIInv'
<1>1. ClientTypeOK'
  <2>1. Owned' \subseteq Resources
    BY DEF Owned, Kept, Resources
  <2> QED BY <2>1, VarsKept DEF ClientIInv, ClientTypeOK
<1>2. Freed'
  BY VarsKept DEF ClientIInv, Freed
<1>3. Exchanging'
  BY VarsKept DEF ClientIInv, Exchanging
<1> QED BY <1>1, <1>2, <1>3 DEF ClientIInv

\* Steps of the network and of main before the session, and the last state.
LEMMA BringupStep ==
  ASSUME ClientIInv, UNCHANGED vars, UNCHANGED session,
         (Main \/ Network) \/ UNCHANGED bringup
  PROVE  ClientIInv'
<1>1. /\ pc' = pc /\ held' = held /\ ret' = ret /\ failed' = failed
      /\ ClientTypeOK /\ held = Owned /\ Blamed /\ Told
  BY DEF session, ClientIInv
<1>2. BringupTypeOK'
  BY <1>1 DEF ClientTypeOK, BringupTypeOK, Main, Network, connect_to_wifi, start_dhcpv4_client,
       wifi_event_handler, handler, AddressAdded, bringup, Boot, Wifi
<1>3. held' = Owned' /\ Blamed'
  BY <1>1 DEF Owned, Blamed, Kept
<1>4. Told'
  BY <1>1, VarsKept DEF Told
<1> QED BY <1>1, <1>2, <1>3, <1>4, SessionStep DEF ClientTypeOK

\* Each step keeps the invariant: the wait for the network,
LEMMA WaitForDhcpStep ==
  ASSUME ClientIInv, wait_for_dhcp
  PROVE  ClientIInv'
<1>1. /\ UNCHANGED vars /\ UNCHANGED bringup
      /\ pc = "wait_for_dhcp" /\ pc' = "socket" /\ held' = held /\ ret' = ret /\ failed' = failed
      /\ ClientTypeOK /\ held = Owned /\ Blamed
  BY DEF wait_for_dhcp, ClientIInv
<1>2. BringupTypeOK'
  BY <1>1 DEF ClientTypeOK, BringupTypeOK, bringup
<1>3. held' = Owned' /\ Blamed' /\ Told'
  BY <1>1 DEF Owned, Blamed, Told, Leaving, Labels, Closing
<1> QED BY <1>1, <1>2, <1>3, SessionStep DEF ClientTypeOK, Setup, Leaving, Labels, Before

\* the calls that set the session up, each of which may fail,
LEMMA SetUpStep ==
  ASSUME ClientIInv, SetUp
  PROVE  ClientIInv'
<1>1. /\ UNCHANGED vars /\ UNCHANGED bringup /\ pc \in Setup
      /\ ClientTypeOK /\ held = Owned /\ Blamed
  BY DEF SetUp, ClientIInv
<1>2. BringupTypeOK'
  BY <1>1 DEF ClientTypeOK, BringupTypeOK, bringup
<1>3. failed = "none" \/ (pc = "connect" /\ failed = "socket")
  BY <1>1 DEF Blamed, Setup, Leaving, Labels
<1>4. CASE Succeeds(pc)
  <2>1. pc' = Following[pc] /\ held' = held \cup Acquires(pc) /\ ret' = Result(pc)
        /\ failed' = failed
    BY <1>4 DEF Succeeds
  <2>2. failed = "none"
    BY <1>1, <1>3, <1>4 DEF Succeeds, Owned
  <2>3. held' = Owned'
    BY <1>1, <2>1, <2>2 DEF Owned, Setup, Following, Acquires, Resources, Closing, Kept
  <2>4. /\ pc' \in Setup \cup {"exchange"}
        /\ ret' \in {"none", "zero", "length", "WOLFSSL_SUCCESS", "error"}
        /\ pc' = "exchange" => ret' = "WOLFSSL_SUCCESS"
    BY <1>1, <2>1 DEF Setup, Following, Result, ClientTypeOK
  <2>5. Blamed' /\ Told'
    BY <2>1, <2>2, <2>4 DEF Blamed, Told, Setup, Leaving, Labels, Closing
  <2> QED BY <1>1, <1>2, <2>1, <2>3, <2>4, <2>5, SessionStep
          DEF ClientTypeOK, Setup, Leaving, Labels, Before
<1>5. CASE FailsAt(pc)
  <2>1. /\ pc' = Label(pc) /\ held' = held
        /\ ret' = IF pc = "socket" THEN ret ELSE "error"
        /\ failed' = IF failed = "none" THEN pc ELSE failed
    BY <1>5 DEF FailsAt
  <2>2. held' = Owned' /\ Blamed'
    BY <1>1, <1>3, <2>1
       DEF Owned, Blamed, Kept, Setup, Label, Resources, Closing, Leaving, Labels
  <2>3. /\ pc' \in {"connect"} \cup Labels
        /\ pc' # "connect" => ret' = "error"
        /\ ret' \in {"none", "zero", "length", "WOLFSSL_SUCCESS", "error"}
        /\ failed' \in {"none"} \cup Setup
    BY <1>1, <1>3, <2>1 DEF Setup, Label, Labels, ClientTypeOK
  <2>4. Told'
    BY <2>3 DEF Told, Labels, Leaving, Closing
  <2> QED BY <1>1, <1>2, <2>2, <2>3, <2>4, SessionStep
          DEF ClientTypeOK, Setup, Leaving, Labels, Before
<1> QED BY <1>4, <1>5 DEF SetUp

\* the end of the exchange,
LEMMA ExchangeOverStep ==
  ASSUME ClientIInv, ExchangeOver
  PROVE  ClientIInv'
<1>1. /\ UNCHANGED vars /\ UNCHANGED bringup /\ pc = "exchange" /\ at["client"].pc = "done"
      /\ held' = held /\ ret' = ret
      /\ ClientTypeOK /\ held = Owned /\ Blamed /\ Told /\ Exchanging
  BY DEF ExchangeOver, ClientIInv
<1>2. BringupTypeOK'
  BY <1>1 DEF ClientTypeOK, BringupTypeOK, bringup
<1>3. /\ failed = "none" /\ ret = "WOLFSSL_SUCCESS" /\ IInv /\ Progress
  BY <1>1 DEF Blamed, Told, Exchanging, Leaving, Labels
<1>4. AllTaken' <=> AllTaken
  BY <1>1, VarsKept
<1>5. CASE at["client"].call > Len(Calls("client"))
  <2>1. pc' = "wolfSSL_write" /\ failed' = failed /\ AllTaken
    BY <1>1, <1>3, <1>5, OverTells DEF ExchangeOver
  <2>2. held' = Owned' /\ Blamed' /\ Told'
    BY <1>1, <1>3, <1>4, <2>1 DEF Owned, Blamed, Told, Closing, Leaving, Labels
  <2> QED BY <1>1, <1>2, <2>1, <2>2, SessionStep
          DEF ClientTypeOK, Closing, Leaving, Labels, Before, Setup
<1>6. CASE ~(at["client"].call > Len(Calls("client")))
  <2>1. pc' = "cleanup" /\ failed' = "sendResponse" /\ ~AllTaken
    BY <1>1, <1>3, <1>6, OverTells DEF ExchangeOver
  <2>2. held' = Owned' /\ Blamed' /\ Told'
    BY <1>1, <1>3, <1>4, <2>1 DEF Owned, Blamed, Told, Closing, Leaving, Labels
  <2> QED BY <1>1, <1>2, <2>1, <2>2, SessionStep
          DEF ClientTypeOK, Closing, Leaving, Labels, Before, Setup
<1> QED BY <1>5, <1>6

\* the calls that close the session,
LEMMA CloseStep ==
  ASSUME ClientIInv, Close
  PROVE  ClientIInv'
<1>1. /\ UNCHANGED vars /\ UNCHANGED bringup /\ pc \in Closing
      /\ ClientTypeOK /\ held = Owned /\ Blamed /\ Told
  BY DEF Close, ClientIInv
<1>2. BringupTypeOK'
  BY <1>1 DEF ClientTypeOK, BringupTypeOK, bringup
<1>3. /\ failed = "none" /\ AllTaken' /\ held = Resources
  BY <1>1, VarsKept DEF Blamed, Told, Closing, Leaving, Labels, Owned
<1>4. CASE Succeeds(pc)
  <2>1. pc' = Following[pc] /\ held' = held \cup Acquires(pc) /\ ret' = Result(pc)
        /\ failed' = failed
    BY <1>4 DEF Succeeds
  <2>2. /\ pc' \in {"wolfSSL_read", "wolfSSL_shutdown", "peer_shutdown", "cleanup"}
        /\ ret' \in {"zero", "length", "WOLFSSL_SUCCESS"} /\ held' = Resources
        /\ pc' = "cleanup" => ret' = "zero"
    BY <1>1, <1>3, <2>1 DEF Closing, Following, Result, Acquires
  <2>3. held' = Owned' /\ Blamed' /\ Told'
    BY <1>3, <2>1, <2>2 DEF Owned, Blamed, Told, Closing, Leaving, Labels
  <2> QED BY <1>1, <1>2, <2>1, <2>2, <2>3, SessionStep
          DEF ClientTypeOK, Closing, Leaving, Labels, Before, Setup
<1>5. CASE FailsAt(pc)
  <2>1. /\ pc' = "cleanup" /\ held' = held /\ ret' = "error" /\ failed' = pc
    BY <1>1, <1>3, <1>5 DEF FailsAt, Label, Closing
  <2>2. held' = Owned' /\ Blamed' /\ Told'
    BY <1>1, <1>3, <2>1 DEF Owned, Blamed, Told, Closing, Leaving, Labels
  <2> QED BY <1>1, <1>2, <2>1, <2>2, SessionStep
          DEF ClientTypeOK, Closing, Leaving, Labels, Before, Setup
<1> QED BY <1>4, <1>5 DEF Close

\* the labels
LEMMA CleanupStep ==
  ASSUME ClientIInv, cleanup
  PROVE  ClientIInv'
<1>1. /\ UNCHANGED <<at, buffer, func, chan, cut, ok, acked>> /\ UNCHANGED bringup
      /\ pc = "cleanup" /\ pc' = "ctx_cleanup" /\ held' = held \ {"ssl"}
      /\ ret' = ret /\ failed' = failed /\ data' = freeFunc
      /\ ClientTypeOK /\ TypeOK /\ held = Owned /\ Blamed /\ Told
  BY DEF cleanup, ClientIInv, ClientTypeOK, history
<1>2. BringupTypeOK'
  BY <1>1 DEF ClientTypeOK, BringupTypeOK, bringup
<1>3. /\ \A f \in Functions : DOMAIN data'["client"][f] = PortionsOf(f)
      /\ \A f \in Functions : \A p \in PortionsOf(f) : data'["client"][f][p] = NULL
      /\ data'["server"] = data["server"]
      /\ data' \in [Side -> [Functions -> Seq(Seq(Unit))]]
  <2>1. data \in [Side -> [Functions -> Seq(Seq(Unit))]]
    BY <1>1 DEF TypeOK
  <2>2. ASSUME NEW f \in Functions PROVE [p \in PortionsOf(f) |-> NULL] \in Seq(Seq(Unit))
    <3>1. PortionsOf(f) = 1..Last(f) /\ Last(f) \in Nat /\ NULL \in Seq(Unit)
      BY PatternFacts DEF NULL
    <3>2. [p \in PortionsOf(f) |-> NULL] \in [1..Last(f) -> Seq(Unit)]
      BY <3>1
    <3> QED BY <3>1, <3>2, Tuple
  <2>3. [f \in Functions |-> [p \in PortionsOf(f) |-> NULL]] \in [Functions -> Seq(Seq(Unit))]
    BY <2>2
  <2>4. /\ data'["client"] = [f \in Functions |-> [p \in PortionsOf(f) |-> NULL]]
        /\ data'["server"] = data["server"]
        /\ data' \in [Side -> [Functions -> Seq(Seq(Unit))]]
    BY <1>1, <2>1, <2>3 DEF freeFunc, Side
  <2> QED BY <2>4
<1>4. TypeOK'
  <2>1. \A s \in Side : \A f \in Functions :
          /\ DOMAIN data'[s][f] = PortionsOf(f)
          /\ \A p \in PortionsOf(f) : Len(data'[s][f][p]) \in {0, Pattern[f][p]}
    <3>1. \A f \in Functions :
            /\ DOMAIN data'["client"][f] = PortionsOf(f)
            /\ \A p \in PortionsOf(f) : Len(data'["client"][f][p]) = 0
      BY <1>3 DEF NULL
    <3>2. \A f \in Functions :
            /\ DOMAIN data["server"][f] = PortionsOf(f)
            /\ \A p \in PortionsOf(f) : Len(data["server"][f][p]) \in {0, Pattern[f][p]}
      BY <1>1 DEF TypeOK, Side
    <3> QED BY <1>3, <3>1, <3>2 DEF Side
  <2> QED BY <1>1, <1>3, <2>1 DEF TypeOK
<1>5. held' = Owned' /\ Blamed'
  BY <1>1 DEF Owned, Blamed, Resources, Leaving, Labels
<1>6. Told'
  <2>1. AllTaken' <=> AllTaken
    BY <1>1 DEF AllTaken
  <2> QED BY <1>1, <2>1 DEF Told, Leaving, Labels, Closing
<1>7. ClientTypeOK'
  <2>1. Owned' \subseteq Resources
    BY DEF Owned, Kept, Resources
  <2> QED BY <1>1, <1>2, <1>4, <1>5, <2>1 DEF ClientTypeOK, Labels
<1>8. Freed' /\ Exchanging'
  BY <1>1, <1>3 DEF Freed, Exchanging, NoBuffers, Leaving, Labels
<1> QED BY <1>5, <1>6, <1>7, <1>8 DEF ClientIInv

\* and what they release.
LEMMA ReleaseStep ==
  ASSUME ClientIInv, Release
  PROVE  ClientIInv'
<1>1. /\ UNCHANGED vars /\ UNCHANGED bringup /\ pc \in {"ctx_cleanup", "socket_cleanup", "end"}
      /\ pc' = CASE pc = "ctx_cleanup" -> "socket_cleanup"
                 [] pc = "socket_cleanup" -> "end"
                 [] pc = "end" -> "returned"
      /\ held' = held \ ReleaseAt(pc) /\ ret' = ret /\ failed' = failed
      /\ ClientTypeOK /\ held = Owned /\ Blamed /\ Told
  BY DEF Release, ClientIInv
<1>2. BringupTypeOK'
  BY <1>1 DEF ClientTypeOK, BringupTypeOK, bringup
<1>3. pc' \in {"socket_cleanup", "end", "returned"}
  BY <1>1
<1>4. held' = Owned' /\ Blamed'
  BY <1>1 DEF Owned, Blamed, Kept, ReleaseAt, Leaving, Labels
<1>5. Told'
  BY <1>1, <1>3, VarsKept DEF Told, Leaving, Labels, Closing
<1> QED BY <1>1, <1>2, <1>3, <1>4, <1>5, SessionStep
        DEF ClientTypeOK, Leaving, Labels, Before, Setup

\* The invariant is inductive.
LEMMA ClientNextKeeps ==
  ASSUME ClientIInv, [ClientNext]_allVars
  PROVE  ClientIInv'
<1>1. BringupTypeOK /\ BringupTypeOK' /\ (Connected => pc \notin Leaving)
  <2>1. BringupTypeOK
    BY DEF ClientIInv, ClientTypeOK
  <2>2. (Main \/ Network) \/ UNCHANGED bringup
    BY DEF ClientNext, Client, Server, ConnectionBreaks, NetworkStep, wait_for_dhcp, SetUp,
       Exchange, ExchangeOver, Close, cleanup, Release, allVars
  <2>3. BringupTypeOK'
    BY <2>1, <2>2 DEF BringupTypeOK, Main, Network, connect_to_wifi, start_dhcpv4_client,
         wifi_event_handler, handler, AddressAdded, bringup, Boot, Wifi
  <2> QED BY <2>1, <2>3 DEF Connected, Setup, Closing, Leaving, Labels
<1>2. CASE Client
  <2>1. CASE Main /\ UNCHANGED <<vars, session>>
    BY <2>1, BringupStep
  <2>2. CASE Exchange
    BY <1>1, <2>2, ExchangeStep DEF Exchange, Side, Leaving, Labels
  <2> QED BY <1>2, <2>1, <2>2, WaitForDhcpStep, SetUpStep, ExchangeOverStep, CloseStep,
             CleanupStep, ReleaseStep DEF Client
<1>3. CASE Server
  <2>1. pc \notin Leaving /\ UNCHANGED session /\ pc \in {"exchange"} \cup Closing
    BY <1>3 DEF Server, Closing, Leaving, Labels
  <2>2. \E s \in Side : Step(s)
    BY <1>3 DEF Server, Side
  <2> QED BY <1>1, <2>1, <2>2, ExchangeStep
<1>4. CASE ConnectionBreaks
  BY <1>1, <1>4, ExchangeStep DEF ConnectionBreaks
<1>5. CASE NetworkStep
  <2>1. Network /\ UNCHANGED session /\ ((Connected /\ Cut) \/ UNCHANGED vars)
    BY <1>5 DEF NetworkStep
  <2>2. CASE Connected /\ Cut
    BY <1>1, <2>1, <2>2, ExchangeStep
  <2>3. CASE UNCHANGED vars
    BY <2>1, <2>3, BringupStep
  <2> QED BY <2>1, <2>2, <2>3
<1>6. CASE UNCHANGED allVars
  BY <1>6, BringupStep DEF allVars
<1> QED BY <1>2, <1>3, <1>4, <1>5, <1>6 DEF ClientNext

\* The invariant of the client, whichever call fails and whenever the network is lost.
THEOREM ClientInvariant == ClientSpec => []ClientIInv
<1>1. ClientInit => ClientIInv
  BY ClientStarts
<1>2. ClientIInv /\ [ClientNext]_allVars => ClientIInv'
  BY ClientNextKeeps
<1> QED BY <1>1, <1>2, PTL DEF ClientSpec

(***************************************************************************)
(* What follows for the client.                                            *)
(***************************************************************************)
\* Every variable of main, test_socket_connection and the exchange keeps its type.
THEOREM ClientTypeCorrect == ClientSpec => []ClientTypeOK
<1>1. ClientIInv => ClientTypeOK
  BY DEF ClientIInv
<1> QED BY <1>1, ClientInvariant, PTL

\* No label of test_socket_connection releases what was not acquired, whichever call
\* jumped to it.
THEOREM LabelsRight == ClientSpec => []LabelsHold
<1>1. ClientIInv => LabelsHold
  BY DEF ClientIInv, LabelsHold, Owned, Closing, Resources
<1> QED BY <1>1, ClientInvariant, PTL

\* test_socket_connection returns with everything released but what its two jumps past
\* a label keep.
THEOREM AllReleased == ClientSpec => []NothingElseKept
<1>1. ClientIInv => NothingElseKept
  BY DEF ClientIInv, NothingElseKept, Owned, Freed, NoBuffers, Leaving, Labels, Closing
<1> QED BY <1>1, ClientInvariant, PTL

\* Zero is returned only when the server acknowledged every response, WOLFSSL_SUCCESS only
\* when it did not.
THEOREM ResultTells == ClientSpec => []ReturnTells
<1>1. ClientIInv => ReturnTells
  BY DEF ClientIInv, Told, ReturnTells, Leaving
<1> QED BY <1>1, ClientInvariant, PTL
=============================================================================
