-------------------------- MODULE ChallengeProofs --------------------------
(***************************************************************************)
(* The safety of the challenge exchange, for every pattern, with and       *)
(* without failed allocations and a broken connection: the invariant of    *)
(* ChallengeInv is inductive, and the properties of ChallengeProto follow. *)
(***************************************************************************)
EXTENDS ChallengeInv, SequenceTheorems, FiniteSetTheorems, TLAPS

(***************************************************************************)
(* The pattern and the programs.                                           *)
(***************************************************************************)
LEMMA PatternFacts ==
  /\ N \in Nat \ {0} /\ Functions = 1..N
  /\ \A f \in Functions :
       /\ Last(f) \in 1..4 /\ PortionsOf(f) = 1..Last(f)
       /\ \A p \in PortionsOf(f) : Pattern[f][p] \in Nat /\ Pattern[f][p] >= 2
<1>1. N \in Nat \ {0} /\ Functions = 1..N
  BY PatternAssumption DEF N, Functions
<1>2. ASSUME NEW f \in Functions
      PROVE  /\ Last(f) \in 1..4 /\ PortionsOf(f) = 1..Last(f)
             /\ \A p \in PortionsOf(f) : Pattern[f][p] \in Nat /\ Pattern[f][p] >= 2
  <2>1. Pattern[f] \in Seq(Nat \ {0, 1}) /\ Last(f) \in 1..4
    BY PatternAssumption DEF Functions, Portions, Last
  <2>2. PortionsOf(f) = 1..Last(f)
    <3>1. PortionsOf(f) = 1..4 \cap 1..Last(f)
      BY DEF PortionsOf, Portions, Last
    <3>2. \A k : k \in 1..4 \cap 1..Last(f) <=> k \in 1..Last(f)
      BY <2>1
    <3> QED BY <3>1, <3>2
  <2>3. ASSUME NEW p \in PortionsOf(f) PROVE Pattern[f][p] \in Nat \ {0, 1}
    BY <2>1, <2>2 DEF Last
  <2> QED BY <2>1, <2>2, <2>3
<1> QED BY <1>1, <1>2

\* A function on 1..n is a sequence of length n.
LEMMA Tuple ==
  ASSUME NEW T, NEW n \in Nat, NEW q \in [1..n -> T]
  PROVE  q \in Seq(T) /\ Len(q) = n
OBVIOUS

\* The elements of a concatenation.
LEMMA Concat ==
  ASSUME NEW T, NEW a \in Seq(T), NEW b \in Seq(T)
  PROVE  /\ a \o b \in Seq(T) /\ Len(a \o b) = Len(a) + Len(b)
         /\ \A k \in 1..Len(a) : (a \o b)[k] = a[k]
         /\ \A k \in Len(a) + 1..Len(a) + Len(b) : (a \o b)[k] = b[k - Len(a)]
BY ConcatProperties

\* The calls of each side, by their number.
LEMMA CallsFacts ==
  /\ Len(Calls("client")) = 2 * N + 1 /\ Len(Calls("server")) = 2 * N
  /\ \A c \in 1..N : Calls("client")[c] = <<"rec", c>> /\ Calls("server")[c] = <<"send", c>>
  /\ Calls("client")[N + 1] = <<"puf", 0>>
  /\ \A c \in N + 2..2 * N + 1 : Calls("client")[c] = <<"send", c - N - 1>>
  /\ \A c \in N + 1..2 * N : Calls("server")[c] = <<"rec", c - N>>
<1> DEFINE Each(name) == [f \in Functions |-> <<name, f>>]
           Any == {"rec", "send", "puf"} \X Nat
<1>1. N \in Nat \ {0} /\ Functions = 1..N
  BY PatternFacts
<1>2. ASSUME NEW name \in {"rec", "send", "puf"}
      PROVE  /\ Each(name) \in Seq(Any) /\ Len(Each(name)) = N
             /\ \A c \in 1..N : Each(name)[c] = <<name, c>>
  <2>1. Each(name) \in [1..N -> Any]
    BY <1>1
  <2> QED BY <2>1, <1>1
<1>3. <<<<"puf", 0>>>> \in Seq(Any)
  OBVIOUS
<1>4. Calls("client") = (Each("rec") \o <<<<"puf", 0>>>>) \o Each("send")
  BY DEF Calls
<1>5. Calls("server") = Each("send") \o Each("rec")
  BY DEF Calls
<1> DEFINE Front == Each("rec") \o <<<<"puf", 0>>>>
<1>6. Front \in Seq(Any) /\ Len(Front) = N + 1 /\ Front[N + 1] = <<"puf", 0>>
      /\ \A c \in 1..N : Front[c] = <<"rec", c>>
  <2> HIDE DEF Each, Any
  <2> QED BY <1>1, <1>2, <1>3
<1> HIDE DEF Each, Any, Front
<1>7. /\ Len(Calls("client")) = 2 * N + 1
      /\ \A c \in 1..N + 1 : Calls("client")[c] = Front[c]
      /\ \A c \in N + 2..2 * N + 1 : Calls("client")[c] = Each("send")[c - (N + 1)]
  <2>1. Calls("client") = Front \o Each("send")
    BY <1>4 DEF Front
  <2>2. /\ Len(Calls("client")) = Len(Front) + Len(Each("send"))
        /\ \A c \in 1..Len(Front) : Calls("client")[c] = Front[c]
        /\ \A c \in Len(Front) + 1..Len(Front) + Len(Each("send")) :
             Calls("client")[c] = Each("send")[c - Len(Front)]
    BY <2>1, <1>2, <1>6, Concat
  <2>3. Len(Front) = N + 1 /\ Len(Each("send")) = N
    BY <1>2, <1>6
  <2>4. N + 1 + 1 = N + 2 /\ N + 1 + N = 2 * N + 1
    BY <1>1
  <2> QED BY <2>2, <2>3, <2>4
<1>8. /\ Len(Calls("server")) = 2 * N
      /\ \A c \in 1..N : Calls("server")[c] = Each("send")[c]
      /\ \A c \in N + 1..2 * N : Calls("server")[c] = Each("rec")[c - N]
  <2>2. /\ Len(Calls("server")) = Len(Each("send")) + Len(Each("rec"))
        /\ \A c \in 1..Len(Each("send")) : Calls("server")[c] = Each("send")[c]
        /\ \A c \in Len(Each("send")) + 1..Len(Each("send")) + Len(Each("rec")) :
             Calls("server")[c] = Each("rec")[c - Len(Each("send"))]
    BY <1>5, <1>2, Concat
  <2>3. Len(Each("send")) = N /\ Len(Each("rec")) = N
    BY <1>2
  <2>4. N + N = 2 * N
    BY <1>1
  <2> QED BY <2>2, <2>3, <2>4
<1>9. /\ \A c \in N + 2..2 * N + 1 : c - (N + 1) \in 1..N /\ c - (N + 1) = c - N - 1
      /\ \A c \in N + 1..2 * N : c - N \in 1..N
      /\ N + 1 \in 1..N + 1 /\ \A c \in 1..N : c \in 1..N + 1
  BY <1>1
<1>10. \A c \in 1..N : /\ Each("send")[c] = <<"send", c>>
                       /\ Each("rec")[c] = <<"rec", c>>
  BY <1>2
<1> QED BY <1>6, <1>7, <1>8, <1>9, <1>10

\* Every call that sends or receives is for one of the N functions.
LEMMA CallFn ==
  /\ \A c \in 1..2 * N : Calls("server")[c][2] \in 1..N
  /\ \A c \in 1..N \cup (N + 2..2 * N + 1) : Calls("client")[c][2] \in 1..N
<1>1. N \in Nat \ {0}
  BY PatternFacts
<1>2. ASSUME NEW c \in 1..2 * N PROVE Calls("server")[c][2] \in 1..N
  <2>1. CASE c \in 1..N
    BY <2>1, CallsFacts
  <2>2. CASE c \in N + 1..2 * N
    BY <1>1, <2>2, CallsFacts
  <2> QED BY <1>1, <2>1, <2>2
<1>3. ASSUME NEW c \in 1..N \cup (N + 2..2 * N + 1) PROVE Calls("client")[c][2] \in 1..N
  <2>1. CASE c \in 1..N
    BY <2>1, CallsFacts
  <2>2. CASE c \in N + 2..2 * N + 1
    BY <1>1, <2>2, CallsFacts
  <2> QED BY <2>1, <2>2
<1> QED BY <1>2, <1>3

\* The kind of call a side is in, and the function it is about.
LEMMA FnFacts ==
  ASSUME at \in [Side -> Place]
  PROVE  /\ at["client"].call \in 1..2 * N + 2 /\ at["server"].call \in 1..2 * N + 2
         /\ at["client"].call <= N => Receives("client") /\ Fn("client") = at["client"].call
         /\ Sends("client") => Fn("client") = at["client"].call - N - 1
         /\ Sends("server") => Fn("server") = at["server"].call
         /\ Receives("client") => Fn("client") = at["client"].call
         /\ Receives("server") => Fn("server") = at["server"].call - N
         /\ \A s \in Side : Sends(s) \/ Receives(s) => Fn(s) \in 1..N
<1>1. N \in Nat \ {0}
  BY PatternFacts
<1>2. at["client"].call \in 1..2 * N + 2 /\ at["server"].call \in 1..2 * N + 2
  BY DEF Side, Place
<1>3. Sends("client") => Fn("client") = at["client"].call - N - 1
  BY CallsFacts, <1>1, <1>2 DEF Sends, Fn
<1>4. Sends("server") => Fn("server") = at["server"].call
  BY CallsFacts, <1>1, <1>2 DEF Sends, Fn
<1>5. Receives("client") => Fn("client") = at["client"].call
  BY CallsFacts, <1>1, <1>2 DEF Receives, Fn
<1>6. Receives("server") => Fn("server") = at["server"].call - N
  BY CallsFacts, <1>1, <1>2 DEF Receives, Fn
<1>7. at["client"].call <= N => Receives("client")
  BY <1>1, <1>2 DEF Receives
<1>8. \A s \in Side : Sends(s) \/ Receives(s) => Fn(s) \in 1..N
  BY <1>1, <1>2, <1>3, <1>4, <1>5, <1>6 DEF Sends, Receives, Side
<1> QED BY <1>2, <1>3, <1>4, <1>5, <1>6, <1>7, <1>8

\* The same under the part of the invariant that always holds.
LEMMA BaseFn ==
  ASSUME Base
  PROVE  /\ at \in [Side -> Place] /\ TypeOK /\ Placed /\ N \in Nat \ {0}
         /\ at["client"].call \in 1..2 * N + 2 /\ at["server"].call \in 1..2 * N + 2
         /\ at["client"].call <= N => Receives("client") /\ Fn("client") = at["client"].call
         /\ Sends("client") => Fn("client") = at["client"].call - N - 1
         /\ Sends("server") => Fn("server") = at["server"].call
         /\ Receives("client") => Fn("client") = at["client"].call
         /\ Receives("server") => Fn("server") = at["server"].call - N
         /\ \A s \in Side : Sends(s) \/ Receives(s) => Fn(s) \in 1..N /\ Fn(s) \in Functions
<1>1. at \in [Side -> Place] /\ TypeOK /\ Placed
  BY DEF Base, TypeOK
<1>2. N \in Nat \ {0} /\ Functions = 1..N
  BY PatternFacts
<1> QED BY <1>1, <1>2, FnFacts

\* The item a side is at.
LEMMA ItemOf ==
  ASSUME Base, NEW s \in Side, Sends(s) \/ Receives(s)
  PROVE  /\ Fn(s) \in 1..N /\ Fn(s) \in Functions
         /\ at[s].part \in 0..4 /\ at[s].part \in 0..Last(Fn(s))
         /\ Last(Fn(s)) \in 1..4 /\ Last(Fn(s)) \in Nat
<1>1. Fn(s) \in 1..N /\ Fn(s) \in Functions /\ PlacedAt(s) /\ at \in [Side -> Place]
  BY BaseFn DEF Placed
<1>2. Last(Fn(s)) \in 1..4
  BY <1>1, PatternFacts
<1>3. at[s].part \in 0..4
  BY <1>1 DEF Place
<1>4. at[s].part <= Last(Fn(s))
  BY <1>1 DEF PlacedAt
<1> QED BY <1>1, <1>2, <1>3, <1>4

\* Where a call begins.
LEMMA EntryFacts ==
  /\ \A c \in 1..N : /\ Entry("client", c) = [call |-> c, part |-> 0, pc |-> "initFunc"]
                     /\ Entry("server", c) = [call |-> c, part |-> 0, pc |-> "wStart"]
  /\ Entry("client", N + 1) = [call |-> N + 1, part |-> 0, pc |-> "puf"]
  /\ \A c \in N + 2..2 * N + 1 :
       Entry("client", c) = [call |-> c, part |-> 0, pc |-> "wStart"]
  /\ \A c \in N + 1..2 * N :
       Entry("server", c) = [call |-> c, part |-> 0, pc |-> "rStart"]
  /\ Entry("client", 2 * N + 2) = [call |-> 2 * N + 2, part |-> 0, pc |-> "done"]
  /\ Entry("server", 2 * N + 1) = [call |-> 2 * N + 1, part |-> 0, pc |-> "done"]
<1>1. N \in Nat \ {0}
  BY PatternFacts
<1>2. ASSUME NEW c \in 1..N
      PROVE  /\ Entry("client", c) = [call |-> c, part |-> 0, pc |-> "initFunc"]
             /\ Entry("server", c) = [call |-> c, part |-> 0, pc |-> "wStart"]
  BY <1>1, CallsFacts DEF Entry
<1>3. Entry("client", N + 1) = [call |-> N + 1, part |-> 0, pc |-> "puf"]
  BY <1>1, CallsFacts DEF Entry
<1>4. ASSUME NEW c \in N + 2..2 * N + 1
      PROVE  Entry("client", c) = [call |-> c, part |-> 0, pc |-> "wStart"]
  BY <1>1, CallsFacts DEF Entry
<1>5. ASSUME NEW c \in N + 1..2 * N
      PROVE  Entry("server", c) = [call |-> c, part |-> 0, pc |-> "rStart"]
  BY <1>1, CallsFacts DEF Entry
<1>6. Entry("client", 2 * N + 2) = [call |-> 2 * N + 2, part |-> 0, pc |-> "done"]
  BY <1>1, CallsFacts DEF Entry
<1>7. Entry("server", 2 * N + 1) = [call |-> 2 * N + 1, part |-> 0, pc |-> "done"]
  BY <1>1, CallsFacts DEF Entry
<1> QED BY <1>2, <1>3, <1>4, <1>5, <1>6, <1>7

(***************************************************************************)
(* Frames, and the pieces of them that are on their way.                   *)
(***************************************************************************)
Size(f, p) == IF p = 0 THEN 1 ELSE Pattern[f][p]

\* A frame holds its load between a start and a stop sequence.
LEMMA FrameFacts ==
  ASSUME NEW x, NEW f \in Functions, NEW p \in {0} \cup PortionsOf(f),
         Load(x, f, p) \in Seq(Unit), Len(Load(x, f, p)) = Size(f, p)
  PROVE  /\ Frame(x, f, p) \in Seq(Unit)
         /\ Len(Frame(x, f, p)) = Size(f, p) + 2
         /\ Frame(x, f, p)[1] = S
         /\ \A k \in 1..Size(f, p) : Frame(x, f, p)[k + 1] = Load(x, f, p)[k]
         /\ Frame(x, f, p)[Size(f, p) + 2] = E
<1>1. N \in Nat /\ Size(f, p) \in Nat
  BY PatternFacts DEF Size
<1>2. S \in Unit /\ E \in Unit
  BY <1>1 DEF S, E, Unit, N
<1> DEFINE L == Load(x, f, p)
           A == <<S>> \o L
<1> HIDE DEF L
<1>3. L \in Seq(Unit) /\ Len(L) = Size(f, p)
  BY DEF L
<1>4. <<S>> \in Seq(Unit) /\ <<E>> \in Seq(Unit)
  BY <1>2
<1>5. /\ A \in Seq(Unit) /\ Len(A) = 1 + Size(f, p) /\ A[1] = S
      /\ \A k \in 1..Size(f, p) : A[k + 1] = L[k]
  <2>1. A \in Seq(Unit) /\ Len(A) = Len(<<S>>) + Len(L) /\ A[1] = <<S>>[1]
        /\ \A k \in Len(<<S>>) + 1..Len(<<S>>) + Len(L) : A[k] = L[k - Len(<<S>>)]
    BY <1>3, <1>4, Concat
  <2>2. \A k \in 1..Size(f, p) : k + 1 \in 1 + 1..1 + Size(f, p) /\ (k + 1) - 1 = k
    BY <1>1
  <2> QED BY <2>1, <2>2, <1>3
<1> HIDE DEF A
<1>6. Frame(x, f, p) = A \o <<E>>
  BY DEF Frame, A, L
<1>7. /\ A \o <<E>> \in Seq(Unit) /\ Len(A \o <<E>>) = Size(f, p) + 2
      /\ \A k \in 1..1 + Size(f, p) : (A \o <<E>>)[k] = A[k]
      /\ (A \o <<E>>)[Size(f, p) + 2] = E
  <2>1. /\ A \o <<E>> \in Seq(Unit) /\ Len(A \o <<E>>) = Len(A) + Len(<<E>>)
        /\ \A k \in 1..Len(A) : (A \o <<E>>)[k] = A[k]
        /\ \A k \in Len(A) + 1..Len(A) + Len(<<E>>) : (A \o <<E>>)[k] = <<E>>[k - Len(A)]
    BY <1>4, <1>5, Concat
  <2>2. Len(A) + Len(<<E>>) = Size(f, p) + 2
    BY <1>1, <1>5
  <2>3. /\ Size(f, p) + 2 \in Len(A) + 1..Len(A) + Len(<<E>>)
        /\ (Size(f, p) + 2) - Len(A) = 1 /\ <<E>>[1] = E
    BY <1>1, <1>5
  <2>4. (A \o <<E>>)[Size(f, p) + 2] = <<E>>[(Size(f, p) + 2) - Len(A)]
    BY <2>1, <2>3
  <2> QED BY <2>1, <2>2, <2>3, <2>4, <1>5
<1>8. (\A k \in 1..Size(f, p) : k + 1 \in 1..1 + Size(f, p)) /\ 1 \in 1..1 + Size(f, p)
  BY <1>1
<1>9. \A k \in 1..Size(f, p) : Frame(x, f, p)[k + 1] = L[k]
  BY <1>5, <1>6, <1>7, <1>8
<1> QED BY <1>5, <1>6, <1>7, <1>8, <1>9 DEF L

\* Writing the next units of a frame, reading one, losing some, writing into nothing.
LEMMA AlongWrite ==
  ASSUME NEW T, NEW q \in Seq(T), NEW frame \in Seq(T), NEW from \in Nat, NEW to \in Nat,
         NEW whole \in BOOLEAN, NEW u \in Seq(T), Along(q, frame, from, to, TRUE),
         to + Len(u) <= Len(frame), \A k \in 1..Len(u) : u[k] = frame[to + k]
  PROVE  Along(q \o u, frame, from, to + Len(u), whole)
<1> DEFINE a == Len(q)
           b == Len(u)
<1>1. /\ Len(q \o u) = a + b
      /\ \A k \in 1..a : (q \o u)[k] = q[k]
      /\ \A k \in a + 1..a + b : (q \o u)[k] = u[k - a]
  BY Concat
<1>2. /\ a \in Nat /\ b \in Nat /\ from + a = to /\ to + b <= Len(frame)
      /\ \A k \in 1..a : q[k] = frame[from + k]
      /\ \A k \in 1..b : u[k] = frame[to + k]
  BY DEF Along
<1> HIDE DEF a, b
<1>3. ASSUME NEW k \in 1..a + b PROVE (q \o u)[k] = frame[from + k]
  <2>1. CASE k <= a
    BY <1>1, <1>2, <2>1
  <2>2. CASE k > a
    <3>1. k - a \in 1..b /\ to + (k - a) = from + k /\ k \in a + 1..a + b
      BY <1>2, <2>2
    <3> QED BY <1>1, <1>2, <3>1
  <2>3. k <= a \/ k > a
    BY <1>2
  <2> QED BY <2>1, <2>2, <2>3
<1>4. from + (a + b) = to + b
  BY <1>2
<1>5. Len(q \o u) = a + b /\ Len(u) = b
  BY <1>1 DEF b
<1> QED BY <1>2, <1>3, <1>4, <1>5 DEF Along

\* Reading the first unit of the queue moves its beginning along the frame by one.
LEMMA AlongRead ==
  ASSUME NEW T, NEW q \in Seq(T), NEW frame \in Seq(T), NEW from \in Nat, NEW to \in Nat,
         NEW whole \in BOOLEAN, q # <<>>, Along(q, frame, from, to, whole)
  PROVE  /\ Along(Tail(q), frame, from + 1, to, whole)
         /\ from + 1 <= to /\ Head(q) = frame[from + 1]
<1>1. Len(Tail(q)) = Len(q) - 1 /\ \A k \in 1..Len(Tail(q)) : Tail(q)[k] = q[k + 1]
      /\ Len(q) \in Nat /\ Len(q) >= 1 /\ Head(q) = q[1]
  BY HeadTailProperties
<1>2. \A k \in 1..Len(Tail(q)) : k + 1 \in 1..Len(q) /\ from + (k + 1) = (from + 1) + k
  BY <1>1
<1>3. /\ to <= Len(frame) /\ from + Len(q) <= to /\ (whole => from + Len(q) = to)
      /\ \A k \in 1..Len(q) : q[k] = frame[from + k]
  BY DEF Along
<1>4. \A k \in 1..Len(Tail(q)) : Tail(q)[k] = frame[(from + 1) + k]
  BY <1>1, <1>2, <1>3
<1>5. (from + 1) + Len(Tail(q)) = from + Len(q) /\ from + 1 <= to /\ 1 \in 1..Len(q)
  BY <1>1, <1>3
<1>6. Along(Tail(q), frame, from + 1, to, whole)
  <2> DEFINE a == Len(q)
             b == Len(Tail(q))
  <2>1. to <= Len(frame) /\ from + a <= to /\ (whole => from + a = to) /\ (from + 1) + b = from + a
    BY <1>3, <1>5
  <2> HIDE DEF a, b
  <2>2. to <= Len(frame) /\ (from + 1) + b <= to /\ (whole => (from + 1) + b = to)
    BY <2>1
  <2> QED BY <1>4, <2>2 DEF Along, b
<1>7. Head(q) = frame[from + 1]
  BY <1>1, <1>3, <1>5
<1> QED BY <1>5, <1>6, <1>7

\* What is left of the queue after a cut is still a piece of the frame.
LEMMA AlongCut ==
  ASSUME NEW T, NEW q \in Seq(T), NEW frame \in Seq(T), NEW from \in Nat, NEW to \in Nat,
         NEW whole \in BOOLEAN, NEW n \in 0..Len(q), Along(q, frame, from, to, whole)
  PROVE  Along(SubSeq(q, 1, n), frame, from, to, FALSE)
<1>1. Len(SubSeq(q, 1, n)) = n /\ \A k \in 1..n : SubSeq(q, 1, n)[k] = q[k]
  OBVIOUS
<1> QED BY <1>1 DEF Along

\* A piece that may be short of what was written stays one when more is written.
LEMMA AlongMore ==
  ASSUME NEW T, NEW q \in Seq(T), NEW frame \in Seq(T), NEW from \in Nat, NEW to \in Nat,
         NEW later \in Nat, to <= later, later <= Len(frame), Along(q, frame, from, to, FALSE)
  PROVE  Along(q, frame, from, later, FALSE)
BY DEF Along

(***************************************************************************)
(* What a side has to send.                                                *)
(***************************************************************************)
LEMMA UnitFacts ==
  /\ S \in Unit /\ E \in Unit /\ ACK \in Unit
  /\ \A f \in Functions : Id(f) \in Unit /\ Id(f) \notin {S, E, ACK}
  /\ \A f \in Functions, p \in Portions, what \in {"challenge", "response"} :
       p \in PortionsOf(f) =>
         /\ Units(what, f, p) \in Seq(Unit)
         /\ Len(Units(what, f, p)) = Pattern[f][p]
         /\ \A k \in 1..Pattern[f][p] : Units(what, f, p)[k] \notin {S, E, ACK}
  /\ \A f \in Functions : \A p \in PortionsOf(f) :
       /\ Zeros(f, p) \in Seq(Unit)
       /\ Len(Zeros(f, p)) = Pattern[f][p]
       /\ \A k \in 1..Pattern[f][p] : Zeros(f, p)[k] \notin {S, E, ACK}
<1>1. N \in Nat \ {0} /\ Functions = 1..N /\ N = Len(Pattern)
  BY PatternFacts DEF N
<1>2. S \in Unit /\ E \in Unit /\ ACK \in Unit
  BY <1>1 DEF S, E, ACK, Unit
<1>3. ASSUME NEW f \in Functions PROVE Id(f) \in Unit /\ Id(f) \notin {S, E, ACK}
  BY <1>1 DEF Id, Unit, S, E, ACK
<1>4. ASSUME NEW f \in Functions, NEW p \in PortionsOf(f), NEW what \in {"challenge", "response"}
      PROVE  /\ Units(what, f, p) \in Seq(Unit)
             /\ Len(Units(what, f, p)) = Pattern[f][p]
             /\ \A k \in 1..Pattern[f][p] : Units(what, f, p)[k] \notin {S, E, ACK}
  <2>1. Pattern[f][p] \in Nat /\ p \in 0..4
    BY PatternFacts
  <2>2. \A k \in 1..Pattern[f][p] : <<what, f, p, k>> \in Unit
    BY <1>1, <2>1 DEF Unit
  <2>3. Units(what, f, p) \in [1..Pattern[f][p] -> Unit]
    BY <2>2 DEF Units
  <2>4. \A k \in 1..Pattern[f][p] : Units(what, f, p)[k] = <<what, f, p, k>>
    BY DEF Units
  <2>5. \A k : <<what, f, p, k>> \notin {S, E, ACK}
    BY DEF S, E, ACK
  <2>6. Units(what, f, p) \in Seq(Unit) /\ Len(Units(what, f, p)) = Pattern[f][p]
    BY <2>1, <2>3, Tuple
  <2> QED BY <2>4, <2>5, <2>6
<1>5. ASSUME NEW f \in Functions, NEW p \in PortionsOf(f)
      PROVE  /\ Zeros(f, p) \in Seq(Unit)
             /\ Len(Zeros(f, p)) = Pattern[f][p]
             /\ \A k \in 1..Pattern[f][p] : Zeros(f, p)[k] \notin {S, E, ACK}
  <2>1. Pattern[f][p] \in Nat /\ <<"zero", 0, 0, 0>> \in Unit
    BY PatternFacts, <1>1 DEF Unit
  <2>2. Zeros(f, p) \in [1..Pattern[f][p] -> Unit]
    BY <2>1 DEF Zeros
  <2>3. \A k \in 1..Pattern[f][p] : Zeros(f, p)[k] = <<"zero", 0, 0, 0>>
    BY DEF Zeros
  <2>4. <<"zero", 0, 0, 0>> \notin {S, E, ACK}
    BY DEF S, E, ACK
  <2>5. Zeros(f, p) \in Seq(Unit) /\ Len(Zeros(f, p)) = Pattern[f][p]
    BY <2>1, <2>2, Tuple
  <2> QED BY <2>3, <2>4, <2>5
<1> QED BY <1>2, <1>3, <1>4, <1>5

\* An item is as long as its size says and holds none of the framing words.
LEMMA LoadFacts ==
  ASSUME Integrity, NEW x \in Side, NEW f \in Functions, NEW p \in {0} \cup PortionsOf(f),
         x = "client" /\ p # 0 => data["client"][f][p] # NULL
  PROVE  /\ Load(x, f, p) \in Seq(Unit) /\ Len(Load(x, f, p)) = Size(f, p)
         /\ \A k \in 1..Size(f, p) : Load(x, f, p)[k] \notin {S, E, ACK}
<1>1. \A q \in PortionsOf(f) : q \in Portions /\ q # 0
  BY DEF PortionsOf, Portions
<1>2. CASE p = 0
  BY <1>2, UnitFacts DEF Load, Size
<1>3. CASE p # 0 /\ x = "server"
  BY <1>1, <1>3, UnitFacts DEF Load, Size, Challenge
<1>4. CASE p # 0 /\ x = "client"
  <2>1. p \in PortionsOf(f) /\ Load(x, f, p) = data["client"][f][p]
    BY <1>4 DEF Load
  <2>2. data["client"][f][p] \in {Zeros(f, p), Challenge(f, p), Response(f, p)}
    BY <1>4, <2>1 DEF Integrity
  <2> QED BY <1>1, <1>4, <2>1, <2>2, UnitFacts DEF Size, Challenge, Response
<1> QED BY <1>2, <1>3, <1>4 DEF Side

\* What a sender is about to write are units.
LEMMA OutgoingTyped ==
  ASSUME TypeOK, Placed, NEW s \in Side, Sends(s)
  PROVE  Outgoing(s) \in Seq(Unit)
<1>1. Fn(s) \in Functions /\ at[s].part \in 0..4 /\ at[s].part <= Last(Fn(s))
  BY FnFacts, PatternFacts DEF TypeOK, Placed, PlacedAt, Place
<1>2. at[s].part # 0 => at[s].part \in PortionsOf(Fn(s)) /\ at[s].part \in Portions
  BY <1>1, PatternFacts DEF Portions
<1>3. CASE at[s].part = 0
  <2>1. func[s][Fn(s)] \in Unit
    BY <1>1, UnitFacts DEF TypeOK
  <2> QED BY <1>3, <2>1 DEF Outgoing
<1>4. CASE at[s].part # 0 /\ s = "server"
  BY <1>1, <1>2, <1>4, UnitFacts DEF Outgoing, Challenge
<1>5. CASE at[s].part # 0 /\ s # "server"
  <2>1. data[s][Fn(s)] \in Seq(Seq(Unit)) /\ DOMAIN data[s][Fn(s)] = PortionsOf(Fn(s))
    BY <1>1 DEF TypeOK
  <2>2. data[s][Fn(s)][at[s].part] \in Seq(Unit)
    BY <1>2, <1>5, <2>1
  <2> QED BY <1>5, <2>2 DEF Outgoing
<1> QED BY <1>3, <1>4, <1>5

\* The program sends the load of its place, and asks for its size.
LEMMA OutgoingFacts ==
  ASSUME TypeOK, Placed, Integrity, NEW x \in Side, Sends(x) \/ Receives(x)
  PROVE  /\ Fn(x) \in Functions /\ at[x].part \in {0} \cup PortionsOf(Fn(x))
         /\ Outgoing(x) = Load(x, Fn(x), at[x].part)
         /\ Wanted(x) = Size(Fn(x), at[x].part)
<1>1. Fn(x) \in Functions
  BY FnFacts, PatternFacts DEF TypeOK
<1>2. at[x].part \in 0..4 /\ at[x].part <= Last(Fn(x))
  BY DEF TypeOK, Placed, PlacedAt, Place
<1>3. at[x].part \in {0} \cup PortionsOf(Fn(x))
  BY <1>1, <1>2, PatternFacts
<1>4. func[x][Fn(x)] = Id(Fn(x))
  BY <1>1 DEF Integrity
<1>5. Outgoing(x) = Load(x, Fn(x), at[x].part)
  BY <1>4 DEF Outgoing, Load, Side
<1> QED BY <1>1, <1>3, <1>5 DEF Wanted, Size

(***************************************************************************)
(* Where a step takes a side.                                              *)
(***************************************************************************)
PC == Writing \cup Reading \cup {"initFunc", "sAck", "copy", "puf", "fault", "done"}

\* Go(s, pc) moves s to pc within its call and leaves the other side.
LEMMA GoMoves ==
  ASSUME TypeOK, NEW s \in Side, NEW pc \in PC, Go(s, pc)
  PROVE  /\ at' \in [Side -> Place]
         /\ at'[s].pc = pc /\ at'[s].call = at[s].call /\ at'[s].part = at[s].part
         /\ at'[Peer(s)] = at[Peer(s)]
<1>1. at \in [Side -> Place] /\ Peer(s) \in Side /\ Peer(s) # s
  BY DEF TypeOK, Peer, Side
<1>2. at[s] \in Place /\ at' = [at EXCEPT ![s] = [at[s] EXCEPT !.pc = pc]]
  BY <1>1 DEF Go
<1>3. [at[s] EXCEPT !.pc = pc] \in Place
  BY <1>2 DEF Place, PC, Writing, Reading
<1> QED BY <1>1, <1>2, <1>3 DEF Place

\* NextCall(s) takes s to the entry of its next call and leaves the other side.
LEMMA NextCallMoves ==
  ASSUME TypeOK, Placed, NEW s \in Side, ~Finished(s), NextCall(s)
  PROVE  /\ at' \in [Side -> Place]
         /\ at'[s] = Entry(s, at[s].call + 1)
         /\ at'[s].call = at[s].call + 1 /\ at'[s].part = 0
         /\ at'[Peer(s)] = at[Peer(s)]
<1>1. at \in [Side -> Place] /\ Peer(s) \in Side /\ Peer(s) # s /\ N \in Nat \ {0}
  BY PatternFacts DEF TypeOK, Peer, Side
<1>2. at[s].call \in 1..2 * N + 2 /\ at[s].call # 2 * N + 2
      /\ (s = "server" => at[s].call <= 2 * N)
  BY <1>1 DEF Finished, Place, Placed, PlacedAt, Side
<1>3. /\ Entry(s, at[s].call + 1) \in Place
      /\ Entry(s, at[s].call + 1).call = at[s].call + 1
      /\ Entry(s, at[s].call + 1).part = 0
  <2>1. CASE s = "client"
    <3>1. \/ at[s].call + 1 \in 1..N
          \/ at[s].call + 1 = N + 1
          \/ at[s].call + 1 \in N + 2..2 * N + 1
          \/ at[s].call + 1 = 2 * N + 2
      BY <1>1, <1>2
    <3>2. at[s].call + 1 \in 1..2 * N + 2
      BY <1>1, <1>2
    <3> QED BY <2>1, <3>1, <3>2, EntryFacts DEF Place
  <2>2. CASE s = "server"
    <3>1. \/ at[s].call + 1 \in 1..N
          \/ at[s].call + 1 \in N + 1..2 * N
          \/ at[s].call + 1 = 2 * N + 1
      BY <1>1, <1>2, <2>2
    <3>2. at[s].call + 1 \in 1..2 * N + 2
      BY <1>1, <1>2
    <3> QED BY <2>2, <3>1, <3>2, EntryFacts DEF Place
  <2> QED BY <2>1, <2>2 DEF Side
<1> QED BY <1>1, <1>3 DEF NextCall

\* The least element of an interval.
LEMMA MinInterval ==
  ASSUME NEW a \in Int, NEW b \in Int, a <= b
  PROVE  Min(a..b) = a
<1>1. a \in a..b /\ \A y \in a..b : a <= y
  OBVIOUS
<1>2. \A x \in a..b : (\A y \in a..b : x <= y) => x = a
  BY <1>1
<1> QED BY <1>1, <1>2 DEF Min

\* The loop over the portions: the next one, or the next call.
LEMMA NextPartMoves ==
  ASSUME TypeOK, Placed, NEW s \in Side, Sends(s) \/ Receives(s), NEW pc \in PC,
         NextPart(s, pc)
  PROVE  /\ (\A p \in PortionsOf(Fn(s)) : data[s][Fn(s)][p] # NULL)
              /\ at[s].part < Last(Fn(s)) =>
              /\ at' \in [Side -> Place]
              /\ at'[s].pc = pc /\ at'[s].call = at[s].call
              /\ at'[s].part = at[s].part + 1
              /\ at'[Peer(s)] = at[Peer(s)]
         /\ (\A p \in PortionsOf(Fn(s)) : data[s][Fn(s)][p] = NULL)
              \/ at[s].part = Last(Fn(s)) =>
              NextCall(s)
<1> DEFINE f == Fn(s)
<1>1. f \in Functions /\ at[s].part \in 0..4 /\ at[s].part <= Last(f)
  BY FnFacts, PatternFacts DEF TypeOK, Placed, PlacedAt, Place
<1>2. Last(f) \in 1..4 /\ PortionsOf(f) = 1..Last(f)
  BY <1>1, PatternFacts
<1>3. Later(s) = {p \in PortionsOf(f) : data[s][f][p] # NULL /\ p > at[s].part}
  BY DEF Later, Buffered
<1>4. ASSUME \A p \in PortionsOf(f) : data[s][f][p] # NULL, at[s].part < Last(f)
      PROVE  /\ at' \in [Side -> Place]
             /\ at'[s].pc = pc /\ at'[s].call = at[s].call
             /\ at'[s].part = at[s].part + 1
             /\ at'[Peer(s)] = at[Peer(s)]
  <2>1. Later(s) = at[s].part + 1..Last(f)
    <3>1. \A p : p \in Later(s) <=> p \in 1..Last(f) /\ p > at[s].part
      BY <1>2, <1>3, <1>4
    <3>2. \A p : p \in 1..Last(f) /\ p > at[s].part <=> p \in at[s].part + 1..Last(f)
      BY <1>1, <1>2
    <3> QED BY <3>1, <3>2
  <2>0. at[s].part + 1 \in 0..4 /\ at[s].part + 1 <= Last(f) /\ Last(f) \in 0..4
    BY <1>1, <1>2, <1>4
  <2>2. Min(Later(s)) = at[s].part + 1 /\ Later(s) # {}
    <3> DEFINE a == at[s].part + 1
    <3>1. a \in Int /\ Last(f) \in Int /\ a <= Last(f)
      BY <2>0
    <3> HIDE DEF a, f
    <3>2. Min(a..Last(f)) = a /\ a \in a..Last(f)
      BY <3>1, MinInterval
    <3> QED BY <2>1, <3>2 DEF a
  <2>3. at' = [at EXCEPT ![s].part = at[s].part + 1, ![s].pc = pc]
    BY <2>2 DEF NextPart
  <2>4. at \in [Side -> Place] /\ Peer(s) \in Side /\ Peer(s) # s
    BY DEF TypeOK, Peer, Side
  <2>5. at' = [at EXCEPT ![s] = [at[s] EXCEPT !.part = at[s].part + 1, !.pc = pc]]
    BY <2>3, <2>4
  <2>6. [at[s] EXCEPT !.part = at[s].part + 1, !.pc = pc] \in Place
    BY <2>0, <2>4 DEF Place, PC, Writing, Reading
  <2> QED BY <2>4, <2>5, <2>6 DEF Place
<1>5. ASSUME (\A p \in PortionsOf(f) : data[s][f][p] = NULL) \/ at[s].part = Last(f)
      PROVE  NextCall(s)
  <2>1. Later(s) = {}
    BY <1>1, <1>2, <1>3, <1>5
  <2> QED BY <2>1 DEF NextPart
<1> QED BY <1>4, <1>5

\* What a place says depends on nothing else.
LEMMA SameCall ==
  ASSUME NEW s \in Side, at'[s].call = at[s].call
  PROVE  /\ Sends(s)' <=> Sends(s)
         /\ Receives(s)' <=> Receives(s)
         /\ Finished(s)' <=> Finished(s)
         /\ Fn(s)' = Fn(s)
BY DEF Sends, Receives, Finished, Fn

\* A side that keeps its call and its part keeps the size it waits for.
LEMMA SameItemOf ==
  ASSUME NEW s \in Side, at'[s].call = at[s].call, at'[s].part = at[s].part
  PROVE  Wanted(s)' = Wanted(s) /\ (AtLast(s)' <=> AtLast(s))
BY SameCall DEF Wanted, AtLast

\* The call after one that receives, whether it succeeded or not.
LEMMA AfterReceiving ==
  ASSUME TypeOK, Placed, NEW s \in Side, Receives(s), NextCall(s)
  PROVE  /\ at' \in [Side -> Place] /\ at'[Peer(s)] = at[Peer(s)]
         /\ at'[s].call = at[s].call + 1 /\ at'[s].part = 0
         /\ Fn(s) < N => /\ Receives(s)' /\ Fn(s)' = Fn(s) + 1
                         /\ at'[s].pc = IF s = "client" THEN "initFunc" ELSE "rStart"
         /\ Fn(s) = N => /\ s = "client" => at'[s].call = N + 1 /\ at'[s].pc = "puf"
                         /\ s = "server" => Finished(s)' /\ at'[s].pc = "done"
<1>1. N \in Nat \ {0} /\ Fn(s) \in 1..N /\ at \in [Side -> Place]
  BY PatternFacts, FnFacts DEF TypeOK
<1>2. at[s].call \in 1..2 * N + 2
  BY <1>1 DEF Place
<1>3. ~Finished(s)
  BY <1>1, <1>2 DEF Finished, Receives, Side
<1>4. /\ at' \in [Side -> Place]
      /\ at'[s] = Entry(s, at[s].call + 1)
      /\ at'[s].call = at[s].call + 1 /\ at'[s].part = 0
      /\ at'[Peer(s)] = at[Peer(s)]
  BY <1>3, NextCallMoves
<1>5. CASE s = "client"
  <2>1. at[s].call \in 1..N /\ Fn(s) = at[s].call
    BY <1>1, <1>5, FnFacts DEF Receives
  <2>2. CASE Fn(s) < N
    <3>1. at[s].call + 1 \in 1..N
      BY <1>1, <2>1, <2>2
    <3>2. Receives(s)' /\ at'[s].pc = "initFunc"
      BY <1>4, <1>5, <3>1, EntryFacts DEF Receives
    <3>3. Fn(s)' = at[s].call + 1
      BY <1>4, <1>5, <3>1, CallsFacts DEF Fn
    <3> QED BY <1>4, <1>5, <2>1, <2>2, <3>2, <3>3
  <2>3. CASE Fn(s) = N
    BY <1>4, <1>5, <2>1, <2>3, EntryFacts
  <2> QED BY <1>1, <2>2, <2>3
<1>6. CASE s = "server"
  <2>1. at[s].call \in N + 1..2 * N /\ Fn(s) = at[s].call - N
    BY <1>1, <1>6, FnFacts DEF Receives
  <2>2. CASE Fn(s) < N
    <3>1. at[s].call + 1 \in N + 1..2 * N
      BY <1>1, <2>1, <2>2
    <3>2. Receives(s)' /\ at'[s].pc = "rStart"
      BY <1>4, <1>6, <3>1, EntryFacts DEF Receives
    <3>3. Fn(s)' = (at[s].call + 1) - N
      BY <1>4, <1>6, <3>1, CallsFacts DEF Fn
    <3>4. (at[s].call + 1) - N = (at[s].call - N) + 1
      BY <1>1, <2>1
    <3>5. Fn(s)' = Fn(s) + 1 /\ Fn(s) # N
      BY <1>1, <2>1, <2>2, <3>3, <3>4
    <3> QED BY <1>4, <1>6, <3>2, <3>5
  <2>3. CASE Fn(s) = N
    <3>1. at[s].call + 1 = 2 * N + 1
      BY <1>1, <2>1, <2>3
    <3>2. Finished(s)' /\ at'[s].pc = "done"
      BY <1>4, <1>6, <3>1, EntryFacts DEF Finished
    <3>3. ~(Fn(s) < N)
      BY <1>1, <2>3
    <3> QED BY <1>4, <1>6, <3>2, <3>3
  <2> QED BY <1>1, <2>2, <2>3
<1> QED BY <1>5, <1>6 DEF Side

\* The call after one that sent all there was.
LEMMA AfterSending ==
  ASSUME TypeOK, Placed, NEW s \in Side, Sends(s), NextCall(s)
  PROVE  /\ at' \in [Side -> Place] /\ at'[Peer(s)] = at[Peer(s)]
         /\ at'[s].call = at[s].call + 1 /\ at'[s].part = 0
         /\ Fn(s) < N => Sends(s)' /\ Fn(s)' = Fn(s) + 1 /\ at'[s].pc = "wStart"
         /\ Fn(s) = N => /\ s = "client" => Finished(s)' /\ at'[s].pc = "done"
                         /\ s = "server" => at'[s].call = N + 1 /\ at'[s].pc = "rStart"
<1>1. N \in Nat \ {0} /\ Fn(s) \in 1..N /\ at \in [Side -> Place]
  BY PatternFacts, FnFacts DEF TypeOK
<1>2. at[s].call \in 1..2 * N + 2
  BY <1>1 DEF Place
<1>3. ~Finished(s)
  BY <1>1, <1>2 DEF Finished, Sends, Side
<1>4. /\ at' \in [Side -> Place]
      /\ at'[s] = Entry(s, at[s].call + 1)
      /\ at'[s].call = at[s].call + 1 /\ at'[s].part = 0
      /\ at'[Peer(s)] = at[Peer(s)]
  BY <1>3, NextCallMoves
<1>5. CASE s = "server"
  <2>1. at[s].call \in 1..N /\ Fn(s) = at[s].call
    BY <1>1, <1>5, FnFacts DEF Sends
  <2>2. CASE Fn(s) < N
    <3>1. at[s].call + 1 \in 1..N
      BY <1>1, <2>1, <2>2
    <3>2. Sends(s)' /\ at'[s].pc = "wStart"
      BY <1>4, <1>5, <3>1, EntryFacts DEF Sends
    <3>3. Fn(s)' = at[s].call + 1
      BY <1>4, <1>5, <3>1, CallsFacts DEF Fn
    <3> QED BY <1>4, <1>5, <2>1, <2>2, <3>2, <3>3
  <2>3. CASE Fn(s) = N
    <3>1. N + 1 \in N + 1..2 * N
      BY <1>1
    <3> QED BY <1>4, <1>5, <2>1, <2>3, <3>1, EntryFacts
  <2> QED BY <1>1, <2>2, <2>3
<1>6. CASE s = "client"
  <2>1. at[s].call \in N + 2..2 * N + 1 /\ Fn(s) = at[s].call - N - 1
    BY <1>1, <1>6, FnFacts DEF Sends
  <2>2. CASE Fn(s) < N
    <3>1. at[s].call + 1 \in N + 2..2 * N + 1
      BY <1>1, <2>1, <2>2
    <3>2. Sends(s)' /\ at'[s].pc = "wStart"
      BY <1>4, <1>6, <3>1, EntryFacts DEF Sends
    <3>3. Fn(s)' = (at[s].call + 1) - N - 1
      BY <1>4, <1>6, <3>1, CallsFacts DEF Fn
    <3>4. (at[s].call + 1) - N - 1 = (at[s].call - N - 1) + 1
      BY <1>1, <2>1
    <3>5. Fn(s)' = Fn(s) + 1 /\ Fn(s) # N
      BY <1>1, <2>1, <2>2, <3>3, <3>4
    <3> QED BY <1>4, <1>6, <3>2, <3>5
  <2>3. CASE Fn(s) = N
    <3>1. at[s].call + 1 = 2 * N + 2
      BY <1>1, <2>1, <2>3
    <3>2. Finished(s)' /\ at'[s].pc = "done"
      BY <1>4, <1>6, <3>1, EntryFacts DEF Finished
    <3>3. ~(Fn(s) < N)
      BY <1>1, <2>3
    <3> QED BY <1>4, <1>6, <3>2, <3>3
  <2> QED BY <1>1, <2>2, <2>3
<1> QED BY <1>5, <1>6 DEF Side

\* challenge_puf returns to the first call that sends.
LEMMA AfterPuf ==
  ASSUME TypeOK, Placed, at["client"].call = N + 1, NextCall("client")
  PROVE  /\ at' \in [Side -> Place] /\ at'["server"] = at["server"]
         /\ at'["client"].call = N + 2 /\ at'["client"].part = 0
         /\ at'["client"].pc = "wStart"
         /\ Sends("client")' /\ Fn("client")' = 1
<1>1. N \in Nat \ {0}
  BY PatternFacts
<1>2. ~Finished("client") /\ "client" \in Side /\ Peer("client") = "server"
  BY <1>1 DEF Finished, Side, Peer
<1>3. /\ at' \in [Side -> Place]
      /\ at'["client"] = Entry("client", at["client"].call + 1)
      /\ at'["client"].call = at["client"].call + 1 /\ at'["client"].part = 0
      /\ at'["server"] = at["server"]
  BY <1>2, NextCallMoves
<1>4. at["client"].call + 1 = N + 2 /\ N + 2 \in N + 2..2 * N + 1
  BY <1>1
<1>5. at'["client"].pc = "wStart" /\ Sends("client")'
  BY <1>3, <1>4, EntryFacts DEF Sends
<1>6. Fn("client")' = (N + 2) - N - 1
  BY <1>3, <1>4, CallsFacts DEF Fn
<1> QED BY <1>1, <1>3, <1>4, <1>5, <1>6

\* From one item to the next, while a side has memory for the portions.
LEMMA SendsOn ==
  ASSUME TypeOK, Placed, NEW s \in Side, Sends(s), NextPart(s, "wStart"),
         \A p \in PortionsOf(Fn(s)) : data[s][Fn(s)][p] # NULL
  PROVE  /\ at' \in [Side -> Place] /\ at'[Peer(s)] = at[Peer(s)]
         /\ \/ /\ Sends(s)' /\ at'[s].pc = "wStart"
               /\ \/ /\ at[s].part < Last(Fn(s)) /\ at'[s].call = at[s].call
                     /\ Fn(s)' = Fn(s) /\ at'[s].part = at[s].part + 1
                  \/ /\ at[s].part = Last(Fn(s)) /\ Fn(s) < N
                     /\ Fn(s)' = Fn(s) + 1 /\ at'[s].part = 0
                     /\ at'[s].call = at[s].call + 1
            \/ /\ AtLast(s) /\ at'[s].part = 0 /\ at'[s].call = at[s].call + 1
               /\ s = "client" => Finished(s)' /\ at'[s].pc = "done"
               /\ s = "server" => at'[s].call = N + 1 /\ at'[s].pc = "rStart"
<1>1. N \in Nat \ {0} /\ Fn(s) \in 1..N /\ Fn(s) \in Functions
  BY PatternFacts, FnFacts DEF TypeOK
<1>2. Last(Fn(s)) \in 1..4 /\ at[s].part \in 0..4 /\ at[s].part <= Last(Fn(s))
  BY <1>1, PatternFacts DEF TypeOK, Placed, PlacedAt, Place
<1>3. "wStart" \in PC
  BY DEF PC, Writing
<1>4. CASE at[s].part < Last(Fn(s))
  <2>1. /\ at' \in [Side -> Place]
        /\ at'[s].pc = "wStart" /\ at'[s].call = at[s].call
        /\ at'[s].part = at[s].part + 1
        /\ at'[Peer(s)] = at[Peer(s)]
    BY <1>3, <1>4, NextPartMoves
  <2>2. Sends(s)' /\ Fn(s)' = Fn(s)
    BY <2>1, SameCall
  <2> QED BY <1>4, <2>1, <2>2
<1>5. CASE at[s].part = Last(Fn(s))
  <2>1. NextCall(s)
    BY <1>3, <1>5, NextPartMoves
  <2>2. /\ at' \in [Side -> Place] /\ at'[Peer(s)] = at[Peer(s)]
        /\ at'[s].call = at[s].call + 1 /\ at'[s].part = 0
        /\ Fn(s) < N => Sends(s)' /\ Fn(s)' = Fn(s) + 1 /\ at'[s].pc = "wStart"
        /\ Fn(s) = N => /\ s = "client" => Finished(s)' /\ at'[s].pc = "done"
                        /\ s = "server" => at'[s].call = N + 1 /\ at'[s].pc = "rStart"
    BY <2>1, AfterSending
  <2>3. Fn(s) < N \/ Fn(s) = N
    BY <1>1
  <2> QED BY <1>5, <2>2, <2>3 DEF AtLast
<1> QED BY <1>2, <1>4, <1>5

\* A receiver that is through with a portion goes to the next one, to the next
\* function, or, after the last portion of the last function, out of receiving.
LEMMA ReceivesOn ==
  ASSUME TypeOK, Placed, NEW s \in Side, Receives(s), NextPart(s, "rStart"),
         \A p \in PortionsOf(Fn(s)) : data[s][Fn(s)][p] # NULL
  PROVE  /\ at' \in [Side -> Place] /\ at'[Peer(s)] = at[Peer(s)]
         /\ \/ /\ Receives(s)'
               /\ \/ /\ at[s].part < Last(Fn(s)) /\ at'[s].call = at[s].call
                     /\ Fn(s)' = Fn(s) /\ at'[s].part = at[s].part + 1
                     /\ at'[s].pc = "rStart"
                  \/ /\ at[s].part = Last(Fn(s)) /\ Fn(s) < N
                     /\ Fn(s)' = Fn(s) + 1 /\ at'[s].part = 0
                     /\ at'[s].call = at[s].call + 1
                     /\ at'[s].pc = IF s = "client" THEN "initFunc" ELSE "rStart"
            \/ /\ AtLast(s) /\ at'[s].part = 0 /\ at'[s].call = at[s].call + 1
               /\ s = "client" => at'[s].call = N + 1 /\ at'[s].pc = "puf"
               /\ s = "server" => Finished(s)' /\ at'[s].pc = "done"
<1>1. N \in Nat \ {0} /\ Fn(s) \in 1..N /\ Fn(s) \in Functions
  BY PatternFacts, FnFacts DEF TypeOK
<1>2. Last(Fn(s)) \in 1..4 /\ at[s].part \in 0..4 /\ at[s].part <= Last(Fn(s))
  BY <1>1, PatternFacts DEF TypeOK, Placed, PlacedAt, Place
<1>3. "rStart" \in PC
  BY DEF PC, Reading
<1>4. CASE at[s].part < Last(Fn(s))
  <2>1. /\ at' \in [Side -> Place]
        /\ at'[s].pc = "rStart" /\ at'[s].call = at[s].call
        /\ at'[s].part = at[s].part + 1
        /\ at'[Peer(s)] = at[Peer(s)]
    BY <1>3, <1>4, NextPartMoves
  <2>2. Receives(s)' /\ Fn(s)' = Fn(s)
    BY <2>1, SameCall
  <2> QED BY <1>4, <2>1, <2>2
<1>5. CASE at[s].part = Last(Fn(s))
  <2>1. NextCall(s)
    BY <1>3, <1>5, NextPartMoves
  <2>2. /\ at' \in [Side -> Place] /\ at'[Peer(s)] = at[Peer(s)]
        /\ at'[s].call = at[s].call + 1 /\ at'[s].part = 0
        /\ Fn(s) < N => /\ Receives(s)' /\ Fn(s)' = Fn(s) + 1
                        /\ at'[s].pc = IF s = "client" THEN "initFunc" ELSE "rStart"
        /\ Fn(s) = N => /\ s = "client" => at'[s].call = N + 1 /\ at'[s].pc = "puf"
                        /\ s = "server" => Finished(s)' /\ at'[s].pc = "done"
    BY <2>1, AfterReceiving
  <2>3. Fn(s) < N \/ Fn(s) = N
    BY <1>1
  <2> QED BY <1>5, <2>2, <2>3 DEF AtLast
<1> QED BY <1>2, <1>4, <1>5

\* A side is in exactly one kind of call, and its pc tells which.
LEMMA Kinds ==
  ASSUME TypeOK, Placed, NEW s \in Side
  PROVE  /\ Sends(s) => ~Receives(s) /\ ~Finished(s) /\ at[s].call # (IF s = "client" THEN N + 1 ELSE 0)
         /\ Receives(s) => ~Finished(s) /\ at[s].call # (IF s = "client" THEN N + 1 ELSE 0)
         /\ at[s].pc \in Writing => Sends(s)
         /\ at[s].pc \in Reading \cup {"sAck", "copy"} => Receives(s)
         /\ at[s].pc = "initFunc" => s = "client" /\ Receives(s)
         /\ at[s].pc \in {"puf", "fault"} => s = "client" /\ at[s].call = N + 1
         /\ at[s].pc = "done" => Sends(s) \/ Finished(s) \/ (Receives(s) /\ s = "server")
<1>1. N \in Nat \ {0} /\ at[s].call \in 1..2 * N + 2
      /\ (s = "server" => at[s].call <= 2 * N + 1)
  BY PatternFacts DEF TypeOK, Place, Placed, PlacedAt
<1>2. Sends(s) \/ Receives(s) \/ Finished(s) \/ (s = "client" /\ at[s].call = N + 1)
  <2>1. CASE s = "client"
    BY <1>1, <2>1 DEF Sends, Receives, Finished
  <2>2. CASE s = "server"
    BY <1>1, <2>2 DEF Sends, Receives, Finished
  <2> QED BY <2>1, <2>2 DEF Side
<1>3. /\ Sends(s) => ~Receives(s) /\ ~Finished(s) /\ at[s].call # (IF s = "client" THEN N + 1 ELSE 0)
      /\ Receives(s) => ~Finished(s) /\ at[s].call # (IF s = "client" THEN N + 1 ELSE 0)
      /\ Finished(s) => at[s].call # N + 1 \/ s = "server"
  <2>1. CASE s = "client"
    BY <1>1, <2>1 DEF Sends, Receives, Finished
  <2>2. CASE s = "server"
    BY <1>1, <2>2 DEF Sends, Receives, Finished
  <2> QED BY <2>1, <2>2 DEF Side
<1>4. PlacedAt(s)
  BY DEF Placed
<1> QED BY <1>2, <1>3, <1>4 DEF PlacedAt, Writing, Reading, Side

(***************************************************************************)
(* What holds wherever the sides are.                                      *)
(***************************************************************************)
LEMMA NextCallPlaced ==
  ASSUME TypeOK, Placed, NEW s \in Side, ~Finished(s), NextCall(s)
  PROVE  PlacedAt(s)' /\ at'[s].pc \notin {"rData", "rStop", "sAck", "copy"}
<1>1. N \in Nat \ {0} /\ at \in [Side -> Place]
  BY PatternFacts DEF TypeOK
<1>2. at[s].call \in 1..2 * N + 2 /\ at[s].call # 2 * N + 2
      /\ (s = "server" => at[s].call <= 2 * N)
  BY <1>1 DEF Finished, Place, Placed, PlacedAt, Side
<1>3. at' \in [Side -> Place] /\ at'[s] = Entry(s, at[s].call + 1) /\ at'[s].part = 0
      /\ at'[s].call = at[s].call + 1
  BY NextCallMoves
<1>4. Sends(s)' \/ Receives(s)' => 0 <= Last(Fn(s)')
  <2>1. ASSUME Sends(s)' \/ Receives(s)' PROVE Fn(s)' \in 1..N
    <3>1. s = "client" => at'[s].call \in 1..N \cup (N + 2..2 * N + 1)
      BY <2>1 DEF Sends, Receives
    <3>2. s = "server" => at'[s].call \in 1..2 * N
      BY <1>1, <2>1 DEF Sends, Receives
    <3> QED BY <3>1, <3>2, CallFn DEF Fn, Side
  <2>2. \A f \in 1..N : 0 <= Last(f)
    BY PatternFacts
  <2> QED BY <2>1, <2>2
<1>5. CASE s = "client"
  <2>1. \/ at[s].call + 1 \in 1..N
        \/ at[s].call + 1 = N + 1
        \/ at[s].call + 1 \in N + 2..2 * N + 1
        \/ at[s].call + 1 = 2 * N + 2
    BY <1>1, <1>2
  <2> QED BY <1>1, <1>3, <1>4, <1>5, <2>1, EntryFacts
          DEF PlacedAt, Sends, Receives, Finished, Writing, Reading
<1>6. CASE s = "server"
  <2>1. \/ at[s].call + 1 \in 1..N
        \/ at[s].call + 1 \in N + 1..2 * N
        \/ at[s].call + 1 = 2 * N + 1
    BY <1>1, <1>2, <1>6
  <2> QED BY <1>1, <1>3, <1>4, <1>6, <2>1, EntryFacts
          DEF PlacedAt, Sends, Receives, Finished, Writing, Reading
<1> QED BY <1>5, <1>6 DEF Side

\* NextPart leaves a side at a place of its call, or of the next.
LEMMA NextPartPlaced ==
  ASSUME TypeOK, Placed, Memory, NEW s \in Side,
         NEW pc, \/ Sends(s) /\ pc = "wStart"
                 \/ Receives(s) /\ pc = "rStart",
         NextPart(s, pc)
  PROVE  /\ PlacedAt(s)' /\ at' \in [Side -> Place] /\ at'[Peer(s)] = at[Peer(s)]
         /\ at'[s].call \in {at[s].call, at[s].call + 1}
         /\ at'[s].pc \notin {"rData", "rStop", "sAck", "copy"}
<1>1. N \in Nat \ {0} /\ Fn(s) \in Functions /\ pc \in PC /\ at \in [Side -> Place]
  BY PatternFacts, FnFacts DEF TypeOK, PC, Writing, Reading
<1>2. Last(Fn(s)) \in 1..4 /\ at[s].part \in 0..4 /\ at[s].part <= Last(Fn(s))
  BY <1>1, PatternFacts DEF Placed, PlacedAt, Place
<1>3. \/ \A p \in PortionsOf(Fn(s)) : data[s][Fn(s)][p] # NULL
      \/ \A p \in PortionsOf(Fn(s)) : data[s][Fn(s)][p] = NULL
  BY <1>1 DEF Memory, Side
<1>4. ~Finished(s)
  BY <1>1 DEF Finished, Sends, Receives, Side, Place
<1>5. CASE NextCall(s)
  BY <1>4, <1>5, NextCallPlaced, NextCallMoves
<1>6. CASE at[s].part < Last(Fn(s)) /\ \A p \in PortionsOf(Fn(s)) : data[s][Fn(s)][p] # NULL
  <2>1. /\ at' \in [Side -> Place] /\ at'[s].pc = pc /\ at'[s].call = at[s].call
        /\ at'[s].part = at[s].part + 1 /\ at'[Peer(s)] = at[Peer(s)]
    BY <1>1, <1>6, NextPartMoves
  <2>2. /\ Sends(s)' <=> Sends(s)
        /\ Receives(s)' <=> Receives(s)
        /\ Finished(s)' <=> Finished(s)
        /\ Fn(s)' = Fn(s)
    BY <2>1, SameCall
  <2>3. at[s].part + 1 <= Last(Fn(s)')
    BY <1>2, <1>6, <2>2
  <2>4. PlacedAt(s)
    BY DEF Placed
  <2>5. (s = "client" => at[s].call # N + 1) /\ ~(Sends(s) /\ Receives(s))
    BY <1>1 DEF Sends, Receives, Side, Place
  <2>6. PlacedAt(s)'
    <3>1. CASE Sends(s) /\ pc = "wStart"
      BY <1>4, <2>1, <2>2, <2>3, <2>4, <2>5, <3>1 DEF PlacedAt, Writing
    <3>2. CASE Receives(s) /\ pc = "rStart"
      BY <1>4, <2>1, <2>2, <2>3, <2>4, <2>5, <3>2 DEF PlacedAt, Reading
    <3> QED BY <3>1, <3>2
  <2>7. at'[s].pc \notin {"rData", "rStop", "sAck", "copy"}
    BY <2>1
  <2> QED BY <2>1, <2>6, <2>7
<1>7. at[s].part < Last(Fn(s)) \/ at[s].part = Last(Fn(s))
  BY <1>2
<1> QED BY <1>1, <1>3, <1>5, <1>6, <1>7, NextPartMoves

\* The places that the actions of a sender, of a receiver and of the PUF go to are
\* places of their calls.
LEMMA GoPlaced ==
  ASSUME TypeOK, Placed, NEW s \in Side,
         NEW pc, \/ Sends(s) /\ pc \in Writing \cup {"done"}
                 \/ Receives(s) /\ pc \in Reading \cup {"sAck", "copy"}
                 \/ s = "server" /\ Receives(s) /\ pc = "done"
                 \/ s = "client" /\ at[s].call = N + 1 /\ pc = "fault",
         Go(s, pc)
  PROVE  /\ PlacedAt(s)' /\ at' \in [Side -> Place] /\ at'[Peer(s)] = at[Peer(s)]
         /\ at'[s].pc = pc /\ at'[s].call = at[s].call /\ at'[s].part = at[s].part
<1>1. N \in Nat \ {0} /\ pc \in PC /\ at \in [Side -> Place] /\ at[s] \in Place
  BY PatternFacts DEF TypeOK, PC, Writing, Reading
<1>2. /\ at' \in [Side -> Place] /\ at'[Peer(s)] = at[Peer(s)]
      /\ at'[s].pc = pc /\ at'[s].call = at[s].call /\ at'[s].part = at[s].part
  BY <1>1, GoMoves
<1>3. /\ Sends(s)' <=> Sends(s)
      /\ Receives(s)' <=> Receives(s)
      /\ Finished(s)' <=> Finished(s)
      /\ Fn(s)' = Fn(s)
  BY <1>2, SameCall
<1>4. PlacedAt(s)
  BY DEF Placed
<1>5. at[s].call \in 1..2 * N + 2
  BY <1>1 DEF Place
<1>6. CASE Sends(s) /\ pc \in Writing \cup {"done"}
  <2>1. ~Finished(s) /\ ~Receives(s) /\ ~(s = "client" /\ at[s].call = N + 1)
    BY <1>1, <1>5, <1>6 DEF Finished, Sends, Receives, Side
  <2> QED BY <1>2, <1>3, <1>4, <1>6, <2>1 DEF PlacedAt, Writing, Reading
<1>7. CASE Receives(s) /\ pc \in Reading \cup {"sAck", "copy"} \cup (IF s = "server" THEN {"done"} ELSE {})
  <2>1. ~Finished(s) /\ ~Sends(s) /\ ~(s = "client" /\ at[s].call = N + 1)
    BY <1>1, <1>5, <1>7 DEF Finished, Sends, Receives, Side
  <2> QED BY <1>2, <1>3, <1>4, <1>7, <2>1 DEF PlacedAt, Writing, Reading, Side
<1>8. CASE s = "client" /\ at[s].call = N + 1 /\ pc = "fault"
  <2>1. ~Finished(s) /\ ~Sends(s) /\ ~Receives(s)
    BY <1>1, <1>5, <1>8 DEF Finished, Sends, Receives, Side
  <2> QED BY <1>2, <1>3, <1>4, <1>8, <2>1 DEF PlacedAt, Writing, Reading
<1> QED BY <1>2, <1>6, <1>7, <1>8

\* A step of s leaves what holds of the other side, unless it fills the client's
\* buffers, which it does before the server reads from them.
LEMMA PeerKept ==
  ASSUME TypeOK, Placed, Filled, Turned, NEW s \in Side, at'[Peer(s)] = at[Peer(s)],
         buffer'[Peer(s)] = buffer[Peer(s)],
         data'["client"] = data["client"] \/ (s = "client" /\ at["client"].call <= N + 1)
  PROVE  PlacedAt(Peer(s))' /\ FilledAt(Peer(s))'
<1>1. N \in Nat \ {0} /\ Peer(s) \in Side /\ at \in [Side -> Place]
      /\ (s = "client" => Peer(s) = "server") /\ (s = "server" => Peer(s) = "client")
  BY PatternFacts DEF Peer, Side, TypeOK
<1> DEFINE z == Peer(s)
<1> HIDE DEF z
<1>2. z \in Side /\ at'[z] = at[z] /\ buffer'[z] = buffer[z] /\ PlacedAt(z) /\ FilledAt(z)
  BY <1>1 DEF z, Placed, Filled
<1>3. /\ Sends(z)' <=> Sends(z)
      /\ Receives(z)' <=> Receives(z)
      /\ Finished(z)' <=> Finished(z)
      /\ Fn(z)' = Fn(z) /\ Wanted(z)' = Wanted(z)
  BY <1>2, SameCall, SameItemOf
<1>4. PlacedAt(z)'
  BY <1>2, <1>3 DEF PlacedAt
<1>5. at[z].pc \in {"sAck", "copy"} => Incoming(z)' = Incoming(z)
  <2>1. CASE data'["client"] = data["client"]
    BY <1>2, <1>3, <2>1 DEF Incoming, Load, Challenge, Units, Id, Peer
  <2>2. CASE s = "client" /\ at["client"].call <= N + 1
    <3>1. z = "server" /\ at["client"].call \in Nat
      BY <1>1, <2>2 DEF z, Side, Place
    <3>2. ~(at["client"].call > N + 1)
      BY <1>1, <2>2, <3>1
    <3> QED BY <3>1, <3>2 DEF Turned
  <2> QED BY <2>1, <2>2
<1>6. FilledAt(z)'
  BY <1>2, <1>3, <1>5 DEF FilledAt
<1> QED BY <1>4, <1>6 DEF z

HeapTyped ==
  /\ func \in [Side -> [Functions -> {Id(f) : f \in Functions}]]
  /\ data \in [Side -> [Functions -> Seq(Seq(Unit))]]
  /\ \A s \in Side : \A f \in Functions :
       /\ DOMAIN data[s][f] = PortionsOf(f)
       /\ \A p \in PortionsOf(f) : Len(data[s][f][p]) \in {0, Pattern[f][p]}

\* A step that leaves the buffers alone keeps what is said of them.
LEMMA HeapKept ==
  ASSUME TypeOK, Memory, Integrity, UNCHANGED heap,
         at'["client"].call <= N + 1 => at["client"].call <= N + 1
  PROVE  HeapTyped' /\ Memory' /\ Integrity'
<1>1. func' = func /\ data' = data
  BY DEF heap
<1>2. HeapTyped'
  BY <1>1 DEF TypeOK, HeapTyped
<1>3. Memory'
  BY <1>1 DEF Memory
<1>4. Integrity'
  BY <1>1 DEF Integrity
<1> QED BY <1>2, <1>3, <1>4

\* A step that leaves the logs alone keeps what is said of them.
LEMMA HistoryKept ==
  ASSUME Logged, AckedIsAccepted, UNCHANGED history
  PROVE  Logged' /\ AckedIsAccepted'
BY DEF Logged, AckedIsAccepted, history

\* A step of s keeps Base when it keeps the parts that it can disturb.
LEMMA BaseFrom ==
  ASSUME Base, NEW s \in Side,
         at' \in [Side -> Place], at'[Peer(s)] = at[Peer(s)],
         at'[s].call \in {at[s].call, at[s].call + 1},
         PlacedAt(s)', FilledAt(s)',
         s = "server" /\ at'[s].pc \in {"rData", "rStop", "sAck", "copy"} =>
           at["client"].call > N + 1,
         buffer' \in [Side -> Seq(Unit)], buffer'[Peer(s)] = buffer[Peer(s)],
         data'["client"] = data["client"] \/ (s = "client" /\ at["client"].call <= N + 1),
         chan' \in [Side -> Seq(Unit)], cut' \in BOOLEAN, ok' \in [Side -> BOOLEAN],
         HeapTyped', Memory', Integrity', Logged', AckedIsAccepted'
  PROVE  Base'
<1>1. TypeOK /\ Placed /\ Filled /\ Turned
  BY DEF Base
<1>2. TypeOK'
  BY DEF TypeOK, HeapTyped
<1>3. PlacedAt(Peer(s))' /\ FilledAt(Peer(s))'
  BY <1>1, PeerKept
<1>4. Side = {s, Peer(s)}
  BY DEF Side, Peer
<1>5. Placed' /\ Filled'
  BY <1>3, <1>4 DEF Placed, Filled
<1>6. Turned'
  <2>1. N \in Nat /\ at["client"].call \in Nat
    BY <1>1, PatternFacts DEF TypeOK, Side, Place
  <2>2. CASE s = "server"
    BY <1>1, <2>2 DEF Turned, Peer
  <2>3. CASE s = "client"
    BY <1>1, <2>1, <2>3 DEF Turned, Peer
  <2> QED BY <2>2, <2>3 DEF Side
<1> QED BY <1>2, <1>5, <1>6 DEF Base

\* write puts the units at the end of the other side's queue while the link is up.
LEMMA WriteMoves ==
  ASSUME TypeOK, NEW s \in Side, NEW units \in Seq(Unit), Write(s, units)
  PROVE  /\ chan' \in [Side -> Seq(Unit)] /\ chan'[s] = chan[s]
         /\ chan'[Peer(s)] = IF Up(s) THEN chan[Peer(s)] \o units ELSE chan[Peer(s)]
<1>1. chan \in [Side -> Seq(Unit)] /\ Peer(s) \in Side /\ Peer(s) # s
  BY DEF TypeOK, Peer, Side
<1>2. chan[Peer(s)] \o units \in Seq(Unit)
  BY <1>1, Concat
<1> QED BY <1>1, <1>2 DEF Write

\* A read takes the first unit of the queue of the side that reads.
LEMMA TakeMoves ==
  ASSUME TypeOK, NEW s \in Side, Arrived(s), Take(s)
  PROVE  /\ chan' \in [Side -> Seq(Unit)] /\ chan'[s] = Tail(chan[s])
         /\ chan'[Peer(s)] = chan[Peer(s)] /\ Head(chan[s]) \in Unit
<1>1. chan \in [Side -> Seq(Unit)] /\ Peer(s) \in Side /\ Peer(s) # s
  BY DEF TypeOK, Peer, Side
<1>2. Tail(chan[s]) \in Seq(Unit) /\ Head(chan[s]) \in Unit
  BY <1>1, HeadTailProperties DEF Arrived
<1> QED BY <1>1, <1>2 DEF Take

(***************************************************************************)
(* Base is kept: sendFramedStream, sendAck, failures, the cut.             *)
(***************************************************************************)
LEMMA SendBase ==
  ASSUME Base, NEW s \in Side, sendFramedStream(s)
  PROVE  Base'
<1>1. TypeOK /\ Placed /\ Filled /\ Turned /\ Memory /\ Integrity
  BY DEF Base
<1>2. PICK pc \in {"wData", "wStop", "wAck"} :
        /\ Go(s, pc) /\ at[s].pc \in Writing
        /\ Write(s, <<S>>) \/ Write(s, Outgoing(s)) \/ Write(s, <<E>>)
  BY DEF sendFramedStream, Writing
<1>3. Sends(s)
  BY <1>1, <1>2, Kinds
<1>4. /\ PlacedAt(s)' /\ at' \in [Side -> Place] /\ at'[Peer(s)] = at[Peer(s)]
      /\ at'[s].pc = pc /\ at'[s].call = at[s].call /\ at'[s].part = at[s].part
  BY <1>1, <1>2, <1>3, GoPlaced DEF Writing
<1>5. FilledAt(s)'
  BY <1>4 DEF FilledAt
<1>6. chan' \in [Side -> Seq(Unit)]
  <2>1. Outgoing(s) \in Seq(Unit)
    BY <1>1, <1>3, OutgoingTyped
  <2>2. <<S>> \in Seq(Unit) /\ <<E>> \in Seq(Unit)
    BY UnitFacts
  <2> QED BY <1>1, <1>2, <2>1, <2>2, WriteMoves
<1>7. UNCHANGED <<buffer, heap, cut, ok, history>>
  BY DEF sendFramedStream
<1>8. at'["client"].call = at["client"].call
  BY <1>4 DEF Side, Peer
<1>9. HeapTyped' /\ Memory' /\ Integrity' /\ Logged' /\ AckedIsAccepted'
  BY <1>1, <1>7, <1>8, HeapKept, HistoryKept DEF Base
<1> QED BY <1>1, <1>4, <1>5, <1>6, <1>7, <1>9, BaseFrom DEF heap, TypeOK

(***************************************************************************)
(* What the arrangement of the sides says of a unit that is read.          *)
(***************************************************************************)
LEMMA FrameNoAck ==
  ASSUME Integrity, NEW x \in Side, NEW f \in Functions, NEW p \in {0} \cup PortionsOf(f),
         x = "client" /\ p # 0 => data["client"][f][p] # NULL,
         NEW k \in 1..Size(f, p) + 2
  PROVE  /\ Frame(x, f, p)[k] # ACK
         /\ Frame(x, f, p)[k] = S => k = 1
         /\ Frame(x, f, p)[k] = E => k = Size(f, p) + 2
<1>1. /\ Load(x, f, p) \in Seq(Unit) /\ Len(Load(x, f, p)) = Size(f, p)
      /\ \A j \in 1..Size(f, p) : Load(x, f, p)[j] \notin {S, E, ACK}
  BY LoadFacts
<1>2. /\ Frame(x, f, p)[1] = S
      /\ \A j \in 1..Size(f, p) : Frame(x, f, p)[j + 1] = Load(x, f, p)[j]
      /\ Frame(x, f, p)[Size(f, p) + 2] = E
  BY <1>1, FrameFacts
<1>3. Size(f, p) \in Nat
  BY PatternFacts DEF Size
<1>4. S # E /\ S # ACK /\ E # ACK
  BY DEF S, E, ACK
<1>5. k = 1 \/ k = Size(f, p) + 2 \/ (k - 1 \in 1..Size(f, p) /\ (k - 1) + 1 = k)
  BY <1>3
<1>6. k - 1 \in 1..Size(f, p) => Frame(x, f, p)[k] \notin {S, E, ACK}
  BY <1>1, <1>2, <1>5, <1>3
<1> QED BY <1>2, <1>4, <1>5, <1>6

\* The frame that x works on, when it has memory for its portions.
LEMMA SenderFrame ==
  ASSUME Base, NEW x \in Side, Sends(x),
         x = "client" /\ at[x].part # 0 => data["client"][Fn(x)][at[x].part] # NULL
  PROVE  /\ Fn(x) \in Functions /\ at[x].part \in {0} \cup PortionsOf(Fn(x))
         /\ Frame(x, Fn(x), at[x].part) \in Seq(Unit)
         /\ Len(Frame(x, Fn(x), at[x].part)) = Wanted(x) + 2
         /\ Wanted(x) = Size(Fn(x), at[x].part) /\ Wanted(x) \in Nat /\ Wanted(x) >= 1
         /\ Outgoing(x) = Load(x, Fn(x), at[x].part)
         /\ Outgoing(x) \in Seq(Unit) /\ Len(Outgoing(x)) = Wanted(x)
         /\ Written(x) \in 0..Wanted(x) + 2
<1>1. /\ Fn(x) \in Functions /\ at[x].part \in {0} \cup PortionsOf(Fn(x))
      /\ Outgoing(x) = Load(x, Fn(x), at[x].part)
      /\ Wanted(x) = Size(Fn(x), at[x].part)
  BY OutgoingFacts DEF Base
<1>2. /\ Load(x, Fn(x), at[x].part) \in Seq(Unit)
      /\ Len(Load(x, Fn(x), at[x].part)) = Size(Fn(x), at[x].part)
  BY <1>1, LoadFacts DEF Base
<1>3. /\ Frame(x, Fn(x), at[x].part) \in Seq(Unit)
      /\ Len(Frame(x, Fn(x), at[x].part)) = Wanted(x) + 2
  <2> DEFINE f == Fn(x)
             p == at[x].part
  <2>1. /\ f \in Functions /\ p \in {0} \cup PortionsOf(f)
        /\ Load(x, f, p) \in Seq(Unit) /\ Len(Load(x, f, p)) = Size(f, p)
    BY <1>1, <1>2
  <2>2. Wanted(x) = Size(f, p)
    BY <1>1
  <2> HIDE DEF f, p
  <2>3. Frame(x, f, p) \in Seq(Unit) /\ Len(Frame(x, f, p)) = Size(f, p) + 2
    BY <2>1, FrameFacts
  <2> QED BY <2>2, <2>3 DEF f, p
<1>4. Wanted(x) \in Nat /\ Wanted(x) >= 1
  BY <1>1, PatternFacts DEF Size
<1>5. Written(x) \in 0..Wanted(x) + 2
  BY <1>4 DEF Written
<1> QED BY <1>1, <1>2, <1>3, <1>4, <1>5

\* What the client takes of a frame it has no place for is never an ACK, nor does a
\* frame end where it looks for the end.
LEMMA LostReads ==
  ASSUME Base, NEW f \in Functions, Lost(f), Arrived("client")
  PROVE  /\ Head(chan["client"]) # ACK
         /\ at["client"].pc = "rStop" => Head(chan["client"]) # E
<1> DEFINE whole == Up("server")
<1>1. at["server"].part = 1 /\ at["server"].call = f
  BY DEF Lost, Arrived
<1>2. PICK i \in 0..Written("server") :
           /\ Along(chan["client"], Frame("server", f, 1), i, Written("server"), whole)
           /\ at["client"].pc = "rStop" => i = 2
  BY <1>1 DEF Lost, Arrived
<1> HIDE DEF whole
<1>3. N \in Nat \ {0} /\ f \in 1..N /\ "server" \in Side /\ at \in [Side -> Place]
  BY PatternFacts DEF Side, Base, TypeOK
<1>4. Sends("server") /\ Fn("server") = f
  BY <1>1, <1>3, FnFacts DEF Sends
<1>5. /\ Frame("server", f, 1) \in Seq(Unit) /\ 1 \in PortionsOf(f)
      /\ Len(Frame("server", f, 1)) = Size(f, 1) + 2
      /\ Written("server") \in 0..Size(f, 1) + 2
  BY <1>1, <1>3, <1>4, SenderFrame
<1>6. Size(f, 1) \in Nat /\ Size(f, 1) >= 2
  BY <1>5, PatternFacts DEF Size
<1>7. chan["client"] \in Seq(Unit) /\ chan["client"] # <<>>
  BY DEF Base, TypeOK, Arrived, Side
<1>8. i + 1 <= Written("server") /\ Head(chan["client"]) = Frame("server", f, 1)[i + 1]
  <2>1. i \in Nat /\ Written("server") \in Nat /\ whole \in BOOLEAN
    BY <1>5, <1>6 DEF whole, Up
  <2> QED BY <1>2, <1>5, <1>7, <2>1, AlongRead
<1>9. i + 1 \in 1..Size(f, 1) + 2
  BY <1>5, <1>6, <1>8
<1>10. Integrity
  BY DEF Base
<1>11. /\ Frame("server", f, 1)[i + 1] # ACK
       /\ Frame("server", f, 1)[i + 1] = E => i + 1 = Size(f, 1) + 2
  BY <1>3, <1>5, <1>9, <1>10, FrameNoAck
<1>12. i = 2 => i + 1 # Size(f, 1) + 2
  BY <1>6
<1> QED BY <1>2, <1>8, <1>11, <1>12

\* The arrangements of InSync, by the side that sends.
LEMMA SyncCases ==
  ASSUME InSync
  PROVE  Held /\
         \/ \E x \in Side : \/ Together(x, Peer(x)) \/ Behind(x, Peer(x)) \/ Ahead(x, Peer(x))
         \/ ClientTurns \/ ServerTurns \/ AllThrough
BY DEF InSync, Side, Peer

\* What the client has to send is a result for every portion.
LEMMA HeldResults ==
  ASSUME Held, at["client"].call > N + 1, TypeOK,
         NEW f \in Functions, NEW p \in PortionsOf(f)
  PROVE  /\ data["client"][f][p] # NULL
         /\ data["client"][f][p] \in {Challenge(f, p), Response(f, p)}
<1>1. N \in Nat /\ f \in 1..N /\ at["client"].call \in Nat /\ p \in Portions
  BY PatternFacts DEF TypeOK, Side, Place, PortionsOf
<1>2. at["client"].call > f
  BY <1>1
<1>3. data["client"][f][p] \in {Challenge(f, p), Response(f, p)}
  BY <1>2 DEF Held
<1>4. \A d \in {Challenge(f, p), Response(f, p)} : Len(d) >= 2
  BY <1>1, UnitFacts, PatternFacts DEF Challenge, Response
<1>5. Len(NULL) = 0
  BY DEF NULL
<1> QED BY <1>3, <1>4, <1>5

\* An acknowledgement is for the item that its reader has sent.
LEMMA AckMeans ==
  ASSUME IInv, NEW s \in Side, at[s].pc = "wAck", Arrived(s), Head(chan[s]) = ACK
  PROVE  OneAhead /\ LastIs(Peer(s), Fn(s), at[s].part)
<1>1. Base /\ TypeOK /\ Placed /\ N \in Nat \ {0} /\ chan[s] \in Seq(Unit)
  BY PatternFacts DEF IInv, Base, TypeOK
<1>2. Sends(s) /\ ~Receives(s) /\ ~Finished(s)
  BY <1>1, Kinds DEF Writing
<1>3. ASSUME NEW x \in Side, \/ Together(x, Peer(x)) \/ Behind(x, Peer(x)) \/ Ahead(x, Peer(x))
      PROVE  OneAhead /\ LastIs(Peer(s), Fn(s), at[s].part)
  <2>1. CASE s = x
    <3>1. CASE Together(x, Peer(x))
      BY <2>1, <3>1 DEF Together, Arrived, SameItem, Reading
    <3>2. CASE Behind(x, Peer(x))
      BY <2>1, <3>2 DEF Behind
    <3>3. CASE Ahead(x, Peer(x))
      BY <2>1, <3>3 DEF Ahead, Arrived
    <3> QED BY <1>3, <3>1, <3>2, <3>3
  <2>2. CASE s = Peer(x)
    BY <1>2, <1>3, <2>2 DEF Together, Behind, Ahead, SameItem
  <2> QED BY <2>1, <2>2 DEF Side, Peer
<1>4. CASE InSync /\ ClientTurns
  BY <1>4 DEF ClientTurns, Arrived, AtLast, Side, Peer
<1>5. CASE ServerTurns \/ AllThrough
  BY <1>5 DEF ServerTurns, AllThrough, Arrived, Side
<1>6. CASE Derailed
  BY <1>6 DEF Derailed, Arrived, Side, Peer
<1>7. ASSUME NEW f \in Functions, Lost(f)
      PROVE  OneAhead /\ LastIs(Peer(s), Fn(s), at[s].part)
  <2>1. s # "client"
    BY <1>1, <1>7, LostReads
  <2>2. s = "server" /\ at["server"].call = f /\ f \in 1..N
    BY <1>7, <2>1, PatternFacts DEF Lost, Side
  <2>3. Fn("server") = f
    BY <1>2, <2>2, <1>1, FnFacts DEF TypeOK
  <2>4. chan["server"][1] = ACK /\ 1 \in 1..Len(chan["server"])
    BY <1>1, <2>2, HeadTailProperties DEF Arrived
  <2> QED BY <1>7, <2>2, <2>3, <2>4 DEF Lost, Peer
<1> QED BY <1>3, <1>4, <1>5, <1>6, <1>7, SyncCases DEF IInv

\* The frame that recStream accepts is the one its sender has just written.
LEMMA AcceptMeans ==
  ASSUME IInv, NEW s \in Side, at[s].pc = "rStop", Arrived(s)
  PROVE  \/ Held /\ Together(Peer(s), s)
         \/ s = "client" /\ Head(chan[s]) # E /\ \E f \in Functions : Lost(f)
<1>1. Base /\ TypeOK /\ Placed /\ N \in Nat \ {0} /\ chan[s] \in Seq(Unit)
  BY PatternFacts DEF IInv, Base, TypeOK
<1>2. Receives(s) /\ ~Sends(s) /\ ~Finished(s) /\ at[s].call # (IF s = "client" THEN N + 1 ELSE 0)
  BY <1>1, Kinds DEF Reading
<1>3. ASSUME NEW x \in Side, \/ Together(x, Peer(x)) \/ Behind(x, Peer(x)) \/ Ahead(x, Peer(x))
      PROVE  Together(Peer(s), s)
  <2>1. CASE s = x
    BY <1>2, <1>3, <2>1 DEF Together, Behind, Ahead, SameItem
  <2>2. CASE s = Peer(x)
    <3>1. x = Peer(s)
      BY <2>2 DEF Side, Peer
    <3>2. ~Behind(x, Peer(x))
      BY <1>2, <2>2 DEF Behind
    <3>3. ~Ahead(x, Peer(x))
      BY <2>2 DEF Ahead
    <3>4. Together(x, s)
      BY <1>3, <2>2, <3>2, <3>3
    <3> QED BY <3>1, <3>4
  <2> QED BY <2>1, <2>2 DEF Side, Peer
<1>4. ~(ClientTurns \/ ServerTurns \/ AllThrough)
  BY <1>1, <1>2 DEF ClientTurns, ServerTurns, AllThrough, Arrived, Side, Receives
<1>5. ~Derailed
  <2>1. s = "server" => Receives("server")
    BY <1>2
  <2> QED BY <1>2 DEF Derailed, Side
<1>6. ASSUME NEW f \in Functions, Lost(f)
      PROVE  s = "client" /\ Head(chan[s]) # E
  <2>1. s # "server"
    BY <1>1, <1>2, <1>6, PatternFacts DEF Lost, Receives
  <2> QED BY <1>1, <1>6, <2>1, LostReads DEF Side
<1> QED BY <1>3, <1>4, <1>5, <1>6, SyncCases DEF IInv

\* A side that has accepted an item has not lost its place.
LEMMA CopyMeans ==
  ASSUME IInv, NEW s \in Side, at[s].pc \in {"sAck", "copy"}
  PROVE  InSync
<1>1. TypeOK /\ Placed /\ N \in Nat \ {0} /\ Receives(s) /\ ~Sends(s)
  BY Kinds, PatternFacts DEF IInv, Base
<1>2. ~Derailed
  BY <1>1 DEF Derailed, Side
<1>3. \A f \in Functions : ~Lost(f)
  BY <1>1, PatternFacts DEF Lost, Receives, Side
<1> QED BY <1>2, <1>3 DEF IInv

(***************************************************************************)
(* Base is kept by every other step.                                       *)
(***************************************************************************)
LEMMA AckBase ==
  ASSUME Base, NEW s \in Side, sendAck(s)
  PROVE  Base'
<1>1. TypeOK /\ Placed /\ Filled /\ Turned /\ Memory /\ Integrity /\ at[s].pc = "sAck"
  BY DEF Base, sendAck
<1>2. Receives(s)
  BY <1>1, Kinds
<1>3. /\ PlacedAt(s)' /\ at' \in [Side -> Place] /\ at'[Peer(s)] = at[Peer(s)]
      /\ at'[s].pc = "copy" /\ at'[s].call = at[s].call /\ at'[s].part = at[s].part
  BY <1>1, <1>2, GoPlaced DEF sendAck
<1>4. UNCHANGED <<buffer, heap, cut, ok, history>>
  BY DEF sendAck
<1>5. FilledAt(s)'
  <2>1. Fn(s)' = Fn(s)
    BY <1>3, SameCall
  <2>2. Incoming(s)' = Incoming(s)
    BY <1>3, <1>4, <2>1 DEF Incoming, Load, heap, Challenge, Units, Id, Peer
  <2>3. buffer[s] = Incoming(s)
    BY <1>1 DEF Filled, FilledAt
  <2> QED BY <1>3, <1>4, <2>2, <2>3 DEF FilledAt
<1>6. chan' \in [Side -> Seq(Unit)]
  <2>1. <<ACK>> \in Seq(Unit)
    BY UnitFacts
  <2> QED BY <1>1, <2>1, WriteMoves DEF sendAck
<1>7. at'["client"].call = at["client"].call
  BY <1>3 DEF Side, Peer
<1>8. HeapTyped' /\ Memory' /\ Integrity' /\ Logged' /\ AckedIsAccepted'
  BY <1>1, <1>4, <1>7, HeapKept, HistoryKept DEF Base
<1>9. s = "server" => at["client"].call > N + 1
  BY <1>1 DEF Turned
<1> QED BY <1>1, <1>3, <1>4, <1>5, <1>6, <1>8, <1>9, BaseFrom DEF heap, TypeOK

\* Where a failure takes a side.
LEMMA FailsMoves ==
  ASSUME TypeOK, Placed, NEW s \in Side, Fails(s),
         at[s].pc \in Writing \cup Reading \cup {"sAck"}
  PROVE  /\ ok' \in [Side -> BOOLEAN]
         /\ at' \in [Side -> Place] /\ at'[Peer(s)] = at[Peer(s)] /\ PlacedAt(s)'
         /\ at'[s].call \in {at[s].call, at[s].call + 1}
         /\ at'[s].pc \notin {"rData", "rStop", "sAck", "copy"}
         /\ s = "client" /\ Receives(s) => NextCall(s)
         /\ s = "server" \/ Sends(s) =>
              at'[s].pc = "done" /\ at'[s].call = at[s].call /\ at'[s].part = at[s].part
<1>1. N \in Nat \ {0} /\ at \in [Side -> Place] /\ ok \in [Side -> BOOLEAN]
  BY PatternFacts DEF TypeOK
<1>2. (Sends(s) \/ Receives(s)) /\ ~(Sends(s) /\ Receives(s)) /\ ~Finished(s)
      /\ (at[s].pc = "sAck" => Receives(s))
  BY Kinds
<1>3. ok' \in [Side -> BOOLEAN]
  BY <1>1 DEF Fails
<1>4. CASE s = "client" /\ Receives(s)
  <2>1. Calls(s)[at[s].call][1] = "rec"
    BY <1>4, CallsFacts DEF Receives
  <2>2. NextCall(s)
    BY <1>4, <2>1 DEF Fails
  <2>3. /\ PlacedAt(s)' /\ at'[s].pc \notin {"rData", "rStop", "sAck", "copy"}
        /\ at' \in [Side -> Place] /\ at'[Peer(s)] = at[Peer(s)]
        /\ at'[s].call = at[s].call + 1
    BY <1>2, <2>2, NextCallPlaced, NextCallMoves
  <2> QED BY <1>2, <1>3, <1>4, <2>2, <2>3
<1>5. CASE s = "server" \/ Sends(s)
  <2>1. ~(s = "client" /\ Calls(s)[at[s].call][1] = "rec")
    BY <1>5, <1>1, CallsFacts DEF Sends
  <2>2. Go(s, "done")
    BY <2>1 DEF Fails
  <2>3. /\ PlacedAt(s)' /\ at' \in [Side -> Place] /\ at'[Peer(s)] = at[Peer(s)]
        /\ at'[s].pc = "done" /\ at'[s].call = at[s].call /\ at'[s].part = at[s].part
    BY <1>2, <1>5, <2>2, GoPlaced
  <2>4. ~(s = "client" /\ Receives(s))
    BY <1>2, <1>5
  <2> QED BY <1>3, <2>3, <2>4
<1> QED BY <1>2, <1>4, <1>5 DEF Side

\* A failing step that stores nothing.
LEMMA FailsBase ==
  ASSUME Base, NEW s \in Side, Fails(s),
         at[s].pc \in Writing \cup Reading \cup {"sAck"},
         UNCHANGED <<buffer, heap, cut, history>>, chan' \in [Side -> Seq(Unit)]
  PROVE  Base'
<1>1. TypeOK /\ Placed /\ Filled /\ Turned /\ Memory /\ Integrity
  BY DEF Base
<1>2. /\ ok' \in [Side -> BOOLEAN]
      /\ at' \in [Side -> Place] /\ at'[Peer(s)] = at[Peer(s)] /\ PlacedAt(s)'
      /\ at'[s].call \in {at[s].call, at[s].call + 1}
      /\ at'[s].pc \notin {"rData", "rStop", "sAck", "copy"}
  BY <1>1, FailsMoves
<1>3. FilledAt(s)'
  BY <1>2 DEF FilledAt
<1>4. at'["client"].call \in {at["client"].call, at["client"].call + 1}
  BY <1>2 DEF Side, Peer
<1>5. at'["client"].call <= N + 1 => at["client"].call <= N + 1
  BY <1>1, <1>4, PatternFacts DEF TypeOK, Side, Place
<1>6. HeapTyped' /\ Memory' /\ Integrity' /\ Logged' /\ AckedIsAccepted'
  BY <1>1, <1>5, HeapKept, HistoryKept DEF Base
<1> QED BY <1>1, <1>2, <1>3, <1>6, BaseFrom DEF heap, TypeOK

\* A cut leaves a beginning of what is on its way to either side.
LEMMA CutMoves ==
  ASSUME TypeOK, Cut
  PROVE  /\ chan' \in [Side -> Seq(Unit)] /\ cut' = TRUE /\ ~cut
         /\ \A s \in Side : \E n \in 0..Len(chan[s]) : chan'[s] = SubSeq(chan[s], 1, n)
<1>1. chan \in [Side -> Seq(Unit)]
  BY DEF TypeOK
<1>2. PICK c \in 0..Len(chan["client"]), v \in 0..Len(chan["server"]) :
        chan' = [s \in Side |-> SubSeq(chan[s], 1, IF s = "client" THEN c ELSE v)]
  BY DEF Cut
<1>3. ASSUME NEW s \in Side, NEW n \in 0..Len(chan[s])
      PROVE  SubSeq(chan[s], 1, n) \in Seq(Unit)
  BY <1>1
<1>4. \A s \in Side : (IF s = "client" THEN c ELSE v) \in 0..Len(chan[s])
  BY DEF Side
<1> QED BY <1>2, <1>3, <1>4 DEF Cut

\* A cut keeps what holds wherever the two sides are.
LEMMA CutBase ==
  ASSUME Base, Cut
  PROVE  Base'
<1>1. TypeOK /\ Placed /\ Filled /\ Turned /\ Memory /\ Integrity
  BY DEF Base
<1>2. UNCHANGED <<at, buffer, heap, ok, history>>
  BY DEF Cut
<1>3. chan' \in [Side -> Seq(Unit)] /\ cut' \in BOOLEAN
  BY <1>1, CutMoves
<1>4. HeapTyped' /\ Memory' /\ Integrity' /\ Logged' /\ AckedIsAccepted'
  BY <1>1, <1>2, HeapKept, HistoryKept DEF Base
<1>5. FilledAt("client")'
  <2>1. FilledAt("client")
    BY <1>1 DEF Filled, Side
  <2> QED BY <1>2, <2>1 DEF FilledAt, heap, Wanted, Fn, Incoming, Load, Challenge, Units, Id, Peer
<1>6. PlacedAt("client")'
  <2>1. PlacedAt("client")
    BY <1>1 DEF Placed, Side
  <2> QED BY <1>2, <2>1 DEF PlacedAt, Sends, Receives, Finished, Fn
<1>7. "client" \in Side
  BY DEF Side
<1> QED BY <1>1, <1>2, <1>3, <1>4, <1>5, <1>6, <1>7, BaseFrom DEF heap, TypeOK

\* Waiting for an acknowledgement keeps it; IInv says that the one read was sent for
\* the item that the sender is at.
LEMMA WaitBase ==
  ASSUME IInv, NEW s \in Side, waitForAck(s)
  PROVE  Base'
<1>1. /\ Base /\ TypeOK /\ Placed /\ Filled /\ Turned /\ Memory /\ Integrity /\ Logged
      /\ AckedIsAccepted
  BY DEF IInv, Base
<1>2. at[s].pc = "wAck" /\ Arrived(s) /\ Take(s) /\ chan' \in [Side -> Seq(Unit)]
  BY <1>1, TakeMoves DEF waitForAck
<1>3. UNCHANGED <<buffer, heap, cut, accepted>>
  BY DEF waitForAck
<1>4. CASE Head(chan[s]) # ACK
  <2>1. Fails(s) /\ UNCHANGED <<buffer, heap, cut, history>>
    BY <1>3, <1>4 DEF waitForAck, IsAck, history
  <2> QED BY <1>1, <1>2, <2>1, FailsBase DEF Writing
<1>5. CASE Head(chan[s]) = ACK
  <2>1. /\ acked' = Append(acked, <<Peer(s), Fn(s), at[s].part>>)
        /\ NextPart(s, "wStart") /\ UNCHANGED ok
    BY <1>5 DEF waitForAck, IsAck
  <2>2. Sends(s) /\ Fn(s) \in Functions /\ at[s].part \in 0..4 /\ Peer(s) \in Side
    BY <1>1, <1>2, Kinds, FnFacts, PatternFacts DEF TypeOK, Place, Writing, Peer, Side
  <2>3. /\ PlacedAt(s)' /\ at' \in [Side -> Place] /\ at'[Peer(s)] = at[Peer(s)]
        /\ at'[s].call \in {at[s].call, at[s].call + 1}
        /\ at'[s].pc \notin {"rData", "rStop", "sAck", "copy"}
    BY <1>1, <2>1, <2>2, NextPartPlaced
  <2>4. FilledAt(s)'
    BY <2>3 DEF FilledAt
  <2>5. at'["client"].call \in {at["client"].call, at["client"].call + 1}
    BY <2>3 DEF Side, Peer
  <2>6. at'["client"].call <= N + 1 => at["client"].call <= N + 1
    BY <1>1, <2>5, PatternFacts DEF TypeOK, Side, Place
  <2>7. HeapTyped' /\ Memory' /\ Integrity'
    BY <1>1, <1>3, <2>6, HeapKept
  <2>8. Logged' /\ AckedIsAccepted'
    <3>1. OneAhead /\ LastIs(Peer(s), Fn(s), at[s].part)
      BY <1>2, <1>5, AckMeans
    <3> DEFINE item == <<Peer(s), Fn(s), at[s].part>>
    <3>2. item \in Side \X Functions \X (0..4)
      BY <2>2
    <3>3. SubSeq(accepted[Len(accepted)], 1, 3) = item
      BY <3>1 DEF LastIs
    <3> HIDE DEF item
    <3>4. /\ acked \in Seq(Side \X Functions \X (0..4))
          /\ Len(acked) \in Nat /\ Len(accepted) = Len(acked) + 1
      BY <1>1, <3>1 DEF Logged, OneAhead
    <3>5. acked' = Append(acked, item) /\ accepted' = accepted
      BY <1>3, <2>1 DEF item
    <3>6. /\ acked' \in Seq(Side \X Functions \X (0..4)) /\ Len(acked') = Len(acked) + 1
          /\ acked'[Len(acked) + 1] = item
          /\ \A k \in 1..Len(acked) : acked'[k] = acked[k]
      BY <3>2, <3>4, <3>5, AppendProperties
    <3>7. Logged'
      BY <1>1, <3>5, <3>6 DEF Logged
    <3>8. ASSUME NEW k \in 1..Len(acked) + 1
          PROVE  acked'[k] = SubSeq(accepted[k], 1, 3)
      <4>1. CASE k = Len(acked) + 1
        BY <3>3, <3>4, <3>6, <4>1
      <4>2. CASE k \in 1..Len(acked)
        BY <1>1, <3>6, <4>2 DEF AckedIsAccepted
      <4> QED BY <3>4, <4>1, <4>2
    <3>9. Len(accepted) - (Len(acked) + 1) = 0
      BY <3>4
    <3> QED BY <3>5, <3>6, <3>7, <3>8, <3>9 DEF AckedIsAccepted
  <2> QED BY <1>1, <1>2, <1>3, <2>1, <2>3, <2>4, <2>7, <2>8, BaseFrom DEF heap, TypeOK
<1> QED BY <1>4, <1>5

\* initFunc keeps it, and takes the client to the first portion of its function.
LEMMA InitFuncBase ==
  ASSUME Base, initFunc
  PROVE  /\ Base' /\ at' \in [Side -> Place] /\ at'["server"] = at["server"]
         /\ at'["client"].pc = "rStart" /\ at'["client"].call = at["client"].call
         /\ at'["client"].part = 0 /\ Receives("client") /\ Fn("client") = at["client"].call
         /\ \A f \in Functions : f # at["client"].call => data'["client"][f] = data["client"][f]
<1>1. TypeOK /\ Placed /\ Filled /\ Turned /\ Memory /\ Integrity /\ "client" \in Side
      /\ at["client"].pc = "initFunc" /\ Go("client", "rStart")
  BY DEF Base, initFunc, Side
<1>2. Receives("client") /\ at["client"].part = 0
  BY <1>1, Kinds DEF Placed, PlacedAt
<1>3. /\ PlacedAt("client")' /\ at' \in [Side -> Place] /\ at'["server"] = at["server"]
      /\ at'["client"].pc = "rStart" /\ at'["client"].call = at["client"].call
      /\ at'["client"].part = at["client"].part
  BY <1>1, <1>2, GoPlaced DEF Reading, Peer
<1>4. FilledAt("client")'
  BY <1>3 DEF FilledAt
<1> DEFINE f == Fn("client")
<1>5. f \in Functions /\ f = at["client"].call /\ at["client"].call <= N
  <2>1. at \in [Side -> Place] /\ N \in Nat /\ Functions = 1..N
    BY <1>1, PatternFacts DEF TypeOK
  <2>2. f = at["client"].call
    BY <1>2, <2>1, FnFacts
  <2> QED BY <1>2, <2>1, <2>2 DEF Receives
<1>6. PICK new \in {[p \in PortionsOf(f) |-> Zeros(f, p)], [p \in PortionsOf(f) |-> NULL]} :
        data' = [data EXCEPT !["client"][f] = new]
  BY DEF initFunc
<1> HIDE DEF f
<1>7. /\ new \in Seq(Seq(Unit)) /\ DOMAIN new = PortionsOf(f)
      /\ \A p \in PortionsOf(f) : Len(new[p]) \in {0, Pattern[f][p]} /\ new[p] \in {NULL, Zeros(f, p)}
      /\ \/ \A p \in PortionsOf(f) : new[p] = NULL
         \/ \A p \in PortionsOf(f) : new[p] # NULL
  <2>1. PortionsOf(f) = 1..Last(f) /\ Last(f) \in Nat
    BY <1>5, PatternFacts
  <2>2. \A p \in PortionsOf(f) : /\ Zeros(f, p) \in Seq(Unit) /\ Len(Zeros(f, p)) = Pattern[f][p]
                                /\ Pattern[f][p] >= 2 /\ Pattern[f][p] \in Nat
    BY <1>5, UnitFacts, PatternFacts
  <2>3. NULL \in Seq(Unit) /\ Len(NULL) = 0
    BY DEF NULL
  <2>4. \A p \in PortionsOf(f) : Zeros(f, p) # NULL
    BY <2>2, <2>3
  <2>5. DOMAIN new = PortionsOf(f) /\ \A p \in PortionsOf(f) : new[p] \in {NULL, Zeros(f, p)}
    OBVIOUS
  <2>6. new \in [1..Last(f) -> Seq(Unit)]
    BY <2>1, <2>2, <2>3
  <2>7. new \in Seq(Seq(Unit))
    BY <2>1, <2>6, Tuple
  <2>8. \A p \in PortionsOf(f) : Len(new[p]) \in {0, Pattern[f][p]}
    BY <2>2, <2>3, <2>5
  <2>9. \/ \A p \in PortionsOf(f) : new[p] = NULL
        \/ \A p \in PortionsOf(f) : new[p] # NULL
    BY <2>4
  <2> QED BY <2>5, <2>7, <2>8, <2>9
<1>8. /\ data' \in [Side -> [Functions -> Seq(Seq(Unit))]]
      /\ data'["server"] = data["server"] /\ data'["client"][f] = new
      /\ \A g \in Functions : g # f => data'["client"][g] = data["client"][g]
  BY <1>1, <1>5, <1>6, <1>7 DEF TypeOK, Side
<1>9. UNCHANGED <<buffer, func, chan, cut, ok, history>>
  BY DEF initFunc
<1>10. HeapTyped'
  <2>1. ASSUME NEW s \in Side, NEW g \in Functions
        PROVE  /\ DOMAIN data'[s][g] = PortionsOf(g)
               /\ \A p \in PortionsOf(g) : Len(data'[s][g][p]) \in {0, Pattern[g][p]}
    <3>1. CASE s = "client" /\ g = f
      BY <1>7, <1>8, <3>1
    <3>2. CASE ~(s = "client" /\ g = f)
      <4>1. data'[s][g] = data[s][g]
        BY <1>8, <3>2 DEF Side
      <4> QED BY <1>1, <4>1 DEF TypeOK
    <3> QED BY <3>1, <3>2
  <2> QED BY <1>1, <1>8, <1>9, <2>1 DEF HeapTyped, TypeOK
<1>11. at["client"].call <= N + 1
  BY <1>1, <1>5, PatternFacts DEF TypeOK, Side, Place
<1>12. Memory'
  <2>1. ASSUME NEW g \in Functions
        PROVE  /\ \/ \A p \in PortionsOf(g) : data'["client"][g][p] = NULL
                  \/ \A p \in PortionsOf(g) : data'["client"][g][p] # NULL
               /\ \A p \in PortionsOf(g) :
                    /\ data'["server"][g][p] # NULL
                    /\ data'["server"][g][p] = Zeros(g, p)
    <3>1. \A p \in PortionsOf(g) :
            data'["server"][g][p] # NULL /\ data'["server"][g][p] = Zeros(g, p)
      BY <1>1, <1>8, <1>11 DEF Memory
    <3>2. CASE g = f
      BY <1>7, <1>8, <3>1, <3>2
    <3>3. CASE g # f
      <4>1. data'["client"][g] = data["client"][g]
        BY <1>8, <3>3
      <4>2. \/ \A p \in PortionsOf(g) : data["client"][g][p] = NULL
            \/ \A p \in PortionsOf(g) : data["client"][g][p] # NULL
        BY <1>1 DEF Memory
      <4> QED BY <3>1, <4>1, <4>2
    <3> QED BY <3>2, <3>3
  <2> QED BY <2>1 DEF Memory
<1>13. Integrity'
  <2>1. ASSUME NEW g \in Functions, NEW p \in PortionsOf(g)
        PROVE  /\ data'["client"][g][p] \in
                     {NULL, Zeros(g, p), Challenge(g, p), Response(g, p)}
               /\ data'["server"][g][p] = Zeros(g, p)
    <3>1. data["server"][g][p] = Zeros(g, p)
      BY <1>1, <1>11 DEF Memory
    <3> QED BY <1>1, <1>7, <1>8, <3>1 DEF Integrity
  <2>2. func' = func
    BY <1>9
  <2> QED BY <1>1, <2>1, <2>2 DEF Integrity
<1>14. Logged' /\ AckedIsAccepted'
  BY <1>9, HistoryKept DEF Base
<1>15. Base'
  BY <1>1, <1>3, <1>4, <1>8, <1>9, <1>10, <1>11, <1>12, <1>13, <1>14, BaseFrom DEF TypeOK, Peer
<1> QED BY <1>2, <1>3, <1>5, <1>8, <1>15 DEF f

\* recStream: a start sequence, a unit of the load, the stop sequence, or a failure.
LEMMA RecBase ==
  ASSUME IInv, NEW s \in Side, recStream(s)
  PROVE  Base'
<1>1. /\ Base /\ TypeOK /\ Placed /\ Filled /\ Turned /\ Memory /\ Integrity /\ Logged
      /\ AckedIsAccepted
  BY DEF IInv, Base
<1>2. /\ Arrived(s) /\ Take(s) /\ at[s].pc \in Reading
      /\ chan' \in [Side -> Seq(Unit)] /\ Head(chan[s]) \in Unit
      /\ UNCHANGED <<heap, cut, acked>>
  BY <1>1, TakeMoves DEF recStream, Reading
<1>3. /\ Receives(s) /\ Fn(s) \in Functions /\ at[s].part \in {0} \cup PortionsOf(Fn(s))
      /\ at[s].part \in 0..4 /\ Wanted(s) = Size(Fn(s), at[s].part) /\ Wanted(s) \in Nat
      /\ Wanted(s) >= 1
  <2>1. Receives(s)
    BY <1>1, <1>2, Kinds
  <2>2. /\ Fn(s) \in Functions /\ at[s].part \in {0} \cup PortionsOf(Fn(s))
        /\ Wanted(s) = Size(Fn(s), at[s].part)
    BY <1>1, <2>1, OutgoingFacts
  <2>3. Wanted(s) \in Nat /\ Wanted(s) >= 1
    BY <2>2, PatternFacts DEF Size
  <2> QED BY <1>1, <2>1, <2>2, <2>3 DEF TypeOK, Place
<1>4. s = "server" => at["client"].call > N + 1
  <2>1. CASE at[s].pc = "rStart" /\ s = "server"
    <3>1. N \in Nat \ {0} /\ at["client"].call \in Nat /\ ~Sends(s) /\ ~Finished(s)
      BY <1>1, <1>3, Kinds, PatternFacts DEF TypeOK, Side, Place
    <3>2. InSync
      BY <1>3, <2>1, <3>1, PatternFacts DEF IInv, Derailed, Lost, Receives
    <3>3. ASSUME NEW x \in Side, \/ Together(x, Peer(x)) \/ Behind(x, Peer(x)) \/ Ahead(x, Peer(x))
          PROVE  at["client"].call > N + 1
      <4>1. x = "client" /\ Peer(x) = "server"
        BY <2>1, <3>1, <3>3 DEF Together, Behind, Ahead, SameItem, Side, Peer
      <4>2. Together("client", "server")
        BY <1>2, <2>1, <3>3, <4>1 DEF Behind, Ahead, Arrived
      <4> QED BY <3>1, <4>2 DEF Together, SameItem, Sends
    <3>4. ~(ClientTurns \/ ServerTurns \/ AllThrough)
      BY <1>2, <1>3, <2>1, <3>1 DEF ClientTurns, ServerTurns, AllThrough, Arrived, Receives, Side
    <3> QED BY <3>2, <3>3, <3>4, SyncCases
  <2>2. CASE at[s].pc # "rStart" /\ s = "server"
    BY <1>1, <1>2, <2>2 DEF Turned, Reading
  <2> QED BY <2>1, <2>2
<1>5. CASE Fails(s) /\ UNCHANGED <<buffer, accepted>>
  <2>1. UNCHANGED <<buffer, heap, cut, history>>
    BY <1>2, <1>5 DEF history
  <2> QED BY <1>1, <1>2, <1>5, <2>1, FailsBase
<1>6. ASSUME NEW pc \in Reading \cup {"sAck"}, Go(s, pc), UNCHANGED ok,
             buffer' \in [Side -> Seq(Unit)], buffer'[Peer(s)] = buffer[Peer(s)],
             pc = "rData" => Len(buffer'[s]) < Wanted(s),
             pc = "rStop" => Len(buffer'[s]) = Wanted(s),
             pc = "sAck" => buffer'[s] = Incoming(s),
             Logged', AckedIsAccepted'
      PROVE  Base'
  <2>1. /\ PlacedAt(s)' /\ at' \in [Side -> Place] /\ at'[Peer(s)] = at[Peer(s)]
        /\ at'[s].pc = pc /\ at'[s].call = at[s].call /\ at'[s].part = at[s].part
    BY <1>1, <1>3, <1>6, GoPlaced
  <2>2. Fn(s)' = Fn(s) /\ Wanted(s)' = Wanted(s)
    BY <2>1, SameCall, SameItemOf
  <2>3. Incoming(s)' = Incoming(s)
    BY <1>2, <2>1, <2>2 DEF Incoming, Load, heap, Challenge, Units, Id, Peer
  <2>4. FilledAt(s)'
    BY <1>6, <2>1, <2>2, <2>3 DEF FilledAt, Reading
  <2>5. at'["client"].call = at["client"].call
    BY <2>1 DEF Side, Peer
  <2>6. HeapTyped' /\ Memory' /\ Integrity'
    BY <1>1, <1>2, <2>5, HeapKept
  <2> QED BY <1>1, <1>2, <1>4, <1>6, <2>1, <2>4, <2>6, BaseFrom DEF heap, TypeOK
<1>7. CASE /\ at[s].pc = "rStart" /\ buffer' = [buffer EXCEPT ![s] = <<>>]
           /\ Go(s, IF Head(chan[s]) = S THEN "rData" ELSE "rStart")
           /\ UNCHANGED <<ok, accepted>>
  <2>1. /\ buffer' \in [Side -> Seq(Unit)] /\ buffer'[Peer(s)] = buffer[Peer(s)]
        /\ buffer'[s] = <<>> /\ Len(<<>>) = 0
    BY <1>1, <1>7 DEF TypeOK, Peer, Side
  <2>2. Logged' /\ AckedIsAccepted'
    BY <1>1, <1>2, <1>7, HistoryKept DEF history
  <2> DEFINE pc == IF Head(chan[s]) = S THEN "rData" ELSE "rStart"
  <2>3. pc \in {"rStart", "rData"} /\ Go(s, pc)
    BY <1>7
  <2> HIDE DEF pc
  <2>4. 0 < Wanted(s)
    BY <1>3
  <2> QED BY <1>6, <1>7, <2>1, <2>2, <2>3, <2>4 DEF Reading
<1>8. CASE /\ at[s].pc = "rData" /\ buffer' = [buffer EXCEPT ![s] = Append(@, Head(chan[s]))]
           /\ Go(s, IF Len(buffer'[s]) = Wanted(s) THEN "rStop" ELSE "rData")
           /\ UNCHANGED <<ok, accepted>>
  <2>1. buffer[s] \in Seq(Unit) /\ Len(buffer[s]) < Wanted(s) /\ Len(buffer[s]) \in Nat
    BY <1>1, <1>8 DEF TypeOK, Filled, FilledAt
  <2>2. /\ buffer' \in [Side -> Seq(Unit)] /\ buffer'[Peer(s)] = buffer[Peer(s)]
        /\ Len(buffer'[s]) = Len(buffer[s]) + 1
    <3>1. Append(buffer[s], Head(chan[s])) \in Seq(Unit)
          /\ Len(Append(buffer[s], Head(chan[s]))) = Len(buffer[s]) + 1
      BY <1>2, <2>1, AppendProperties
    <3> QED BY <1>1, <1>8, <3>1 DEF TypeOK, Peer, Side
  <2>3. Logged' /\ AckedIsAccepted'
    BY <1>1, <1>2, <1>8, HistoryKept DEF history
  <2> DEFINE pc == IF Len(buffer'[s]) = Wanted(s) THEN "rStop" ELSE "rData"
  <2>4. /\ pc \in {"rStop", "rData"} /\ Go(s, pc)
        /\ pc = "rStop" => Len(buffer'[s]) = Wanted(s)
        /\ pc = "rData" => Len(buffer'[s]) < Wanted(s)
    BY <1>3, <1>8, <2>1, <2>2
  <2> HIDE DEF pc
  <2> QED BY <1>6, <1>8, <2>2, <2>3, <2>4 DEF Reading
<1>9. CASE /\ at[s].pc = "rStop" /\ Head(chan[s]) = E
           /\ accepted' = Append(accepted, <<s, Fn(s), at[s].part, buffer[s]>>)
           /\ Go(s, "sAck") /\ UNCHANGED <<buffer, ok>>
  <2>1. Held /\ Together(Peer(s), s)
    BY <1>2, <1>9, AcceptMeans
  <2>2. /\ Level
        /\ \A k \in 1..Len(buffer[s]) : buffer[s][k] = Incoming(s)[k]
    BY <1>9, <2>1 DEF Together
  <2>3. buffer[s] \in Seq(Unit) /\ Len(buffer[s]) = Wanted(s)
    BY <1>1, <1>9 DEF TypeOK, Filled, FilledAt
  <2>4. Incoming(s) \in Seq(Unit) /\ Len(Incoming(s)) = Size(Fn(s), at[s].part)
    <3>1. Peer(s) \in Side /\ (Peer(s) = "client" => s = "server")
      BY DEF Peer, Side
    <3>2. Peer(s) = "client" /\ at[s].part # 0 =>
            data["client"][Fn(s)][at[s].part] # NULL
      BY <1>1, <1>3, <1>4, <2>1, <3>1, HeldResults
    <3> QED BY <1>1, <1>3, <3>1, <3>2, LoadFacts DEF Incoming
  <2>5. buffer[s] = Incoming(s)
    BY <1>3, <2>2, <2>3, <2>4, SeqEqual
  <2>6. Logged' /\ AckedIsAccepted'
    <3> DEFINE item == <<s, Fn(s), at[s].part, buffer[s]>>
               Items == Side \X Functions \X (0..4) \X Seq(Unit)
    <3>1. item \in Items
      BY <1>3, <2>3
    <3>2. accepted \in Seq(Items) /\ accepted' = Append(accepted, item) /\ acked' = acked
      BY <1>1, <1>2, <1>9 DEF Logged
    <3>3. Len(acked) \in Nat /\ Len(accepted) = Len(acked)
      BY <1>1, <2>2 DEF Logged, Level
    <3> HIDE DEF item
    <3>4. /\ accepted' \in Seq(Items) /\ Len(accepted') = Len(accepted) + 1
          /\ \A k \in 1..Len(accepted) : accepted'[k] = accepted[k]
      BY <3>1, <3>2, AppendProperties
    <3>5. Logged'
      BY <1>1, <3>2, <3>4 DEF Logged
    <3>6. \A k \in 1..Len(acked) : acked'[k] = SubSeq(accepted'[k], 1, 3)
      BY <1>1, <3>2, <3>3, <3>4 DEF AckedIsAccepted
    <3>7. (Len(acked) + 1) - Len(acked) = 1
      BY <3>3
    <3> QED BY <3>2, <3>3, <3>4, <3>5, <3>6, <3>7 DEF AckedIsAccepted
  <2>7. buffer' \in [Side -> Seq(Unit)] /\ buffer' = buffer
    BY <1>1, <1>9 DEF TypeOK
  <2> QED BY <1>6, <1>9, <2>5, <2>6, <2>7
<1> QED BY <1>5, <1>7, <1>8, <1>9 DEF recStream

\* One portion of the heap is replaced.
LEMMA StorePortion ==
  ASSUME TypeOK, NEW s \in Side, NEW f \in Functions, NEW p \in PortionsOf(f),
         NEW v \in Seq(Unit), Len(v) = Pattern[f][p], func' = func,
         data' = [data EXCEPT ![s][f][p] = v]
  PROVE  /\ HeapTyped' /\ data'[s][f][p] = v
         /\ \A z \in Side, g \in Functions : \A q \in PortionsOf(g) :
              ~(z = s /\ g = f /\ q = p) => data'[z][g][q] = data[z][g][q]
         /\ data'[Peer(s)] = data[Peer(s)]
<1>1. /\ data \in [Side -> [Functions -> Seq(Seq(Unit))]]
      /\ \A z \in Side, g \in Functions : DOMAIN data[z][g] = PortionsOf(g)
      /\ \A z \in Side, g \in Functions : \A q \in PortionsOf(g) :
           Len(data[z][g][q]) \in {0, Pattern[g][q]}
      /\ func \in [Side -> [Functions -> {Id(g) : g \in Functions}]]
  BY DEF TypeOK
<1>2. Peer(s) \in Side /\ Peer(s) # s
  BY DEF Peer, Side
<1> DEFINE col == [data[s][f] EXCEPT ![p] = v]
           row == [data[s] EXCEPT ![f] = col]
<1>3. data[s][f] \in Seq(Seq(Unit)) /\ p \in 1..Len(data[s][f]) /\ DOMAIN data[s][f] = PortionsOf(f)
  BY <1>1
<1>4. /\ col \in Seq(Seq(Unit)) /\ DOMAIN col = PortionsOf(f) /\ col[p] = v
      /\ \A q \in PortionsOf(f) : q # p => col[q] = data[s][f][q]
  BY <1>3, ExceptSeq
<1>5. data' = [data EXCEPT ![s] = row]
  BY <1>1
<1> HIDE DEF col
<1>6. /\ row \in [Functions -> Seq(Seq(Unit))] /\ row[f] = col
      /\ \A g \in Functions : g # f => row[g] = data[s][g]
  BY <1>1, <1>4
<1> HIDE DEF row
<1>7. /\ data' \in [Side -> [Functions -> Seq(Seq(Unit))]] /\ data'[s] = row
      /\ \A z \in Side : z # s => data'[z] = data[z]
  BY <1>1, <1>5, <1>6
<1>8. ASSUME NEW z \in Side, NEW g \in Functions
      PROVE  /\ DOMAIN data'[z][g] = PortionsOf(g)
             /\ \A q \in PortionsOf(g) :
                  /\ Len(data'[z][g][q]) \in {0, Pattern[g][q]}
                  /\ ~(z = s /\ g = f /\ q = p) => data'[z][g][q] = data[z][g][q]
  <2>1. CASE z = s /\ g = f
    <3>1. data'[z][g] = col
      BY <1>6, <1>7, <2>1
    <3>2. ASSUME NEW q \in PortionsOf(g)
          PROVE  /\ Len(col[q]) \in {0, Pattern[g][q]}
                 /\ q # p => col[q] = data[z][g][q]
      BY <1>1, <1>4, <2>1
    <3> QED BY <1>4, <2>1, <3>1, <3>2
  <2>2. CASE ~(z = s /\ g = f)
    <3>1. data'[z][g] = data[z][g]
      BY <1>6, <1>7, <2>2
    <3> QED BY <1>1, <2>2, <3>1
  <2> QED BY <2>1, <2>2
<1>9. HeapTyped'
  BY <1>1, <1>7, <1>8 DEF HeapTyped
<1> QED BY <1>2, <1>4, <1>6, <1>7, <1>8, <1>9

\* What is copied is the item; the client has memory for it.
LEMMA CopyBase ==
  ASSUME IInv, NEW s \in Side, Copy(s)
  PROVE  /\ Base'
         /\ \A f \in Functions : \A p \in PortionsOf(f) :
              IF s = "client" /\ f = Fn(s) /\ p = at[s].part
              THEN data'["client"][f][p] = Challenge(f, p)
              ELSE data'["client"][f][p] = data["client"][f][p]
         /\ at[s].part = 0 \/ s = "server" => data'["client"] = data["client"]
<1>1. /\ Base /\ TypeOK /\ Placed /\ Filled /\ Turned /\ Memory /\ Integrity /\ Logged
      /\ AckedIsAccepted /\ N \in Nat \ {0} /\ at \in [Side -> Place]
  BY PatternFacts DEF IInv, Base, TypeOK
<1>2. at[s].pc = "copy" /\ NextPart(s, "rStart") /\ UNCHANGED <<buffer, chan, cut, ok, history>>
  BY DEF Copy
<1>3. InSync /\ Held
  BY <1>2, CopyMeans DEF InSync
<1>4. Receives(s) /\ Fn(s) \in Functions /\ at[s].part \in {0} \cup PortionsOf(Fn(s))
  BY <1>1, <1>2, Kinds, OutgoingFacts
<1>5. buffer[s] = Load(Peer(s), Fn(s), at[s].part) /\ buffer[s] \in Seq(Unit)
  BY <1>1, <1>2 DEF Filled, FilledAt, Incoming, TypeOK
<1>6. /\ PlacedAt(s)' /\ at' \in [Side -> Place] /\ at'[Peer(s)] = at[Peer(s)]
      /\ at'[s].call \in {at[s].call, at[s].call + 1}
      /\ at'[s].pc \notin {"rData", "rStop", "sAck", "copy"}
  BY <1>1, <1>2, <1>4, NextPartPlaced
<1>7. FilledAt(s)'
  BY <1>6 DEF FilledAt
<1>8. Logged' /\ AckedIsAccepted'
  BY <1>1, <1>2, HistoryKept
<1>9. s = "client" => at["client"].call \in 1..N
  BY <1>4 DEF Receives
<1>10. s = "server" => at["client"].call > N + 1 /\ at'["client"] = at["client"]
  BY <1>1, <1>2, <1>6 DEF Turned, Peer, Side
<1>11. at'["client"].call <= N + 1 => at["client"].call <= N + 1
  BY <1>1, <1>9, <1>10 DEF Side
<1>12. ASSUME HeapTyped', Memory', Integrity',
              data'["client"] = data["client"] \/ s = "client"
       PROVE  Base'
  <2>1. s = "client" => at["client"].call <= N + 1
    BY <1>1, <1>9
  <2> QED BY <1>1, <1>2, <1>6, <1>7, <1>8, <1>12, <2>1, BaseFrom DEF TypeOK
<1>13. CASE at[s].part = 0
  <2>1. func' = [func EXCEPT ![s][Fn(s)] = buffer[s][1]] /\ data' = data
    BY <1>13 DEF Copy
  <2>2. buffer[s][1] = Id(Fn(s)) /\ func[s][Fn(s)] = Id(Fn(s))
    BY <1>1, <1>4, <1>5, <1>13 DEF Load, Integrity
  <2>3. func' = func
    BY <1>1, <2>1, <2>2 DEF TypeOK
  <2>4. HeapTyped' /\ Memory' /\ Integrity'
    BY <1>1, <1>11, <2>1, <2>3, HeapKept DEF heap
  <2>5. \A p \in PortionsOf(Fn(s)) : p # 0
    BY DEF PortionsOf, Portions
  <2> QED BY <1>12, <1>13, <2>1, <2>4, <2>5
<1>14. CASE at[s].part # 0
  <2> DEFINE f == Fn(s)
             p == at[s].part
             v == buffer[s]
  <2>1. func' = func /\ data' = [data EXCEPT ![s][f][p] = v]
    BY <1>14 DEF Copy
  <2>2. f \in Functions /\ p \in PortionsOf(f) /\ p \in Portions
    BY <1>4, <1>14 DEF PortionsOf
  <2>3. s = "client" => /\ v = Challenge(f, p) /\ f = at["client"].call
                        /\ data["client"][f][p] # NULL
    <3>1. s = "client" => f = at["client"].call
      BY <1>1, <1>4, FnFacts
    <3>2. p > 0
      BY <2>2 DEF Portions
    <3>3. s = "client" => v = Challenge(f, p)
      BY <1>5, <1>14 DEF Load, Peer
    <3> QED BY <1>3, <2>2, <3>1, <3>2, <3>3 DEF Held
  <2>4. s = "server" => v = data["client"][f][p] /\ v # NULL
    <3>1. s = "server" => v = data["client"][f][p]
      BY <1>5, <1>14 DEF Load, Peer
    <3> QED BY <1>1, <1>3, <1>10, <2>2, <3>1, HeldResults
  <2>5. v \in Seq(Unit) /\ Len(v) = Pattern[f][p] /\ v # NULL
    <3>1. s = "client" => Len(v) = Pattern[f][p] /\ v # NULL
      <4>1. Len(Challenge(f, p)) = Pattern[f][p] /\ Pattern[f][p] >= 2 /\ Len(NULL) = 0
        BY <2>2, UnitFacts, PatternFacts DEF Challenge, NULL
      <4> QED BY <2>3, <4>1
    <3>2. s = "server" => Len(v) = Pattern[f][p]
      <4>1. s = "server" => data["client"][f][p] \in {Challenge(f, p), Response(f, p)}
        BY <1>1, <1>3, <1>10, <2>2, HeldResults
      <4>2. Len(Challenge(f, p)) = Pattern[f][p] /\ Len(Response(f, p)) = Pattern[f][p]
        BY <2>2, UnitFacts DEF Challenge, Response
      <4> QED BY <2>4, <4>1, <4>2
    <3> QED BY <1>5, <2>4, <3>1, <3>2 DEF Side
  <2> HIDE DEF f, p, v
  <2>6. /\ HeapTyped' /\ data'[s][f][p] = v
        /\ \A z \in Side, g \in Functions : \A q \in PortionsOf(g) :
             ~(z = s /\ g = f /\ q = p) => data'[z][g][q] = data[z][g][q]
        /\ data'[Peer(s)] = data[Peer(s)]
    <3>1. /\ TypeOK /\ s \in Side /\ f \in Functions /\ p \in PortionsOf(f)
          /\ v \in Seq(Unit) /\ Len(v) = Pattern[f][p] /\ func' = func
          /\ data' = [data EXCEPT ![s][f][p] = v]
      BY <1>1, <2>1, <2>2, <2>5
    <3> QED BY <3>1, StorePortion, ZenonT(40)
  <2>7. /\ s = "client" => data'["server"] = data["server"]
        /\ s = "server" => data'["client"] = data["client"]
    BY <2>6 DEF Peer
  <2>8. Memory'
    <3>1. ASSUME NEW g \in Functions
          PROVE  /\ \/ \A q \in PortionsOf(g) : data'["client"][g][q] = NULL
                    \/ \A q \in PortionsOf(g) : data'["client"][g][q] # NULL
                 /\ \A q \in PortionsOf(g) :
                      /\ data'["server"][g][q] # NULL
                      /\ at'["client"].call <= N + 1 => data'["server"][g][q] = Zeros(g, q)
      <4>1. /\ \/ \A q \in PortionsOf(g) : data["client"][g][q] = NULL
               \/ \A q \in PortionsOf(g) : data["client"][g][q] # NULL
            /\ \A q \in PortionsOf(g) :
                 /\ data["server"][g][q] # NULL
                 /\ at["client"].call <= N + 1 => data["server"][g][q] = Zeros(g, q)
        BY <1>1 DEF Memory
      <4>2. CASE s = "client"
        <5>1. \A q \in PortionsOf(g) : data["client"][g][q] # NULL => data'["client"][g][q] # NULL
          BY <2>5, <2>6, <4>2 DEF Side
        <5>2. \A q \in PortionsOf(g) : g # f => data'["client"][g][q] = data["client"][g][q]
          BY <2>6, <4>2
        <5>3. g = f => \A q \in PortionsOf(g) : data["client"][g][q] # NULL
          BY <2>2, <2>3, <4>1, <4>2
        <5>4. g = f => \A q \in PortionsOf(g) : data'["client"][g][q] # NULL
          BY <5>1, <5>3
        <5>5. \/ \A q \in PortionsOf(g) : data'["client"][g][q] = NULL
              \/ \A q \in PortionsOf(g) : data'["client"][g][q] # NULL
          BY <4>1, <5>2, <5>4
        <5> QED BY <1>11, <2>7, <4>1, <4>2, <5>5
      <4>3. CASE s = "server"
        <5>1. ~(at'["client"].call <= N + 1)
          BY <1>1, <1>10, <4>3 DEF Place, Side
        <5>2. \A q \in PortionsOf(g) : data'["server"][g][q] # NULL
          BY <2>5, <2>6, <4>1, <4>3 DEF Side
        <5> QED BY <2>7, <4>1, <4>3, <5>1, <5>2
      <4> QED BY <4>2, <4>3 DEF Side
    <3> QED BY <3>1 DEF Memory
  <2>9. Integrity'
    <3>1. ASSUME NEW g \in Functions, NEW q \in PortionsOf(g)
          PROVE  /\ data'["client"][g][q] \in
                       {NULL, Zeros(g, q), Challenge(g, q), Response(g, q)}
                 /\ data'["server"][g][q] \in {Zeros(g, q), data'["client"][g][q]}
      <4>1. /\ data["client"][g][q] \in {NULL, Zeros(g, q), Challenge(g, q), Response(g, q)}
            /\ data["server"][g][q] \in {Zeros(g, q), data["client"][g][q]}
        BY <1>1 DEF Integrity
      <4>2. CASE s = "client"
        <5>1. data'["server"][g][q] = Zeros(g, q)
          BY <1>1, <1>9, <2>7, <4>2 DEF Memory
        <5>2. data'["client"][g][q] \in {data["client"][g][q], Challenge(g, q)}
          BY <2>3, <2>6, <4>2
        <5> QED BY <4>1, <5>1, <5>2
      <4>3. CASE s = "server"
        <5>1. data'["server"][g][q] \in {data["server"][g][q], data["client"][g][q]}
          BY <2>4, <2>6, <4>3
        <5> QED BY <2>7, <4>1, <4>3, <5>1
      <4> QED BY <4>2, <4>3 DEF Side
    <3> QED BY <1>1, <2>1, <3>1 DEF Integrity
  <2>10. Base'
    BY <1>12, <2>6, <2>7, <2>8, <2>9 DEF Side
  <2>11. \A g \in Functions : \A q \in PortionsOf(g) :
           IF s = "client" /\ g = f /\ q = p
           THEN data'["client"][g][q] = Challenge(g, q)
           ELSE data'["client"][g][q] = data["client"][g][q]
    BY <2>3, <2>6, <2>7 DEF Side
  <2> QED BY <1>14, <2>7, <2>10, <2>11 DEF f, p
<1> QED BY <1>13, <1>14

\* challenge_puf fills or leaves the portions that have memory.
LEMMA PufBase ==
  ASSUME Base, challenge_puf
  PROVE  /\ Base' /\ at["client"].call = N + 1 /\ at'["server"] = at["server"]
         /\ at' \in [Side -> Place]
         /\ \A f \in Functions : \A p \in PortionsOf(f) :
              /\ data'["client"][f][p] \in {data["client"][f][p], Response(f, p)}
              /\ data["client"][f][p] = NULL => data'["client"][f][p] = NULL
         /\ at'["client"].part = 0
         /\ \/ at'["client"].pc = "fault" /\ at'["client"].call = N + 1 /\ Unallocated
            \/ at'["client"].pc = "wStart" /\ at'["client"].call = N + 2
<1>1. /\ TypeOK /\ Placed /\ Filled /\ Turned /\ Memory /\ Integrity /\ N \in Nat \ {0}
      /\ at["client"].pc = "puf" /\ "client" \in Side /\ Peer("client") = "server"
      /\ UNCHANGED <<buffer, func, chan, cut, ok, history>>
  BY PatternFacts DEF Base, challenge_puf, Side, Peer
<1>2. at["client"].call = N + 1
  BY <1>1, Kinds
<1>3. Logged' /\ AckedIsAccepted'
  BY <1>1, HistoryKept DEF Base
<1>4. ASSUME at' \in [Side -> Place], at'["server"] = at["server"],
             at'["client"].call \in {N + 1, N + 2}, PlacedAt("client")', HeapTyped',
             at'["client"].pc \notin {"rData", "rStop", "sAck", "copy"},
             data'["server"] = data["server"],
             \A f \in Functions : \A p \in PortionsOf(f) :
               /\ data'["client"][f][p] \in {data["client"][f][p], Response(f, p)}
               /\ data["client"][f][p] = NULL => data'["client"][f][p] = NULL
      PROVE  Base'
  <2>1. FilledAt("client")'
    BY <1>4 DEF FilledAt
  <2>2. \A f \in Functions : \A p \in PortionsOf(f) : Response(f, p) # NULL
    <3>1. ASSUME NEW f \in Functions, NEW p \in PortionsOf(f) PROVE Response(f, p) # NULL
      <4>1. p \in Portions
        BY DEF PortionsOf
      <4>2. Len(Response(f, p)) = Pattern[f][p] /\ Pattern[f][p] >= 2 /\ Len(NULL) = 0
        BY <4>1, UnitFacts, PatternFacts DEF Response, NULL
      <4> QED BY <4>2
    <3> QED BY <3>1
  <2>3. \A f \in Functions : \A p \in PortionsOf(f) :
          data["server"][f][p] = Zeros(f, p) /\ data["server"][f][p] # NULL
    BY <1>1, <1>2 DEF Memory
  <2>4. Memory'
    <3>1. ASSUME NEW f \in Functions
          PROVE  \/ \A p \in PortionsOf(f) : data'["client"][f][p] = NULL
                 \/ \A p \in PortionsOf(f) : data'["client"][f][p] # NULL
      <4>1. \/ \A p \in PortionsOf(f) : data["client"][f][p] = NULL
            \/ \A p \in PortionsOf(f) : data["client"][f][p] # NULL
        BY <1>1 DEF Memory
      <4> QED BY <1>4, <2>2, <4>1
    <3> QED BY <1>4, <2>3, <3>1 DEF Memory
  <2>5. Integrity'
    <3>1. ASSUME NEW f \in Functions, NEW p \in PortionsOf(f)
          PROVE  data'["client"][f][p] \in
                   {NULL, Zeros(f, p), Challenge(f, p), Response(f, p)}
      BY <1>1, <1>4 DEF Integrity
    <3>2. func' = func
      BY <1>1
    <3> QED BY <1>1, <1>4, <2>3, <3>1, <3>2 DEF Integrity
  <2>6. at'["client"].call \in {at["client"].call, at["client"].call + 1}
    BY <1>1, <1>2, <1>4
  <2>7. at["client"].call <= N + 1
    BY <1>1, <1>2
  <2> QED BY <1>1, <1>3, <1>4, <2>1, <2>4, <2>5, <2>6, <2>7, BaseFrom DEF TypeOK
<1>5. CASE Unallocated /\ Go("client", "fault") /\ UNCHANGED data
  <2>1. /\ PlacedAt("client")' /\ at' \in [Side -> Place] /\ at'["server"] = at["server"]
        /\ at'["client"].pc = "fault" /\ at'["client"].call = at["client"].call
        /\ at'["client"].part = at["client"].part
    BY <1>1, <1>2, <1>5, GoPlaced
  <2>2. at["client"].part = 0
    BY <1>1, <1>2, Kinds DEF Placed, PlacedAt
  <2>3. HeapTyped'
    BY <1>1, <1>5 DEF HeapTyped, TypeOK
  <2> QED BY <1>2, <1>4, <1>5, <2>1, <2>2, <2>3
<1>6. ASSUME NEW n \in 0..N, NextCall("client"), data' = [data EXCEPT !["client"] = Answered(n)]
      PROVE  /\ Base' /\ at'["server"] = at["server"] /\ at' \in [Side -> Place]
             /\ at'["client"].part = 0
             /\ at'["client"].pc = "wStart" /\ at'["client"].call = N + 2
             /\ \A f \in Functions : \A p \in PortionsOf(f) :
                  /\ data'["client"][f][p] \in {data["client"][f][p], Response(f, p)}
                  /\ data["client"][f][p] = NULL => data'["client"][f][p] = NULL
  <2>1. /\ at' \in [Side -> Place] /\ at'["server"] = at["server"]
        /\ at'["client"].call = N + 2 /\ at'["client"].part = 0
        /\ at'["client"].pc = "wStart"
    BY <1>1, <1>2, <1>6, AfterPuf
  <2>2. ~Finished("client")
    BY <1>1, <1>2 DEF Finished
  <2>3. PlacedAt("client")'
    BY <1>1, <1>6, <2>2, NextCallPlaced
  <2>4. /\ data' \in [Side -> [Functions -> Seq(Seq(Unit))]]
        /\ data'["client"] = Answered(n) /\ data'["server"] = data["server"]
    <3>1. ASSUME NEW f \in Functions PROVE Answered(n)[f] \in Seq(Seq(Unit))
      <4>1. PortionsOf(f) = 1..Last(f) /\ Last(f) \in Nat
        BY PatternFacts
      <4>2. ASSUME NEW p \in PortionsOf(f)
            PROVE  Response(f, p) \in Seq(Unit) /\ data["client"][f][p] \in Seq(Unit)
        <5>1. p \in Portions
          BY DEF PortionsOf
        <5>2. data["client"][f] \in Seq(Seq(Unit)) /\ DOMAIN data["client"][f] = PortionsOf(f)
          BY <1>1 DEF TypeOK
        <5> QED BY <5>1, <5>2, UnitFacts DEF Response
      <4>3. Answered(n)[f] \in [1..Last(f) -> Seq(Unit)]
        BY <4>1, <4>2 DEF Answered
      <4> QED BY <4>1, <4>3, Tuple
    <3>2. Answered(n) \in [Functions -> Seq(Seq(Unit))]
      BY <3>1 DEF Answered
    <3> QED BY <1>1, <1>6, <3>2 DEF TypeOK, Side
  <2>5. ASSUME NEW f \in Functions
        PROVE  /\ DOMAIN data'["client"][f] = PortionsOf(f)
               /\ \A p \in PortionsOf(f) :
                    /\ data'["client"][f][p] \in {data["client"][f][p], Response(f, p)}
                    /\ data["client"][f][p] = NULL => data'["client"][f][p] = NULL
    BY <2>4 DEF Answered
  <2>6. HeapTyped'
    <3>1. ASSUME NEW f \in Functions, NEW p \in PortionsOf(f)
          PROVE  Len(data'["client"][f][p]) \in {0, Pattern[f][p]}
      <4>1. p \in Portions
        BY DEF PortionsOf
      <4>2. Len(Response(f, p)) = Pattern[f][p] /\ Len(data["client"][f][p]) \in {0, Pattern[f][p]}
        BY <1>1, <4>1, UnitFacts DEF Response, TypeOK
      <4> QED BY <2>5, <4>2
    <3> QED BY <1>1, <2>4, <2>5, <3>1 DEF HeapTyped, TypeOK, Side
  <2>7. \A f \in Functions : \A p \in PortionsOf(f) :
          /\ data'["client"][f][p] \in {data["client"][f][p], Response(f, p)}
          /\ data["client"][f][p] = NULL => data'["client"][f][p] = NULL
    BY <2>5
  <2>8. Base'
    BY <1>4, <2>1, <2>3, <2>4, <2>6, <2>7
  <2> QED BY <2>1, <2>7, <2>8
<1> QED BY <1>2, <1>5, <1>6 DEF challenge_puf

(***************************************************************************)
(* The arrangement of the sides: what a step keeps of it.                  *)
(***************************************************************************)
LEMMA HeldKept ==
  ASSUME Held, TypeOK, data'["client"] = data["client"], at'["client"].call \in Nat,
         \/ at'["client"].call = at["client"].call /\ at'["client"].part = at["client"].part
         \/ at["client"].call > N /\ at'["client"].call > N
  PROVE  Held'
<1>1. N \in Nat /\ Functions = 1..N /\ at["client"].call \in Nat
  BY PatternFacts DEF TypeOK, Side, Place
<1>2. CASE at'["client"].call = at["client"].call /\ at'["client"].part = at["client"].part
  BY <1>2 DEF Held
<1>3. CASE at["client"].call > N /\ at'["client"].call > N
  <2>1. \A f \in Functions : at["client"].call > f /\ at'["client"].call # f
    BY <1>1, <1>3
  <2> QED BY <2>1 DEF Held
<1> QED BY <1>2, <1>3

\* What a sender sends changes only when it goes on to the next item.
LEMMA FrameKept ==
  ASSUME NEW x \in Side, at'[x].call = at[x].call, at'[x].part = at[x].part,
         data'["client"] = data["client"]
  PROVE  /\ Frame(x, Fn(x), at[x].part)' = Frame(x, Fn(x), at[x].part)
         /\ Sends(x)' <=> Sends(x)
         /\ Receives(x)' <=> Receives(x)
         /\ Finished(x)' <=> Finished(x)
         /\ AtLast(x)' <=> AtLast(x)
         /\ Fn(x)' = Fn(x) /\ Wanted(x)' = Wanted(x)
         /\ Incoming(x)' = Incoming(x)
<1>1. /\ Sends(x)' <=> Sends(x)
      /\ Receives(x)' <=> Receives(x)
      /\ Finished(x)' <=> Finished(x)
      /\ AtLast(x)' <=> AtLast(x)
      /\ Fn(x)' = Fn(x) /\ Wanted(x)' = Wanted(x)
  BY SameCall, SameItemOf
<1>2. Incoming(x)' = Incoming(x)
  BY <1>1 DEF Incoming, Load, Challenge, Units, Id, Peer
<1>3. Frame(x, Fn(x), at[x].part)' = Frame(x, Fn(x), at[x].part)
  BY <1>1 DEF Frame, Load, Challenge, Units, Id, S, E
<1> QED BY <1>1, <1>2, <1>3

\* What is said of the log of accepted items depends on the log alone.
LEMMA LogKept ==
  ASSUME accepted' = accepted
  PROVE  /\ \A r, f, p : LastIs(r, f, p)' <=> LastIs(r, f, p)
         /\ acked' = acked => (Level' <=> Level) /\ (OneAhead' <=> OneAhead)
BY DEF LastIs, Level, OneAhead

\* An item of the log is known by the first three of its fields.
LEMMA FirstThree ==
  ASSUME NEW a, NEW b, NEW c, NEW d
  PROVE  SubSeq(<<a, b, c, d>>, 1, 3) = <<a, b, c>>
<1> DEFINE t == <<a, b, c, d>>
           T == {a, b, c, d}
           q == SubSeq(t, 1, 3)
<1>1. t \in Seq(T) /\ Len(t) = 4
  OBVIOUS
<1>2. t[1] = a /\ t[2] = b /\ t[3] = c
  OBVIOUS
<1> HIDE DEF t
<1>3. q \in Seq(T) /\ Len(q) = 3 /\ \A k \in 1..3 : q[k] = t[k]
  BY <1>1, SubSeqProperties
<1>4. q[1] = a /\ q[2] = b /\ q[3] = c
  BY <1>2, <1>3
<1> HIDE DEF q
<1>5. q = <<q[1], q[2], q[3]>>
  BY <1>3
<1> QED BY <1>4, <1>5 DEF q, t

\* The turn after an item.
LEMMA AfterFacts ==
  ASSUME NEW item \in Side \X Functions \X (0..4) \X Seq(Unit),
         NEW r \in Side, NEW f \in Functions, NEW p \in 0..Last(f),
         SubSeq(item, 1, 3) = <<r, f, p>>
  PROVE  After(item) = IF p < Last(f) THEN {<<r, f, p + 1>>}
                       ELSE IF f < N THEN {<<r, f + 1, 0>>}
                       ELSE IF r = "client" THEN {<<"server", 1, 0>>}
                       ELSE {}
<1>1. item[1] = r /\ item[2] = f /\ item[3] = p
  <2>1. item = <<item[1], item[2], item[3], item[4]>>
    OBVIOUS
  <2>2. SubSeq(<<item[1], item[2], item[3], item[4]>>, 1, 3) = <<item[1], item[2], item[3]>>
    BY FirstThree
  <2> QED BY <2>1, <2>2
<1> QED BY <1>1 DEF After, Last

\* The units of the frame that x works on.
LEMMA FrameShape ==
  ASSUME Base, NEW x \in Side, Sends(x),
         x = "client" /\ at[x].part # 0 => data["client"][Fn(x)][at[x].part] # NULL
  PROVE  LET F == Frame(x, Fn(x), at[x].part)
             W == Wanted(x)
         IN  /\ F[1] = S /\ F[W + 2] = E
             /\ \A k \in 1..W : F[k + 1] = Outgoing(x)[k]
             /\ \A k \in 1..W + 2 : F[k] # ACK
<1> DEFINE f == Fn(x)
           p == at[x].part
           F == Frame(x, Fn(x), at[x].part)
           W == Wanted(x)
<1>1. Integrity
  BY DEF Base
<1>2. /\ f \in Functions /\ p \in {0} \cup PortionsOf(f) /\ W = Size(f, p)
      /\ (x = "client" /\ p # 0 => data["client"][f][p] # NULL)
      /\ Outgoing(x) = Load(x, f, p) /\ F = Frame(x, f, p)
  BY SenderFrame
<1> HIDE DEF f, p, F, W
<1>3. Load(x, f, p) \in Seq(Unit) /\ Len(Load(x, f, p)) = Size(f, p)
  BY <1>1, <1>2, LoadFacts
<1>4. /\ F[1] = S /\ F[W + 2] = E
      /\ \A k \in 1..W : F[k + 1] = Outgoing(x)[k]
  <2>1. /\ Frame(x, f, p)[1] = S /\ Frame(x, f, p)[Size(f, p) + 2] = E
        /\ \A k \in 1..Size(f, p) : Frame(x, f, p)[k + 1] = Load(x, f, p)[k]
    BY <1>2, <1>3, FrameFacts
  <2> QED BY <1>2, <2>1
<1>5. \A k \in 1..W + 2 : F[k] # ACK
  BY <1>1, <1>2, FrameNoAck
<1> QED BY <1>4, <1>5 DEF F, W

\* The next units of a frame are written.
LEMMA SentPiece ==
  ASSUME Base, NEW x \in Side, sendFramedStream(x),
         x = "client" /\ at[x].part # 0 => data["client"][Fn(x)][at[x].part] # NULL,
         NEW q \in Seq(Unit), NEW from \in Nat, NEW whole \in BOOLEAN,
         Along(q, Frame(x, Fn(x), at[x].part), from, Written(x), whole)
  PROVE  \E u \in Seq(Unit) :
           /\ Write(x, u) /\ \A k \in 1..Len(u) : u[k] # ACK
           /\ whole => Along(q \o u, Frame(x, Fn(x), at[x].part)', from, Written(x)', whole)
           /\ Along(q, Frame(x, Fn(x), at[x].part)', from, Written(x)', FALSE)
           /\ at' \in [Side -> Place] /\ at'[Peer(x)] = at[Peer(x)]
           /\ at'[x].pc \in Writing /\ at'[x].call = at[x].call /\ at'[x].part = at[x].part
           /\ Sends(x)' /\ Sends(x)
<1>1. TypeOK /\ Placed /\ Integrity
  BY DEF Base
<1>2. Sends(x) /\ UNCHANGED <<buffer, heap, cut, ok, history>> /\ at[x].pc \in Writing
  BY <1>1, Kinds DEF sendFramedStream, Writing
<1> DEFINE F == Frame(x, Fn(x), at[x].part)
           W == Wanted(x)
<1>3. /\ Fn(x) \in Functions /\ at[x].part \in {0} \cup PortionsOf(Fn(x))
      /\ F \in Seq(Unit) /\ Len(F) = W + 2 /\ W \in Nat /\ W >= 1
      /\ W = Size(Fn(x), at[x].part) /\ Outgoing(x) = Load(x, Fn(x), at[x].part)
      /\ Outgoing(x) \in Seq(Unit) /\ Len(Outgoing(x)) = W
  BY <1>2, SenderFrame
<1>4. /\ F[1] = S /\ F[W + 2] = E
      /\ \A k \in 1..W : F[k + 1] = Outgoing(x)[k]
      /\ \A k \in 1..W + 2 : F[k] # ACK
  BY <1>2, FrameShape
<1>5. ASSUME NEW u \in Seq(Unit), NEW pc \in Writing, Write(x, u), Go(x, pc),
             NEW to \in Nat, NEW later \in Nat, Written(x) = to, later = to + Len(u),
             later <= W + 2, \A k \in 1..Len(u) : u[k] = F[to + k],
             pc = "wData" => later = 1, pc = "wStop" => later = 1 + W,
             pc \notin {"wStart", "wData", "wStop"} => later = 2 + W, pc # "wStart"
      PROVE  /\ \A k \in 1..Len(u) : u[k] # ACK
             /\ whole => Along(q \o u, F', from, Written(x)', whole)
             /\ Along(q, F', from, Written(x)', FALSE)
             /\ at' \in [Side -> Place] /\ at'[Peer(x)] = at[Peer(x)]
             /\ at'[x].pc \in Writing /\ at'[x].call = at[x].call /\ at'[x].part = at[x].part
             /\ Sends(x)'
  <2>1. /\ at' \in [Side -> Place] /\ at'[Peer(x)] = at[Peer(x)]
        /\ at'[x].pc = pc /\ at'[x].call = at[x].call /\ at'[x].part = at[x].part
    BY <1>1, <1>5, GoMoves DEF PC, Writing
  <2>2. F' = F /\ (Sends(x)' <=> Sends(x)) /\ W' = W
    <3>1. data'["client"] = data["client"]
      BY <1>2 DEF heap
    <3> QED BY <2>1, <3>1, FrameKept
  <2>3. Written(x)' = later
    BY <1>5, <2>1, <2>2 DEF Written
  <2>4. Along(q, F, from, to, whole) /\ later <= Len(F)
    BY <1>3, <1>5
  <2> HIDE DEF F, W
  <2>5. to \in Nat /\ F \in Seq(Unit) /\ Len(u) \in Nat
    BY <1>3, <1>5
  <2>6. \A k \in 1..Len(u) : to + k \in 1..W + 2
    BY <1>3, <1>5, <2>5
  <2>7. \A k \in 1..Len(u) : u[k] # ACK
    BY <1>4, <1>5, <2>6
  <2>8. whole => Along(q \o u, F, from, later, whole)
    <3>1. to + Len(u) <= Len(F)
      BY <1>5, <2>4
    <3> QED BY <1>5, <2>4, <2>5, <3>1, AlongWrite
  <2>9. Along(q, F, from, later, FALSE)
    <3>1. Along(q, F, from, to, FALSE)
      BY <2>4 DEF Along
    <3>2. to <= later
      BY <1>5, <2>5
    <3> QED BY <1>5, <2>4, <2>5, <3>1, <3>2, AlongMore
  <2> QED BY <1>2, <1>5, <2>1, <2>2, <2>3, <2>7, <2>8, <2>9
<1> HIDE DEF F, W
<1>6. CASE at[x].pc = "wStart" /\ Write(x, <<S>>) /\ Go(x, "wData")
  <2>1. <<S>> \in Seq(Unit) /\ Len(<<S>>) = 1 /\ \A k \in 1..1 : <<S>>[k] = F[0 + k]
    BY <1>4, UnitFacts
  <2>2. Written(x) = 0 /\ 1 = 0 + 1 /\ 1 <= W + 2
    BY <1>3, <1>6 DEF Written
  <2> DEFINE u == <<S>>
  <2>3. u \in Seq(Unit) /\ Len(u) = 1 /\ (\A k \in 1..Len(u) : u[k] = F[0 + k]) /\ Write(x, u)
    BY <1>6, <2>1
  <2>4. "wData" \in Writing
    BY DEF Writing
  <2> DEFINE to == 0
             later == 1
             pc == "wData"
  <2>5. /\ u \in Seq(Unit) /\ pc \in Writing /\ Write(x, u) /\ Go(x, pc)
        /\ to \in Nat /\ later \in Nat /\ Written(x) = to /\ later = to + Len(u)
        /\ later <= W + 2 /\ \A k \in 1..Len(u) : u[k] = F[to + k]
    BY <1>6, <2>2, <2>3, <2>4
  <2>6. /\ pc = "wData" => later = 1
        /\ pc = "wStop" => later = 1 + W
        /\ pc \notin {"wStart", "wData", "wStop"} => later = 2 + W
        /\ pc # "wStart"
    OBVIOUS
  <2> HIDE DEF u, to, later, pc
  <2>7. /\ \A k \in 1..Len(u) : u[k] # ACK
        /\ whole => Along(q \o u, F', from, Written(x)', whole)
        /\ Along(q, F', from, Written(x)', FALSE)
        /\ at' \in [Side -> Place] /\ at'[Peer(x)] = at[Peer(x)]
        /\ at'[x].pc \in Writing /\ at'[x].call = at[x].call /\ at'[x].part = at[x].part
        /\ Sends(x)'
    BY <1>5, <2>5, <2>6, ZenonT(60)
  <2> QED BY <1>2, <2>5, <2>7 DEF F
<1>7. CASE at[x].pc = "wData" /\ Write(x, Outgoing(x)) /\ Go(x, "wStop")
  <2> DEFINE u == Outgoing(x)
  <2>2. Written(x) = 1 /\ 1 + W <= W + 2 /\ 1 + W \in Nat /\ W \in Nat
    BY <1>3, <1>7 DEF Written
  <2>3. /\ u \in Seq(Unit) /\ Len(u) = W /\ Write(x, u)
        /\ \A k \in 1..Len(u) : u[k] = F[1 + k]
    <3>1. \A k \in 1..W : 1 + k = k + 1
      BY <1>3
    <3> QED BY <1>3, <1>4, <1>7, <3>1
  <2>4. "wStop" \in Writing
    BY DEF Writing
  <2> DEFINE to == 1
             later == 1 + W
             pc == "wStop"
  <2>5. /\ u \in Seq(Unit) /\ pc \in Writing /\ Write(x, u) /\ Go(x, pc)
        /\ to \in Nat /\ later \in Nat /\ Written(x) = to /\ later = to + Len(u)
        /\ later <= W + 2 /\ \A k \in 1..Len(u) : u[k] = F[to + k]
    BY <1>7, <2>2, <2>3, <2>4
  <2>6. /\ pc = "wData" => later = 1
        /\ pc = "wStop" => later = 1 + W
        /\ pc \notin {"wStart", "wData", "wStop"} => later = 2 + W
        /\ pc # "wStart"
    OBVIOUS
  <2> HIDE DEF u, to, later, pc
  <2>7. /\ \A k \in 1..Len(u) : u[k] # ACK
        /\ whole => Along(q \o u, F', from, Written(x)', whole)
        /\ Along(q, F', from, Written(x)', FALSE)
        /\ at' \in [Side -> Place] /\ at'[Peer(x)] = at[Peer(x)]
        /\ at'[x].pc \in Writing /\ at'[x].call = at[x].call /\ at'[x].part = at[x].part
        /\ Sends(x)'
    BY <1>5, <2>5, <2>6, ZenonT(60)
  <2> QED BY <1>2, <2>5, <2>7 DEF F
<1>8. CASE at[x].pc = "wStop" /\ Write(x, <<E>>) /\ Go(x, "wAck")
  <2> DEFINE u == <<E>>
  <2>2. Written(x) = 1 + W /\ 2 + W = (1 + W) + 1 /\ 2 + W <= W + 2 /\ 1 + W \in Nat /\ 2 + W \in Nat
    BY <1>3, <1>8 DEF Written, W
  <2>3. u \in Seq(Unit) /\ Len(u) = 1 /\ Write(x, u) /\ u[1] = E
    BY <1>8, UnitFacts
  <2> HIDE DEF u
  <2>5. \A k \in 1..Len(u) : u[k] = F[(1 + W) + k]
    <3>1. (1 + W) + 1 = W + 2
      BY <1>3
    <3> QED BY <1>4, <2>3, <3>1
  <2>4. "wAck" \in Writing
    BY DEF Writing
  <2> QED BY <1>2, <1>5, <1>8, <2>2, <2>3, <2>4, <2>5 DEF F
<1> QED BY <1>6, <1>7, <1>8 DEF sendFramedStream

(***************************************************************************)
(* Together: the two sides are at the same item.                           *)
(***************************************************************************)
\* What a sender sends is there: the client holds its results by then.
LEMMA SenderHolds ==
  ASSUME Base, Held, NEW x \in Side, Sends(x)
  PROVE  /\ x = "client" => at["client"].call > N + 1
         /\ x = "client" /\ at[x].part # 0 => data["client"][Fn(x)][at[x].part] # NULL
         /\ \A p \in PortionsOf(Fn(x)) : data[x][Fn(x)][p] # NULL
<1>1. TypeOK /\ Placed /\ Integrity /\ Memory /\ N \in Nat \ {0}
  BY PatternFacts DEF Base
<1>2. Fn(x) \in Functions /\ at[x].part \in {0} \cup PortionsOf(Fn(x))
  BY <1>1, OutgoingFacts
<1>3. x = "client" => at["client"].call > N + 1
  BY <1>1 DEF Sends
<1>4. x = "client" => \A p \in PortionsOf(Fn(x)) : data[x][Fn(x)][p] # NULL
  BY <1>1, <1>2, <1>3, HeldResults
<1>5. x = "server" => \A p \in PortionsOf(Fn(x)) : data[x][Fn(x)][p] # NULL
  BY <1>1, <1>2 DEF Memory
<1> QED BY <1>2, <1>3, <1>4, <1>5 DEF Side

\* While the receiver waits for the item, writing a piece of its frame keeps the sides
\* together.
LEMMA TogetherSends ==
  ASSUME Base, Held, NEW x \in Side, NEW r \in Side, r = Peer(x), Together(x, r),
         sendFramedStream(x)
  PROVE  Held' /\ Together(x, r)'
<1>1. /\ TypeOK /\ Placed /\ x # r /\ Peer(r) = x /\ Sends(x) /\ Receives(r)
      /\ chan[r] \in Seq(Unit) /\ Fn(x) = Fn(r) /\ at[x].part = at[r].part
  BY DEF Base, TypeOK, Together, SameItem, Side, Peer
<1>2. /\ UNCHANGED <<buffer, heap, cut, ok, history>> /\ data' = data /\ cut' = cut
      /\ at[x].pc \in {"wStart", "wData", "wStop"} /\ buffer' = buffer
  BY DEF sendFramedStream, heap
<1>3. x = "client" /\ at[x].part # 0 => data["client"][Fn(x)][at[x].part] # NULL
  BY <1>1, SenderHolds
<1>4. /\ at'[r] = at[r] /\ at' \in [Side -> Place] /\ Fn(r)' = Fn(r)
      /\ Receives(r)' /\ Incoming(r)' = Incoming(r) /\ Wanted(r)' = Wanted(r)
      /\ at'[x].call = at[x].call /\ at'[x].part = at[x].part /\ at'[x].pc \in Writing
      /\ Fn(x)' = Fn(x) /\ Sends(x)'
      /\ chan' \in [Side -> Seq(Unit)] /\ chan'[x] = chan[x]
  <2>1. PICK pc \in Writing, u \in Seq(Unit) : Go(x, pc) /\ Write(x, u)
    <3>1. Outgoing(x) \in Seq(Unit) /\ <<S>> \in Seq(Unit) /\ <<E>> \in Seq(Unit)
      BY <1>1, OutgoingTyped, UnitFacts
    <3> QED BY <3>1 DEF sendFramedStream, Writing
  <2>2. /\ at' \in [Side -> Place]
        /\ at'[x].pc = pc /\ at'[x].call = at[x].call /\ at'[x].part = at[x].part
        /\ at'[r] = at[r]
    BY <1>1, <2>1, GoMoves DEF PC, Writing
  <2>3. /\ chan' \in [Side -> Seq(Unit)] /\ chan'[x] = chan[x]
    BY <1>1, <2>1, WriteMoves
  <2>4. data'["client"] = data["client"]
    BY <1>2
  <2>5. /\ Fn(r)' = Fn(r) /\ Receives(r)' /\ Incoming(r)' = Incoming(r) /\ Wanted(r)' = Wanted(r)
        /\ Fn(x)' = Fn(x) /\ Sends(x)'
    BY <1>1, <2>2, <2>4, FrameKept
  <2> QED BY <2>1, <2>2, <2>3, <2>5
<1>5. Held'
  <2>1. at'["client"].call = at["client"].call /\ at'["client"].part = at["client"].part
    BY <1>1, <1>4 DEF Side, Peer
  <2>2. at'["client"].call \in Nat
    BY <1>4 DEF Side, Place
  <2> QED BY <1>1, <1>2, <2>1, <2>2, HeldKept
<1>6. SameItem(x, r)' /\ (at'[x].pc = "done" => cut') /\ (chan'[x] # <<>> => at'[r].pc = "copy")
  BY <1>1, <1>4 DEF SameItem, Together, Writing
<1>7. CASE at[r].pc = "done" /\ cut /\ chan[r] = <<>>
  <2>1. chan' = chan
    BY <1>1, <1>2, <1>7 DEF sendFramedStream, Write, Up
  <2> QED BY <1>2, <1>4, <1>5, <1>6, <1>7, <2>1 DEF Together
<1>8. CASE /\ at[r].pc \in Reading \cup {"initFunc"}
           /\ Level /\ Due(r) /\ Piece(x, chan[r], Read(r))
           /\ \A k \in 1..Len(buffer[r]) :
                at[r].pc \in {"rData", "rStop"} => buffer[r][k] = Incoming(r)[k]
  <2>1. Level' /\ Due(r)' /\ Read(r)' = Read(r)
    BY <1>2, <1>4, <1>8 DEF Level, Due, Read, history
  <2>2. Read(r) \in Nat /\ (~cut) \in BOOLEAN
    <3>1. Wanted(r) \in Nat
      BY <1>1, <1>3, SenderFrame DEF Wanted
    <3>2. Len(buffer[r]) \in Nat
      BY <1>1 DEF TypeOK
    <3> QED BY <3>1, <3>2 DEF Read
  <2> DEFINE q == chan[r]
             from == Read(r)
             F == Frame(x, Fn(x), at[x].part)
  <2>3. Along(q, F, from, Written(x), ~cut)
    BY <1>8 DEF Piece
  <2>4. q \in Seq(Unit) /\ from \in Nat
    BY <1>1, <2>2
  <2> HIDE DEF q, from
  <2>5. PICK u \in Seq(Unit) :
           /\ Write(x, u)
           /\ ~cut => Along(q \o u, F', from, Written(x)', ~cut)
           /\ Along(q, F', from, Written(x)', FALSE)
    BY <1>3, <2>2, <2>3, <2>4, SentPiece
  <2>6. at[r].pc # "done" /\ (Up(x) <=> ~cut)
    BY <1>1, <1>8 DEF Reading, Up
  <2>7. chan'[r] = IF ~cut THEN q \o u ELSE q
    BY <1>1, <2>5, <2>6, WriteMoves DEF q
  <2>8. Along(chan'[r], F', from, Written(x)', ~cut')
    <3>1. CASE cut
      <4>1. (~cut') = FALSE /\ chan'[r] = q
        BY <1>2, <2>7, <3>1
      <4> QED BY <2>5, <4>1
    <3>2. CASE ~cut
      <4>1. (~cut') = (~cut) /\ chan'[r] = q \o u
        BY <1>2, <2>7, <3>2
      <4> QED BY <2>5, <3>2, <4>1
    <3> QED BY <3>1, <3>2
  <2>9. Piece(x, chan[r], Read(r))'
    BY <2>1, <2>8 DEF Piece, from
  <2>10. \A k \in 1..Len(buffer'[r]) :
           at'[r].pc \in {"rData", "rStop"} => buffer'[r][k] = Incoming(r)'[k]
    BY <1>2, <1>4, <1>8
  <2> QED BY <1>4, <1>5, <1>6, <1>8, <2>1, <2>9, <2>10 DEF Together
<1> QED BY <1>2, <1>7, <1>8 DEF Together

\* A sender reads its acknowledgement and goes on.
LEMMA WaitMoves ==
  ASSUME Base, Held, NEW x \in Side, NEW r \in Side, r = Peer(x), waitForAck(x),
         Head(chan[x]) = ACK, OneAhead
  PROVE  /\ Sends(x) /\ Level' /\ Held' /\ chan[x] # <<>>
         /\ chan' \in [Side -> Seq(Unit)] /\ chan'[x] = Tail(chan[x]) /\ chan'[r] = chan[r]
         /\ buffer' = buffer /\ data' = data /\ cut' = cut /\ accepted' = accepted
         /\ at' \in [Side -> Place] /\ at'[r] = at[r]
         /\ Fn(r)' = Fn(r) /\ Incoming(r)' = Incoming(r)
         /\ Receives(r)' <=> Receives(r)
         /\ Sends(r)' <=> Sends(r)
         /\ Finished(r)' <=> Finished(r)
         /\ AtLast(r)' <=> AtLast(r)
         /\ \/ /\ Sends(x)' /\ at'[x].pc = "wStart"
               /\ \/ /\ at[x].part < Last(Fn(x)) /\ at'[x].call = at[x].call
                     /\ Fn(x)' = Fn(x) /\ at'[x].part = at[x].part + 1
                  \/ /\ at[x].part = Last(Fn(x)) /\ Fn(x) < N
                     /\ Fn(x)' = Fn(x) + 1 /\ at'[x].part = 0
                     /\ at'[x].call = at[x].call + 1
            \/ /\ AtLast(x) /\ at'[x].part = 0 /\ at'[x].call = at[x].call + 1
               /\ x = "client" => Finished(x)' /\ at'[x].pc = "done"
               /\ x = "server" => at'[x].call = N + 1 /\ at'[x].pc = "rStart"
<1>1. TypeOK /\ Placed /\ Peer(r) = x /\ N \in Nat \ {0} /\ Logged
  BY PatternFacts DEF Base, Side, Peer
<1>2. /\ at[x].pc = "wAck" /\ Arrived(x) /\ Take(x) /\ NextPart(x, "wStart")
      /\ buffer' = buffer /\ data' = data /\ cut' = cut /\ accepted' = accepted
      /\ acked' = Append(acked, <<Peer(x), Fn(x), at[x].part>>)
  BY DEF waitForAck, IsAck, heap
<1>3. Sends(x)
  BY <1>1, <1>2, Kinds DEF Writing
<1>4. \A p \in PortionsOf(Fn(x)) : data[x][Fn(x)][p] # NULL
  BY <1>3, SenderHolds
<1>5. /\ at' \in [Side -> Place] /\ at'[r] = at[r]
      /\ \/ /\ Sends(x)' /\ at'[x].pc = "wStart"
            /\ \/ /\ at[x].part < Last(Fn(x)) /\ at'[x].call = at[x].call
                  /\ Fn(x)' = Fn(x) /\ at'[x].part = at[x].part + 1
               \/ /\ at[x].part = Last(Fn(x)) /\ Fn(x) < N
                  /\ Fn(x)' = Fn(x) + 1 /\ at'[x].part = 0
                  /\ at'[x].call = at[x].call + 1
         \/ /\ AtLast(x) /\ at'[x].part = 0 /\ at'[x].call = at[x].call + 1
            /\ x = "client" => Finished(x)' /\ at'[x].pc = "done"
            /\ x = "server" => at'[x].call = N + 1 /\ at'[x].pc = "rStart"
  BY <1>1, <1>2, <1>3, <1>4, SendsOn
<1>6. /\ chan' \in [Side -> Seq(Unit)] /\ chan'[x] = Tail(chan[x]) /\ chan'[r] = chan[r]
  BY <1>1, <1>2, TakeMoves
<1>7. Level'
  <2>1. Len(acked) \in Nat /\ Len(acked') = Len(acked) + 1
    BY <1>1, <1>2, <1>3, FnFacts, PatternFacts, AppendProperties DEF Logged
  <2>2. Len(accepted) = Len(acked) + 1
    BY DEF OneAhead
  <2> QED BY <1>2, <2>1, <2>2 DEF Level
<1>8. /\ Fn(r)' = Fn(r) /\ Incoming(r)' = Incoming(r)
      /\ Receives(r)' <=> Receives(r)
      /\ Sends(r)' <=> Sends(r)
      /\ Finished(r)' <=> Finished(r)
      /\ AtLast(r)' <=> AtLast(r)
  <2>1. data'["client"] = data["client"]
    BY <1>2
  <2>2. at'[r].call = at[r].call /\ at'[r].part = at[r].part
    BY <1>5
  <2> QED BY <2>1, <2>2, FrameKept
<1>9. Held'
  <2>1. at'["client"].call \in Nat /\ at["client"].call \in Nat
    BY <1>1, <1>5 DEF TypeOK, Place, Side
  <2>2. x = "client" => at["client"].call > N + 1 /\ at'["client"].call \in {at["client"].call, at["client"].call + 1}
    BY <1>3, <1>5, SenderHolds
  <2>3. x = "client" => at["client"].call > N /\ at'["client"].call > N
    BY <1>1, <2>1, <2>2
  <2>4. x # "client" => at'["client"] = at["client"]
    BY <1>5 DEF Side, Peer
  <2> QED BY <1>1, <1>2, <2>1, <2>3, <2>4, HeldKept
<1> QED BY <1>2, <1>3, <1>5, <1>6, <1>7, <1>8, <1>9 DEF Arrived

\* x starts the frame of its next item.
LEMMA StartsPiece ==
  ASSUME Base, Base', Held', NEW x \in Side, Sends(x)', at'[x].pc = "wStart", NEW whole \in BOOLEAN
  PROVE  Along(<<>>, Frame(x, Fn(x), at[x].part)', 0, Written(x)', whole)
<1> DEFINE f == Fn(x)'
           p == at'[x].part
<1>1. /\ TypeOK' /\ Placed' /\ Integrity' /\ N \in Nat \ {0}
  BY PatternFacts DEF Base
<1>2. at' \in [Side -> Place] /\ f \in Functions /\ p \in {0} \cup PortionsOf(f)
      /\ (x = "client" => at'["client"].call > N + 1)
  <2>1. at' \in [Side -> Place] /\ PlacedAt(x)'
    BY <1>1 DEF TypeOK, Placed
  <2>2. p \in 0..4
    BY <2>1 DEF Place
  <2>3. f \in 1..N /\ (x = "client" => at'["client"].call > N + 1)
    <3>1. x = "client" => at'["client"].call \in N + 2..2 * N + 1
      BY DEF Sends
    <3>2. x = "server" => at'["server"].call \in 1..N
      BY DEF Sends
    <3>3. x = "server" => at'["server"].call \in 1..2 * N
      BY <1>1, <3>2
    <3> QED BY <1>1, <3>1, <3>3, CallFn DEF Fn, Side
  <2>4. p <= Last(f)
    BY <2>1 DEF PlacedAt
  <2> QED BY <2>1, <2>2, <2>3, <2>4, PatternFacts
<1>3. x = "client" /\ p # 0 => Len(data'["client"][f][p]) = Size(f, p) /\ data'["client"][f][p] \in Seq(Unit)
  <2>1. ASSUME x = "client", p # 0
        PROVE  Len(data'["client"][f][p]) = Size(f, p) /\ data'["client"][f][p] \in Seq(Unit)
    <3>1. f \in Functions /\ p \in PortionsOf(f) /\ p \in Portions /\ at'["client"].call \in Nat
      BY <1>2, <2>1 DEF PortionsOf, Side, Place
    <3>2. at'["client"].call > f
      BY <1>1, <1>2, <2>1, <3>1, PatternFacts
    <3>3. data'["client"][f][p] \in {Challenge(f, p), Response(f, p)}
      BY <3>1, <3>2 DEF Held
    <3> QED BY <2>1, <3>1, <3>3, UnitFacts DEF Challenge, Response, Size
  <2> QED BY <2>1
<1> DEFINE L == IF p = 0 THEN <<Id(f)>>
                ELSE IF x = "server" THEN Challenge(f, p) ELSE data'["client"][f][p]
<1>4. Frame(x, Fn(x), at[x].part)' = <<S>> \o L \o <<E>>
  BY DEF Frame, Load, S, E, Id, Challenge, Units
<1>5. L \in Seq(Unit)
  <2>1. CASE p = 0
    BY <1>2, <2>1, UnitFacts
  <2>2. CASE p # 0 /\ x = "server"
    <3>1. p \in Portions
      BY <1>2, <2>2 DEF PortionsOf
    <3> QED BY <1>2, <2>2, <3>1, UnitFacts DEF Challenge
  <2>3. CASE p # 0 /\ x = "client"
    BY <1>3, <2>3
  <2> QED BY <2>1, <2>2, <2>3 DEF Side
<1> HIDE DEF L, f, p
<1> DEFINE F == <<S>> \o L \o <<E>>
<1>6. F \in Seq(Unit)
  <2>1. <<S>> \in Seq(Unit) /\ <<E>> \in Seq(Unit)
    BY UnitFacts
  <2> DEFINE A == <<S>> \o L
  <2>2. A \in Seq(Unit)
    BY <1>5, <2>1, Concat
  <2> HIDE DEF A
  <2>3. A \o <<E>> \in Seq(Unit)
    BY <2>1, <2>2, Concat
  <2> QED BY <2>3 DEF A
<1>7. Written(x)' = 0
  BY DEF Written
<1>8. Len(<<>>) = 0
  OBVIOUS
<1>9. Frame(x, Fn(x), at[x].part)' = F
  BY <1>4
<1> HIDE DEF F
<1>10. Len(F) \in Nat
  BY <1>6
<1> QED BY <1>7, <1>8, <1>9, <1>10 DEF Along

\* An acknowledgement that is read was sent for this item, so the sender goes on.
LEMMA TogetherWaits ==
  ASSUME Base, Base', Held, NEW x \in Side, NEW r \in Side, r = Peer(x), Together(x, r),
         waitForAck(x)
  PROVE  InSync'
<1>1. /\ TypeOK /\ Placed /\ x # r /\ Sends(x) /\ Receives(r) /\ N \in Nat \ {0}
      /\ Fn(x) = Fn(r) /\ at[x].part = at[r].part /\ Fn(x) \in 1..N
  BY FnFacts, PatternFacts DEF Base, TypeOK, Together, SameItem, Side, Peer
<1>2. chan[x] # <<>>
  BY DEF waitForAck, Arrived
<1>3. /\ at[r].pc = "copy" /\ OneAhead /\ LastIs(r, Fn(r), at[r].part)
      /\ chan[r] = <<>> /\ chan[x] = <<ACK>>
  BY <1>2 DEF Together, AckPending, Reading
<1>4. Head(chan[x]) = ACK /\ Tail(chan[x]) = <<>>
  BY <1>3
<1>5. /\ Level' /\ Held'
      /\ chan'[x] = <<>> /\ chan'[r] = <<>> /\ cut' = cut /\ accepted' = accepted
      /\ at'[r] = at[r] /\ Fn(r)' = Fn(r) /\ Receives(r)'
      /\ AtLast(r)' <=> AtLast(r)
      /\ \/ /\ Sends(x)' /\ at'[x].pc = "wStart"
            /\ \/ /\ Fn(x)' = Fn(x) /\ at'[x].part = at[x].part + 1
               \/ /\ at[x].part = Last(Fn(x)) /\ Fn(x)' = Fn(x) + 1 /\ at'[x].part = 0
         \/ /\ AtLast(x) /\ at'[x].part = 0
            /\ x = "client" => Finished(x)' /\ at'[x].pc = "done"
            /\ x = "server" => at'[x].call = N + 1 /\ at'[x].pc = "rStart"
  BY <1>1, <1>3, <1>4, WaitMoves
<1>6. LastIs(r, Fn(r), at[r].part)' /\ at'[r].pc = "copy"
  BY <1>3, <1>5 DEF LastIs
<1>7. CASE Sends(x)' /\ at'[x].pc = "wStart"
  <2>1. ItemAfter(x, r)'
    <3>1. AtLast(x) /\ at'[x].call = N + 1 => ~(Sends(x)' /\ x = "server")
      BY <1>1 DEF Sends
    <3>2. Finished(x)' => at'[x].pc = "done"
      BY DEF Base, Placed, PlacedAt
    <3> QED BY <1>1, <1>5, <1>7, <3>1, <3>2 DEF ItemAfter, Side
  <2>2. Along(<<>>, Frame(x, Fn(x), at[x].part)', 0, Written(x)', ~cut')
    BY <1>5, <1>7, StartsPiece
  <2>3. Piece(x, chan[r], 0)'
    BY <1>5, <2>2 DEF Piece
  <2>4. Ahead(x, r)'
    BY <1>5, <1>6, <1>7, <2>1, <2>3 DEF Ahead
  <2> QED BY <1>5, <2>4 DEF InSync, Side, Peer
<1>8. CASE AtLast(x) /\ x = "client" /\ Finished(x)'
  <2>1. Fn(r)' = N /\ at'[r].part = Last(N)
    BY <1>1, <1>5, <1>8 DEF AtLast
  <2>2. Ahead(x, r)'
    BY <1>5, <1>6, <1>8, <2>1 DEF Ahead
  <2> QED BY <1>5, <1>8, <2>2 DEF InSync, Side, Peer
<1>9. CASE AtLast(x) /\ x = "server" /\ at'[x].call = N + 1 /\ at'[x].pc = "rStart" /\ at'[x].part = 0
  <2>1. r = "client" /\ Fn(r) = N /\ at[r].part = Last(N) /\ AtLast(r)
    BY <1>1, <1>9 DEF AtLast, Peer
  <2>2. at["client"].call = N
    BY <1>1, <2>1, FnFacts DEF TypeOK
  <2>3. LastIs("client", N, Last(N))'
    BY <1>5, <1>6, <2>1 DEF LastIs
  <2>4. ServerTurns'
    BY <1>5, <1>6, <1>9, <2>1, <2>2, <2>3 DEF ServerTurns
  <2> QED BY <1>5, <2>4 DEF InSync
<1> QED BY <1>5, <1>7, <1>8, <1>9 DEF Side

\* A side gives up an item because the connection is at its end.
LEMMA QuitMoves ==
  ASSUME Base, NEW s \in Side, NEW z \in Side, z = Peer(s), WriteFails(s) \/ ReadFails(s)
  PROVE  /\ ~Up(s) /\ at[s].pc \in Writing \cup Reading \cup {"sAck"}
         /\ at[s].pc \in Reading \cup {"wAck"} => chan[s] = <<>>
         /\ buffer' = buffer /\ data' = data /\ chan' = chan /\ cut' = cut
         /\ accepted' = accepted /\ acked' = acked
         /\ at' \in [Side -> Place] /\ at'[z] = at[z]
         /\ s = "server" \/ Sends(s) =>
              /\ at'[s].pc = "done" /\ at'[s].call = at[s].call /\ at'[s].part = at[s].part
         /\ s = "client" /\ Receives(s) =>
              /\ at'[s].pc \in {"initFunc", "puf"} /\ at'[s].part = 0
              /\ at'[s].call = at[s].call + 1
<1>1. TypeOK /\ Placed
  BY DEF Base
<1>2. /\ Fails(s) /\ ~Up(s) /\ at[s].pc \in Writing \cup Reading \cup {"sAck"}
      /\ at[s].pc \in Reading \cup {"wAck"} => chan[s] = <<>>
      /\ buffer' = buffer /\ data' = data /\ chan' = chan /\ cut' = cut
      /\ accepted' = accepted /\ acked' = acked
  BY DEF WriteFails, ReadFails, Writing, Reading, Arrived, heap, history
<1>3. /\ at' \in [Side -> Place] /\ at'[z] = at[z]
      /\ s = "client" /\ Receives(s) => NextCall(s)
      /\ s = "server" \/ Sends(s) =>
           at'[s].pc = "done" /\ at'[s].call = at[s].call /\ at'[s].part = at[s].part
  BY <1>1, <1>2, FailsMoves
<1>4. s = "client" /\ Receives(s) =>
        /\ at'[s].pc \in {"initFunc", "puf"} /\ at'[s].part = 0
        /\ at'[s].call = at[s].call + 1
  <2>1. ASSUME s = "client", Receives(s)
        PROVE  /\ at'[s].pc \in {"initFunc", "puf"} /\ at'[s].part = 0
               /\ at'[s].call = at[s].call + 1
    <3>1. Fn(s) < N \/ Fn(s) = N
      <4>1. at \in [Side -> Place]
        BY <1>1 DEF TypeOK
      <4>2. Fn(s) \in 1..N
        BY <2>1, <4>1, FnFacts
      <4>3. N \in Nat
        BY PatternFacts
      <4> QED BY <4>2, <4>3
    <3> QED BY <1>1, <1>3, <2>1, <3>1, AfterReceiving
  <2> QED BY <2>1
<1> QED BY <1>2, <1>3, <1>4

\* What a side that quits had written counts as all of it: some may be missing.
LEMMA QuitPiece ==
  ASSUME Base, NEW x \in Side, Sends(x), at'[x].pc = "done",
         x = "client" /\ at[x].part # 0 => data["client"][Fn(x)][at[x].part] # NULL,
         at'[x].call = at[x].call, at'[x].part = at[x].part, data'["client"] = data["client"],
         NEW q \in Seq(Unit), NEW from \in Nat, NEW whole \in BOOLEAN,
         Along(q, Frame(x, Fn(x), at[x].part), from, Written(x), whole)
  PROVE  Along(q, Frame(x, Fn(x), at[x].part)', from, Written(x)', FALSE)
<1> DEFINE F == Frame(x, Fn(x), at[x].part)
           W == Wanted(x)
<1>1. F' = F /\ W' = W
  BY FrameKept
<1>2. F \in Seq(Unit) /\ Len(F) = W + 2 /\ W \in Nat /\ Written(x) \in 0..W + 2
  BY SenderFrame
<1>3. Written(x)' = 2 + W
  BY <1>1 DEF Written
<1>4. Along(q, F, from, Written(x), FALSE)
  BY DEF Along
<1> HIDE DEF F, W
<1>5. Written(x) \in Nat /\ 2 + W \in Nat /\ Written(x) <= 2 + W /\ 2 + W <= Len(F)
  BY <1>2
<1>6. Along(q, F, from, 2 + W, FALSE)
  BY <1>2, <1>4, <1>5, AlongMore
<1> QED BY <1>1, <1>3, <1>6 DEF F

\* A sender that gives up does so on a link that is down.
LEMMA TogetherSenderQuits ==
  ASSUME Base, Held, NEW x \in Side, NEW r \in Side, r = Peer(x), Together(x, r),
         WriteFails(x) \/ ReadFails(x)
  PROVE  Held' /\ Together(x, r)'
<1>1. /\ TypeOK /\ Placed /\ x # r /\ Sends(x) /\ Receives(r) /\ chan[r] \in Seq(Unit)
      /\ Fn(x) = Fn(r) /\ at[x].part = at[r].part
  BY DEF Base, TypeOK, Together, SameItem, Side, Peer
<1>2. /\ ~Up(x) /\ buffer' = buffer /\ data' = data /\ chan' = chan /\ cut' = cut
      /\ accepted' = accepted /\ acked' = acked
      /\ at' \in [Side -> Place] /\ at'[r] = at[r]
      /\ at'[x].pc = "done" /\ at'[x].call = at[x].call /\ at'[x].part = at[x].part
  BY <1>1, QuitMoves
<1>3. cut
  <2>1. at[r].pc = "done" => cut
    BY DEF Together, Reading
  <2> QED BY <1>1, <1>2, <2>1 DEF Up
<1>4. /\ Fn(r)' = Fn(r) /\ Receives(r)' /\ Incoming(r)' = Incoming(r) /\ Wanted(r)' = Wanted(r)
      /\ Fn(x)' = Fn(x) /\ Sends(x)'
  <2>1. data'["client"] = data["client"]
    BY <1>2
  <2> QED BY <1>1, <1>2, <2>1, FrameKept
<1>5. Held'
  <2>1. at'["client"].call = at["client"].call /\ at'["client"].part = at["client"].part
    BY <1>1, <1>2 DEF Side
  <2>2. at'["client"].call \in Nat
    BY <1>2 DEF Side, Place
  <2> QED BY <1>1, <1>2, <2>1, <2>2, HeldKept
<1>6. SameItem(x, r)' /\ (at'[x].pc = "done" => cut') /\ (chan'[x] # <<>> => at'[r].pc = "copy")
  BY <1>1, <1>2, <1>3, <1>4 DEF SameItem, Together
<1>7. CASE at[r].pc = "done" /\ cut /\ chan[r] = <<>>
  BY <1>2, <1>5, <1>6, <1>7 DEF Together
<1>8. CASE /\ at[r].pc \in {"sAck", "copy"}
           /\ OneAhead /\ LastIs(r, Fn(r), at[r].part)
           /\ chan[r] = <<>>
           /\ at[r].pc = "copy" => AckPending(x)
  <2>1. OneAhead' /\ LastIs(r, Fn(r), at[r].part)' /\ (at'[r].pc = "copy" => AckPending(x)')
    BY <1>2, <1>4, <1>8 DEF OneAhead, LastIs, AckPending, ACK
  <2> QED BY <1>2, <1>5, <1>6, <1>8, <2>1 DEF Together
<1>9. CASE /\ at[r].pc \in Reading \cup {"initFunc"}
           /\ Level /\ Due(r) /\ Piece(x, chan[r], Read(r))
           /\ \A k \in 1..Len(buffer[r]) :
                at[r].pc \in {"rData", "rStop"} => buffer[r][k] = Incoming(r)[k]
  <2>1. Level' /\ Due(r)' /\ Read(r)' = Read(r)
    BY <1>2, <1>4, <1>9 DEF Level, Due, Read
  <2>2. x = "client" /\ at[x].part # 0 => data["client"][Fn(x)][at[x].part] # NULL
    BY <1>1, SenderHolds
  <2>3. Read(r) \in Nat
    <3>1. Wanted(r) \in Nat
      BY <1>1, <2>2, SenderFrame DEF Wanted
    <3>2. Len(buffer[r]) \in Nat
      BY <1>1 DEF TypeOK
    <3> QED BY <3>1, <3>2 DEF Read
  <2> DEFINE q == chan[r]
             from == Read(r)
             whole == ~cut
  <2>4. Along(q, Frame(x, Fn(x), at[x].part), from, Written(x), whole)
    BY <1>9 DEF Piece
  <2>5. q \in Seq(Unit) /\ from \in Nat /\ whole \in BOOLEAN /\ data'["client"] = data["client"]
    BY <1>1, <1>2, <2>3
  <2> HIDE DEF q, from, whole
  <2>6. Along(q, Frame(x, Fn(x), at[x].part)', from, Written(x)', FALSE)
    BY <1>1, <1>2, <2>2, <2>4, <2>5, QuitPiece
  <2>7. Piece(x, chan[r], Read(r))'
    <3>1. (~cut') = FALSE
      BY <1>2, <1>3
    <3> QED BY <1>2, <2>1, <2>6, <3>1 DEF Piece, q, from
  <2>8. \A k \in 1..Len(buffer'[r]) :
           at'[r].pc \in {"rData", "rStop"} => buffer'[r][k] = Incoming(r)'[k]
    BY <1>2, <1>4, <1>9
  <2> QED BY <1>2, <1>5, <1>6, <1>9, <2>1, <2>7, <2>8 DEF Together
<1> QED BY <1>7, <1>8, <1>9 DEF Together

\* So does a receiver; a client goes on to its next function, and has lost its place.
LEMMA TogetherReceiverQuits ==
  ASSUME Base, Held, NEW x \in Side, NEW r \in Side, r = Peer(x), Together(x, r),
         WriteFails(r) \/ ReadFails(r)
  PROVE  InSync' \/ Derailed'
<1>1. /\ TypeOK /\ Placed /\ x # r /\ x = Peer(r) /\ Sends(x) /\ Receives(r)
      /\ Fn(x) = Fn(r) /\ at[x].part = at[r].part
  BY DEF Base, TypeOK, Together, SameItem, Side, Peer
<1>2. /\ ~Up(r) /\ at[r].pc \in Writing \cup Reading \cup {"sAck"}
      /\ at[r].pc \in Reading \cup {"wAck"} => chan[r] = <<>>
      /\ data' = data /\ chan' = chan /\ cut' = cut
      /\ at' \in [Side -> Place] /\ at'[x] = at[x]
      /\ r = "server" =>
           at'[r].pc = "done" /\ at'[r].call = at[r].call /\ at'[r].part = at[r].part
      /\ r = "client" =>
           at'[r].pc \in {"initFunc", "puf"} /\ at'[r].part = 0
  BY <1>1, QuitMoves
<1>3. cut /\ chan[x] = <<>> /\ chan[r] = <<>>
  <2>1. at[r].pc \in Reading \cup {"sAck"}
    BY <1>1, <1>2, Kinds
  <2> QED BY <1>1, <1>2, <2>1 DEF Up, Together, Reading
<1>4. CASE r = "client"
  <2>1. Sends("server")'
    BY <1>1, <1>2, <1>4, SameCall DEF Peer
  <2> QED BY <1>1, <1>2, <1>3, <1>4, <2>1 DEF Derailed, Peer
<1>5. CASE r = "server"
  <2>1. SameItem(x, r)'
    BY <1>1, <1>2, <1>5, SameCall DEF SameItem
  <2>2. Together(x, r)'
    BY <1>2, <1>3, <1>5, <2>1 DEF Together
  <2>3. Held'
    <3>1. at'["client"] = at["client"]
      BY <1>1, <1>2, <1>5 DEF Side
    <3>2. at'["client"].call \in Nat
      BY <1>2 DEF Side, Place
    <3> QED BY <1>1, <1>2, <3>1, <3>2, HeldKept
  <2> QED BY <1>1, <1>5, <2>2, <2>3 DEF InSync, Side
<1> QED BY <1>4, <1>5 DEF Side

\* The frames of the challenges do not depend on the state.
LEMMA ServerFrameKept ==
  ASSUME at'["server"].call = at["server"].call, at'["server"].part = at["server"].part
  PROVE  Frame("server", Fn("server"), at["server"].part)'
           = Frame("server", Fn("server"), at["server"].part)
<1>1. Fn("server")' = Fn("server")
  BY DEF Fn
<1> QED BY <1>1 DEF Frame, Load, Challenge, Units, Id, S, E

\* initFunc allocates for the function the client is at, and results are held before.
LEMMA HeldInit ==
  ASSUME Base, Held, initFunc
  PROVE  Held'
<1>1. /\ at' \in [Side -> Place] /\ at \in [Side -> Place]
      /\ at'["client"].call = at["client"].call /\ at'["client"].part = 0
      /\ \A f \in Functions : f # at["client"].call => data'["client"][f] = data["client"][f]
  BY InitFuncBase DEF Base, TypeOK
<1>2. at["client"].call \in Nat /\ Functions \subseteq Nat
  BY <1>1, PatternFacts DEF Side, Place
<1>3. ASSUME NEW f \in Functions, NEW p \in PortionsOf(f)
      PROVE  /\ at'["client"].call > f \/ (at'["client"].call = f /\ at'["client"].part > p) =>
                  data'["client"][f][p] \in {Challenge(f, p), Response(f, p)}
             /\ at'["client"].call = f /\ at'["client"].part > 0 => data'["client"][f][p] # NULL
  <2>1. p \in Nat /\ ~(0 > p) /\ ~(0 > 0)
    BY DEF PortionsOf, Portions
  <2>2. at["client"].call > f => f # at["client"].call
    BY <1>2
  <2>3. at["client"].call > f => data["client"][f][p] \in {Challenge(f, p), Response(f, p)}
    BY DEF Held
  <2> QED BY <1>1, <2>1, <2>2, <2>3
<1> QED BY <1>3 DEF Held

\* The client takes memory for its function before it reads the first portion.
LEMMA TogetherInits ==
  ASSUME Base, Held, Together("server", "client"), initFunc
  PROVE  Held' /\ Together("server", "client")'
<1>1. /\ at["client"].pc = "initFunc" /\ UNCHANGED <<buffer, func, chan, cut, ok, history>>
      /\ at'["server"] = at["server"] /\ at' \in [Side -> Place]
      /\ at'["client"].pc = "rStart" /\ at'["client"].call = at["client"].call
      /\ at'["client"].part = 0 /\ at["client"].part = 0
  <2>1. at["client"].pc = "initFunc" /\ UNCHANGED <<buffer, func, chan, cut, ok, history>>
    BY DEF initFunc
  <2>2. at["client"].part = 0
    BY <2>1, Kinds DEF Base, Placed, PlacedAt, Side
  <2> QED BY <2>1, <2>2, InitFuncBase
<1>2. /\ SameItem("server", "client") /\ SameItem("server", "client")'
      /\ Fn("client")' = Fn("client")
      /\ Fn("server")' = Fn("server") /\ Wanted("server")' = Wanted("server")
  <2>1. /\ Fn("client")' = Fn("client") /\ Receives("client")' = Receives("client")
        /\ Fn("server")' = Fn("server") /\ Wanted("server")' = Wanted("server")
        /\ Sends("server")' = Sends("server")
    BY <1>1 DEF Fn, Receives, Sends, Wanted
  <2> QED BY <1>1, <2>1 DEF Together, SameItem
<1>3. Level /\ Due("client") /\ Piece("server", chan["client"], Read("client"))
      /\ chan["server"] = <<>> /\ (at["server"].pc = "done" => cut)
  BY <1>1 DEF Together
<1>4. Level' /\ Due("client")' /\ Read("client") = 0 /\ Read("client")' = 0
  BY <1>1, <1>2, <1>3 DEF Level, Due, Read, history
<1>5. Piece("server", chan["client"], Read("client"))'
  <2>1. Frame("server", Fn("server"), at["server"].part)'
          = Frame("server", Fn("server"), at["server"].part)
    BY <1>1, ServerFrameKept
  <2>2. Written("server")' = Written("server")
    BY <1>1, <1>2 DEF Written
  <2> QED BY <1>1, <1>3, <1>4, <2>1, <2>2 DEF Piece, Along
<1>6. Held'
  BY HeldInit
<1> QED BY <1>1, <1>2, <1>3, <1>4, <1>5, <1>6 DEF Together, Reading

\* The receiver has accepted the item when its acknowledgement is on its way.
LEMMA TogetherAcks ==
  ASSUME Base, Held, NEW x \in Side, NEW r \in Side, r = Peer(x), Together(x, r), sendAck(r)
  PROVE  Held' /\ Together(x, r)'
<1>1. /\ TypeOK /\ Placed /\ x # r /\ x = Peer(r) /\ Sends(x) /\ Receives(r)
      /\ Fn(x) = Fn(r) /\ at[x].part = at[r].part
  BY DEF Base, TypeOK, Together, SameItem, Side, Peer
<1>2. /\ at[r].pc = "sAck" /\ Write(r, <<ACK>>) /\ Go(r, "copy")
      /\ data' = data /\ cut' = cut /\ accepted' = accepted /\ acked' = acked
  BY DEF sendAck, heap, history
<1>3. /\ at' \in [Side -> Place] /\ at'[x] = at[x]
      /\ at'[r].pc = "copy" /\ at'[r].call = at[r].call /\ at'[r].part = at[r].part
  BY <1>1, <1>2, GoMoves DEF PC
<1>4. /\ at[x].pc \in {"wAck", "done"} /\ (at[x].pc = "done" => cut)
      /\ OneAhead /\ LastIs(r, Fn(r), at[r].part) /\ chan[r] = <<>> /\ chan[x] = <<>>
  BY <1>2 DEF Together, Reading
<1>5. chan'[r] = <<>> /\ chan'[x] = IF Up(r) THEN chan[x] \o <<ACK>> ELSE chan[x]
  <2>1. <<ACK>> \in Seq(Unit)
    BY UnitFacts
  <2> QED BY <1>1, <1>2, <1>4, <2>1, WriteMoves
<1>6. chan'[x] = IF Up(r) THEN <<ACK>> ELSE <<>>
  BY <1>4, <1>5
<1>7. AckPending(x)' /\ ACK' = ACK
  <2>1. Up(r) \/ cut
    BY <1>1, <1>4 DEF Up
  <2> QED BY <1>2, <1>6, <2>1 DEF AckPending, ACK
<1>8. SameItem(x, r)' /\ Fn(r)' = Fn(r)
  BY <1>1, <1>3, SameCall DEF SameItem
<1>9. OneAhead' /\ LastIs(r, Fn(r), at[r].part)'
  BY <1>2, <1>3, <1>4, <1>8 DEF OneAhead, LastIs
<1>10. Held'
  <2>1. at'["client"].call = at["client"].call /\ at'["client"].part = at["client"].part
    BY <1>1, <1>3 DEF Side
  <2>2. at'["client"].call \in Nat
    BY <1>3 DEF Side, Place
  <2> QED BY <1>1, <1>2, <2>1, <2>2, HeldKept
<1> QED BY <1>2, <1>3, <1>4, <1>5, <1>7, <1>8, <1>9, <1>10 DEF Together

\* The receiver reads the next unit of the frame.
LEMMA TogetherReads ==
  ASSUME Base, Held, NEW x \in Side, NEW r \in Side, r = Peer(x), Together(x, r), recStream(r)
  PROVE  Held' /\ Together(x, r)'
<1>1. /\ TypeOK /\ Placed /\ Logged /\ x # r /\ x = Peer(r) /\ Sends(x) /\ Receives(r)
      /\ Fn(x) = Fn(r) /\ at[x].part = at[r].part /\ chan[r] \in Seq(Unit)
      /\ buffer[r] \in Seq(Unit)
  BY DEF Base, TypeOK, Together, SameItem, Side, Peer
<1>2. /\ Arrived(r) /\ Take(r) /\ chan[r] # <<>> /\ at[r].pc \in Reading
      /\ data' = data /\ cut' = cut /\ acked' = acked
  BY DEF recStream, heap, Reading, Arrived
<1>3. /\ (at[x].pc = "done" => cut) /\ chan[x] = <<>>
      /\ Level /\ Due(r) /\ Piece(x, chan[r], Read(r))
      /\ \A k \in 1..Len(buffer[r]) :
           at[r].pc \in {"rData", "rStop"} => buffer[r][k] = Incoming(r)[k]
  BY <1>2 DEF Together, Reading
<1>4. chan' \in [Side -> Seq(Unit)] /\ chan'[r] = Tail(chan[r]) /\ chan'[x] = chan[x]
  BY <1>1, <1>2, TakeMoves
<1>5. x = "client" /\ at[x].part # 0 => data["client"][Fn(x)][at[x].part] # NULL
  BY <1>1, SenderHolds
<1> DEFINE F == Frame(x, Fn(x), at[x].part)
           W == Wanted(x)
<1>6. /\ F \in Seq(Unit) /\ Len(F) = W + 2 /\ W \in Nat /\ W >= 1
      /\ Written(x) \in 0..W + 2 /\ Wanted(r) = W /\ Incoming(r) = Outgoing(x)
  <2>1. /\ F \in Seq(Unit) /\ Len(F) = W + 2 /\ W \in Nat /\ W >= 1
        /\ Written(x) \in 0..W + 2 /\ Outgoing(x) = Load(x, Fn(x), at[x].part)
    BY <1>1, <1>5, SenderFrame
  <2> QED BY <1>1, <2>1 DEF Wanted, Incoming
<1>7. /\ F[1] = S /\ F[W + 2] = E
      /\ \A k \in 1..W : F[k + 1] = Outgoing(x)[k]
  BY <1>1, <1>5, FrameShape
<1> DEFINE from == Read(r)
           q == chan[r]
           whole == ~cut
<1>8. from \in Nat /\ whole \in BOOLEAN /\ q \in Seq(Unit) /\ q # <<>>
  <2>1. Len(buffer[r]) \in Nat
    BY <1>1
  <2> QED BY <1>1, <1>2, <1>6, <2>1 DEF Read
<1>9. Along(q, F, from, Written(x), whole)
  BY <1>3 DEF Piece
<1> HIDE DEF F, W, from, q, whole
<1>10. /\ Along(Tail(q), F, from + 1, Written(x), whole)
       /\ from + 1 <= Written(x) /\ Head(q) = F[from + 1]
  BY <1>6, <1>8, <1>9, AlongRead
\* A step that goes on reading.
<1>11. ASSUME NEW pc \in {"rData", "rStop"}, Go(r, pc), buffer' \in [Side -> Seq(Unit)],
              accepted' = accepted,
              from + 1 = IF pc = "rData" THEN 1 + Len(buffer'[r]) ELSE 1 + W,
              \A k \in 1..Len(buffer'[r]) : buffer'[r][k] = Incoming(r)[k]
       PROVE  Held' /\ Together(x, r)'
  <2>1. /\ at' \in [Side -> Place] /\ at'[x] = at[x]
        /\ at'[r].pc = pc /\ at'[r].call = at[r].call /\ at'[r].part = at[r].part
    BY <1>1, <1>11, GoMoves DEF PC, Reading
  <2>2. /\ F' = F /\ Fn(r)' = Fn(r) /\ Receives(r)' /\ Incoming(r)' = Incoming(r)
        /\ Wanted(r)' = Wanted(r) /\ W' = W
        /\ Fn(x)' = Fn(x) /\ Sends(x)'
    <3>1. data'["client"] = data["client"] /\ at'[x].call = at[x].call /\ at'[x].part = at[x].part
      BY <1>2, <2>1
    <3> QED BY <1>1, <2>1, <3>1, FrameKept DEF F, W
  <2>3. Written(x)' = Written(x)
    BY <2>1, <2>2 DEF Written, W
  <2>4. Read(r)' = from + 1
    BY <1>6, <1>11, <2>1, <2>2 DEF Read
  <2>5. Piece(x, chan[r], Read(r))'
    BY <1>2, <1>4, <1>10, <2>2, <2>3, <2>4 DEF Piece, F, q, whole
  <2>6. Level' /\ Due(r)'
    BY <1>2, <1>3, <1>11, <2>1, <2>2 DEF Level, Due
  <2>7. SameItem(x, r)'
    BY <1>1, <2>1, <2>2 DEF SameItem
  <2>8. Held'
    <3>1. at'["client"].call = at["client"].call /\ at'["client"].part = at["client"].part
      BY <1>1, <2>1 DEF Side
    <3>2. at'["client"].call \in Nat
      BY <2>1 DEF Side, Place
    <3> QED BY <1>1, <1>2, <3>1, <3>2, HeldKept
  <2>9. \A k \in 1..Len(buffer'[r]) :
           at'[r].pc \in {"rData", "rStop"} => buffer'[r][k] = Incoming(r)'[k]
    BY <1>11, <2>2
  <2>10. at'[r].pc \in Reading /\ (at'[x].pc = "done" => cut') /\ chan'[x] = <<>>
    BY <1>2, <1>3, <1>4, <2>1 DEF Reading
  <2> QED BY <2>5, <2>6, <2>7, <2>8, <2>9, <2>10 DEF Together
<1>12. CASE at[r].pc = "rStart"
  <2>1. /\ buffer' = [buffer EXCEPT ![r] = <<>>] /\ accepted' = accepted
        /\ Go(r, IF Head(chan[r]) = S THEN "rData" ELSE "rStart")
    BY <1>12 DEF recStream
  <2>2. from = 0
    BY <1>12 DEF Read, from
  <2>3. Head(chan[r]) = S
    BY <1>7, <1>10, <2>2 DEF q
  <2>4. Go(r, "rData")
    BY <2>1, <2>3
  <2>5. buffer' \in [Side -> Seq(Unit)] /\ buffer'[r] = <<>> /\ Len(buffer'[r]) = 0
    <3>1. buffer \in [Side -> Seq(Unit)] /\ <<>> \in Seq(Unit)
      BY <1>1 DEF TypeOK
    <3>2. buffer' \in [Side -> Seq(Unit)] /\ buffer'[r] = <<>>
      BY <2>1, <3>1
    <3>3. Len(<<>>) = 0
      OBVIOUS
    <3> QED BY <3>2, <3>3
  <2> QED BY <1>11, <2>1, <2>2, <2>4, <2>5
<1>13. CASE at[r].pc = "rData"
  <2>1. /\ buffer' = [buffer EXCEPT ![r] = Append(@, Head(chan[r]))] /\ accepted' = accepted
        /\ Go(r, IF Len(buffer'[r]) = Wanted(r) THEN "rStop" ELSE "rData")
    BY <1>13 DEF recStream
  <2>2. from = 1 + Len(buffer[r]) /\ Len(buffer[r]) < W /\ Len(buffer[r]) \in Nat
    BY <1>1, <1>6, <1>13 DEF Read, from, Base, Filled, FilledAt
  <2>3. Head(q) \in Unit
    BY <1>8, HeadTailProperties
  <2>4. /\ buffer'[r] = Append(buffer[r], Head(q)) /\ buffer' \in [Side -> Seq(Unit)]
        /\ Len(buffer'[r]) = Len(buffer[r]) + 1
        /\ \A k \in 1..Len(buffer[r]) : buffer'[r][k] = buffer[r][k]
        /\ buffer'[r][Len(buffer[r]) + 1] = Head(q)
    <3>1. buffer'[r] = Append(buffer[r], Head(q)) /\ Append(buffer[r], Head(q)) \in Seq(Unit)
      BY <1>1, <2>1, <2>3, AppendProperties DEF TypeOK, q
    <3>2. buffer' \in [Side -> Seq(Unit)]
      BY <1>1, <2>1, <3>1 DEF TypeOK
    <3>3. /\ Len(Append(buffer[r], Head(q))) = Len(buffer[r]) + 1
          /\ \A k \in 1..Len(buffer[r]) : Append(buffer[r], Head(q))[k] = buffer[r][k]
          /\ Append(buffer[r], Head(q))[Len(buffer[r]) + 1] = Head(q)
      BY <1>1, <2>3, AppendProperties
    <3> QED BY <3>1, <3>2, <3>3
  <2> DEFINE n == Len(buffer[r])
  <2>5. n \in Nat /\ n < W /\ from = 1 + n /\ Len(buffer'[r]) = n + 1
    BY <2>2, <2>4
  <2>6. \A k \in 1..n : buffer'[r][k] = Incoming(r)[k]
    BY <1>3, <1>13, <2>4
  <2>7. buffer'[r][n + 1] = F[from + 1]
    BY <1>10, <2>4
  <2> HIDE DEF n
  <2>8. n + 1 \in 1..W /\ from + 1 = (n + 1) + 1
    BY <1>6, <2>5
  <2>9. buffer'[r][n + 1] = Incoming(r)[n + 1]
    BY <1>6, <1>7, <2>7, <2>8
  <2>10. \A k \in 1..Len(buffer'[r]) : buffer'[r][k] = Incoming(r)[k]
    <3>1. \A k \in 1..n + 1 : k \in 1..n \/ k = n + 1
      BY <2>5
    <3> QED BY <2>5, <2>6, <2>9, <3>1
  <2> DEFINE pc == IF Len(buffer'[r]) = Wanted(r) THEN "rStop" ELSE "rData"
  <2>11. /\ pc \in {"rStop", "rData"} /\ Go(r, pc)
         /\ from + 1 = IF pc = "rData" THEN 1 + Len(buffer'[r]) ELSE 1 + W
    <3>1. from + 1 = 1 + (n + 1)
      BY <2>5
    <3>2. pc = "rStop" => n + 1 = W
      BY <1>6, <2>5
    <3> QED BY <2>1, <2>5, <3>1, <3>2
  <2> HIDE DEF pc
  <2> QED BY <1>11, <2>1, <2>4, <2>10, <2>11
<1>14. CASE at[r].pc = "rStop"
  <2>1. from = 1 + W
    BY <1>6, <1>14 DEF Read, from
  <2>2. Head(chan[r]) = E
    <3>1. (1 + W) + 1 = W + 2
      BY <1>6
    <3> QED BY <1>7, <1>10, <2>1, <3>1 DEF q
  <2>3. /\ accepted' = Append(accepted, <<r, Fn(r), at[r].part, buffer[r]>>)
        /\ Go(r, "sAck")
    BY <1>14, <2>2 DEF recStream
  <2>4. /\ at' \in [Side -> Place] /\ at'[x] = at[x]
        /\ at'[r].pc = "sAck" /\ at'[r].call = at[r].call /\ at'[r].part = at[r].part
    BY <1>1, <2>3, GoMoves DEF PC
  <2>5. SameItem(x, r)' /\ Fn(r)' = Fn(r)
    BY <1>1, <2>4, SameCall DEF SameItem
  <2>6. at'[x].pc \in {"wAck", "done"} /\ (at'[x].pc = "done" => cut')
    <3>1. Written(x) = 2 + W
      BY <1>6, <1>10, <2>1
    <3>2. at[x].pc \in Writing \cup {"done"}
      BY <1>1 DEF Placed, PlacedAt
    <3>3. 0 # 2 + W /\ 1 # 2 + W /\ 1 + W # 2 + W
      BY <1>6
    <3> QED BY <1>2, <1>3, <2>4, <3>1, <3>2, <3>3 DEF Written, Writing, W
  <2>7. chan'[r] = <<>>
    <3>1. (from + 1) + Len(Tail(q)) <= Written(x) /\ Tail(q) \in Seq(Unit)
      BY <1>8, <1>10, HeadTailProperties DEF Along
    <3>2. Len(Tail(q)) \in Nat
      BY <3>1
    <3> DEFINE n == Len(Tail(q))
    <3>3. n \in Nat /\ (from + 1) + n <= Written(x) /\ Written(x) <= W + 2 /\ Written(x) \in Int
      BY <1>6, <3>1, <3>2
    <3> HIDE DEF n
    <3>4. n = 0
      BY <1>6, <2>1, <3>3
    <3>5. Tail(q) = <<>>
      BY <3>1, <3>4, EmptySeq DEF n
    <3> QED BY <1>4, <3>5 DEF q
  <2>8. OneAhead' /\ LastIs(r, Fn(r), at[r].part)'
    <3> DEFINE item == <<r, Fn(r), at[r].part, buffer[r]>>
               Items == Side \X Functions \X (0..4) \X Seq(Unit)
    <3>1. item \in Items
      <4>1. Fn(r) \in Functions /\ at[r].part \in 0..4
        BY <1>1, FnFacts, PatternFacts DEF TypeOK, Place
      <4> QED BY <1>1, <4>1
    <3>2. SubSeq(item, 1, 3) = <<r, Fn(r), at[r].part>>
      BY FirstThree
    <3> HIDE DEF item
    <3>3. accepted \in Seq(Items) /\ accepted' = Append(accepted, item)
      BY <1>1, <2>3 DEF Logged, item
    <3>4. /\ accepted' \in Seq(Items) /\ Len(accepted') = Len(accepted) + 1
          /\ accepted'[Len(accepted) + 1] = item /\ Len(accepted) \in Nat
      BY <3>1, <3>3, AppendProperties
    <3>5. Len(accepted) = Len(acked)
      BY <1>3 DEF Level
    <3>6. accepted' # <<>>
      BY <3>4
    <3>7. OneAhead'
      BY <1>2, <3>4, <3>5 DEF OneAhead
    <3>8. SubSeq(accepted'[Len(accepted')], 1, 3) = <<r, Fn(r)', at'[r].part>>
      BY <2>4, <2>5, <3>2, <3>4
    <3> QED BY <3>6, <3>7, <3>8 DEF LastIs
  <2>9. Held'
    <3>1. at'["client"].call = at["client"].call /\ at'["client"].part = at["client"].part
      BY <1>1, <2>4 DEF Side
    <3>2. at'["client"].call \in Nat
      BY <2>4 DEF Side, Place
    <3> QED BY <1>1, <1>2, <3>1, <3>2, HeldKept
  <2>10. chan'[x] = <<>>
    BY <1>3, <1>4
  <2> QED BY <2>4, <2>5, <2>6, <2>7, <2>8, <2>9, <2>10 DEF Together
<1> QED BY <1>2, <1>12, <1>13, <1>14 DEF Reading

\* A receiver copies its item and goes on, past the portions when it has no memory.
LEMMA CopyMoves ==
  ASSUME IInv, NEW s \in Side, NEW z \in Side, z = Peer(s), Copy(s)
  PROVE  /\ Receives(s) /\ at[s].pc = "copy" /\ Held
         /\ chan' = chan /\ cut' = cut /\ accepted' = accepted /\ acked' = acked
         /\ at' \in [Side -> Place] /\ at'[z] = at[z]
         /\ Fn(z)' = Fn(z)
         /\ Sends(z)' <=> Sends(z)
         /\ Finished(z)' <=> Finished(z)
         /\ AtLast(z)' <=> AtLast(z)
         /\ Frame(z, Fn(z), at[z].part)' = Frame(z, Fn(z), at[z].part)
         /\ Written(z)' = Written(z)
         /\ \/ /\ Held'
               /\ \/ /\ Receives(s)'
                     /\ \/ /\ at[s].part < Last(Fn(s)) /\ at'[s].call = at[s].call
                           /\ Fn(s)' = Fn(s) /\ at'[s].part = at[s].part + 1
                           /\ at'[s].pc = "rStart"
                        \/ /\ at[s].part = Last(Fn(s)) /\ Fn(s) < N
                           /\ Fn(s)' = Fn(s) + 1 /\ at'[s].part = 0
                           /\ at'[s].call = at[s].call + 1
                           /\ at'[s].pc = IF s = "client" THEN "initFunc" ELSE "rStart"
                  \/ /\ AtLast(s) /\ at'[s].part = 0 /\ at'[s].call = at[s].call + 1
                     /\ s = "client" => at'[s].call = N + 1 /\ at'[s].pc = "puf"
                     /\ s = "server" => Finished(s)' /\ at'[s].pc = "done"
            \/ /\ s = "client" /\ at[s].part = 0
               /\ \A p \in PortionsOf(Fn(s)) : data'["client"][Fn(s)][p] = NULL
               /\ at'[s].call = at[s].call + 1 /\ at'[s].part = 0
               /\ at'[s].pc \in {"initFunc", "puf"}
<1>1. /\ Base /\ Base' /\ TypeOK /\ Placed /\ Memory /\ N \in Nat \ {0} /\ s # z
      /\ at[s].pc = "copy" /\ NextPart(s, "rStart") /\ at \in [Side -> Place]
      /\ chan' = chan /\ cut' = cut /\ accepted' = accepted /\ acked' = acked
      /\ (s = "client" => z = "server") /\ (s = "server" => z = "client")
  <2>1. Base'
    BY CopyBase
  <2> QED BY <2>1, PatternFacts DEF IInv, Base, TypeOK, Copy, history, Side, Peer
<1>2. Held
  BY <1>1, CopyMeans DEF InSync
<1>3. Receives(s) /\ Fn(s) \in Functions /\ at[s].part \in {0} \cup PortionsOf(Fn(s))
  BY <1>1, Kinds, OutgoingFacts DEF Base
<1>4. /\ \A f \in Functions : \A p \in PortionsOf(f) :
           IF s = "client" /\ f = Fn(s) /\ p = at[s].part
           THEN data'["client"][f][p] = Challenge(f, p)
           ELSE data'["client"][f][p] = data["client"][f][p]
      /\ s = "server" => data'["client"] = data["client"]
  BY CopyBase
<1>5. at' \in [Side -> Place] /\ at'[z] = at[z]
  BY <1>1, <1>3, NextPartPlaced
<1>6. /\ Fn(z)' = Fn(z) /\ Wanted(z)' = Wanted(z)
      /\ Sends(z)' <=> Sends(z)
      /\ Finished(z)' <=> Finished(z)
      /\ AtLast(z)' <=> AtLast(z)
  BY <1>5, SameCall, SameItemOf
<1>7. Written(z)' = Written(z)
  BY <1>5, <1>6 DEF Written
<1>8. Frame(z, Fn(z), at[z].part)' = Frame(z, Fn(z), at[z].part)
  <2>1. CASE s = "server"
    BY <1>4, <1>5, <2>1, FrameKept
  <2>2. CASE s = "client"
    <3>1. z = "server"
      BY <1>1, <2>2
    <3> QED BY <1>5, <3>1, ServerFrameKept
  <2> QED BY <2>1, <2>2 DEF Side
<1>9. ASSUME \A p \in PortionsOf(Fn(s)) : data[s][Fn(s)][p] # NULL
      PROVE  /\ Held'
             /\ \/ /\ Receives(s)'
                   /\ \/ /\ at[s].part < Last(Fn(s)) /\ at'[s].call = at[s].call
                         /\ Fn(s)' = Fn(s) /\ at'[s].part = at[s].part + 1
                         /\ at'[s].pc = "rStart"
                      \/ /\ at[s].part = Last(Fn(s)) /\ Fn(s) < N
                         /\ Fn(s)' = Fn(s) + 1 /\ at'[s].part = 0
                         /\ at'[s].call = at[s].call + 1
                         /\ at'[s].pc = IF s = "client" THEN "initFunc" ELSE "rStart"
                \/ /\ AtLast(s) /\ at'[s].part = 0 /\ at'[s].call = at[s].call + 1
                   /\ s = "client" => at'[s].call = N + 1 /\ at'[s].pc = "puf"
                   /\ s = "server" => Finished(s)' /\ at'[s].pc = "done"
  <2>1. /\ \/ /\ Receives(s)'
              /\ \/ /\ at[s].part < Last(Fn(s)) /\ at'[s].call = at[s].call
                    /\ Fn(s)' = Fn(s) /\ at'[s].part = at[s].part + 1
                    /\ at'[s].pc = "rStart"
                 \/ /\ at[s].part = Last(Fn(s)) /\ Fn(s) < N
                    /\ Fn(s)' = Fn(s) + 1 /\ at'[s].part = 0
                    /\ at'[s].call = at[s].call + 1
                    /\ at'[s].pc = IF s = "client" THEN "initFunc" ELSE "rStart"
           \/ /\ AtLast(s) /\ at'[s].part = 0 /\ at'[s].call = at[s].call + 1
              /\ s = "client" => at'[s].call = N + 1 /\ at'[s].pc = "puf"
              /\ s = "server" => Finished(s)' /\ at'[s].pc = "done"
    BY <1>1, <1>3, <1>9, ReceivesOn
  <2>2. CASE s = "server"
    <3>1. at'["client"] = at["client"]
      BY <1>1, <1>5, <2>2
    <3>2. at'["client"].call \in Nat
      BY <1>5 DEF Side, Place
    <3>3. Held'
      BY <1>1, <1>2, <1>4, <2>2, <3>1, <3>2, HeldKept
    <3> QED BY <2>1, <3>3
  <2>3. CASE s = "client"
    <3> DEFINE f == at["client"].call
               p == at["client"].part
    <3>1. Fn(s) = f /\ f \in Functions /\ f \in Nat /\ p \in Nat
          /\ Functions \subseteq Nat /\ at'["client"].call \in Nat
      BY <1>1, <1>3, <1>5, <2>3, FnFacts, PatternFacts DEF Side, Place
    <3>2. \/ at'["client"].call = f /\ at'["client"].part = p + 1
          \/ at'["client"].call = f + 1 /\ at'["client"].part = 0 /\ p = Last(f)
      BY <2>1, <2>3, <3>1 DEF AtLast
    <3>3. ASSUME NEW g \in Functions, NEW q \in PortionsOf(g)
          PROVE  /\ at'["client"].call > g \/ (at'["client"].call = g /\ at'["client"].part > q) =>
                      data'["client"][g][q] \in {Challenge(g, q), Response(g, q)}
                 /\ at'["client"].call = g /\ at'["client"].part > 0 => data'["client"][g][q] # NULL
      <4>1. q \in Nat /\ g \in Nat /\ q <= Last(g) /\ q \in Portions /\ q > 0 /\ Last(g) \in Nat
        <5>1. q \in 1..Last(g) /\ Last(g) \in 1..4 /\ g \in Nat
          BY <3>1, PatternFacts
        <5>2. q \in Portions
          BY DEF PortionsOf
        <5> QED BY <5>1, <5>2
      <4>2. /\ f > g \/ (f = g /\ p > q) =>
                 data["client"][g][q] \in {Challenge(g, q), Response(g, q)}
            /\ f = g /\ p > 0 => data["client"][g][q] # NULL
        BY <1>2 DEF Held
      <4>3. /\ g = f /\ q = p => data'["client"][g][q] = Challenge(g, q)
            /\ ~(g = f /\ q = p) => data'["client"][g][q] = data["client"][g][q]
        BY <1>4, <2>3, <3>1
      <4>4. Challenge(g, q) # NULL
        <5>1. Len(Challenge(g, q)) = Pattern[g][q] /\ Pattern[g][q] >= 2 /\ Len(NULL) = 0
          BY <4>1, UnitFacts, PatternFacts DEF Challenge, NULL
        <5> QED BY <5>1
      <4>5. at'["client"].call > g \/ (at'["client"].call = g /\ at'["client"].part > q) =>
              f > g \/ (f = g /\ p > q) \/ (g = f /\ q = p)
        <5> DEFINE l == Last(g)
        <5>1. l \in Nat /\ q <= l /\ (g = f => l = Last(f))
          BY <4>1
        <5> HIDE DEF l, f, p
        <5> QED BY <3>1, <3>2, <4>1, <5>1
      <4>6. g = f => data["client"][g][q] # NULL
        BY <1>9, <2>3, <3>1
      <4>7. at'["client"].call = g /\ at'["client"].part > 0 => g = f
        BY <3>1, <3>2
      <4> QED BY <4>2, <4>3, <4>4, <4>5, <4>6, <4>7
    <3>4. Held'
      BY <3>3 DEF Held
    <3> QED BY <2>1, <3>4
  <2> QED BY <2>2, <2>3 DEF Side
<1>10. ASSUME \A p \in PortionsOf(Fn(s)) : data[s][Fn(s)][p] = NULL
       PROVE  /\ s = "client" /\ at[s].part = 0
              /\ \A p \in PortionsOf(Fn(s)) : data'["client"][Fn(s)][p] = NULL
              /\ at'[s].call = at[s].call + 1 /\ at'[s].part = 0
              /\ at'[s].pc \in {"initFunc", "puf"}
  <2>1. 1 \in PortionsOf(Fn(s)) /\ \A p \in PortionsOf(Fn(s)) : p > 0
    BY <1>3, PatternFacts
  <2>2. s = "client"
    BY <1>1, <1>3, <1>10, <2>1 DEF Memory, Side
  <2>3. Fn(s) = at["client"].call
    BY <1>1, <1>3, <2>2, FnFacts
  <2>4. at[s].part = 0
    BY <1>2, <1>3, <1>10, <2>1, <2>2, <2>3 DEF Held
  <2>5. NextCall(s)
    <3>1. "rStart" \in PC
      BY DEF PC, Reading
    <3> QED BY <1>1, <1>3, <1>10, <3>1, NextPartMoves
  <2>6. /\ at'[s].call = at[s].call + 1 /\ at'[s].part = 0
        /\ at'[s].pc \in {"initFunc", "puf"}
    <3>1. Fn(s) < N \/ Fn(s) = N
      BY <1>1, <1>3, PatternFacts
    <3> QED BY <1>1, <1>3, <2>2, <2>5, <3>1, AfterReceiving
  <2>7. \A p \in PortionsOf(Fn(s)) : data'["client"][Fn(s)][p] = NULL
    <3>1. \A p \in PortionsOf(Fn(s)) : p # at[s].part
      BY <2>1, <2>4
    <3> QED BY <1>3, <1>4, <1>10, <2>2, <3>1
  <2> QED BY <2>2, <2>4, <2>6, <2>7
<1>11. \/ \A p \in PortionsOf(Fn(s)) : data[s][Fn(s)][p] # NULL
       \/ \A p \in PortionsOf(Fn(s)) : data[s][Fn(s)][p] = NULL
  BY <1>1, <1>3 DEF Memory, Side
<1>12. \/ /\ Held'
          /\ \/ /\ Receives(s)'
                /\ \/ /\ at[s].part < Last(Fn(s)) /\ at'[s].call = at[s].call
                      /\ Fn(s)' = Fn(s) /\ at'[s].part = at[s].part + 1
                      /\ at'[s].pc = "rStart"
                   \/ /\ at[s].part = Last(Fn(s)) /\ Fn(s) < N
                      /\ Fn(s)' = Fn(s) + 1 /\ at'[s].part = 0
                      /\ at'[s].call = at[s].call + 1
                      /\ at'[s].pc = IF s = "client" THEN "initFunc" ELSE "rStart"
             \/ /\ AtLast(s) /\ at'[s].part = 0 /\ at'[s].call = at[s].call + 1
                /\ s = "client" => at'[s].call = N + 1 /\ at'[s].pc = "puf"
                /\ s = "server" => Finished(s)' /\ at'[s].pc = "done"
       \/ /\ s = "client" /\ at[s].part = 0
          /\ \A p \in PortionsOf(Fn(s)) : data'["client"][Fn(s)][p] = NULL
          /\ at'[s].call = at[s].call + 1 /\ at'[s].part = 0
          /\ at'[s].pc \in {"initFunc", "puf"}
  <2>1. CASE \A p \in PortionsOf(Fn(s)) : data[s][Fn(s)][p] # NULL
    BY <1>9, <2>1
  <2>2. CASE \A p \in PortionsOf(Fn(s)) : data[s][Fn(s)][p] = NULL
    BY <1>10, <2>2
  <2> QED BY <1>11, <2>1, <2>2
<1> QED BY <1>1, <1>2, <1>3, <1>5, <1>6, <1>7, <1>8, <1>12

\* A receiver that copied is at the next item, and the sender behind it; a client that
\* has no memory for the portions that follow is lost.
LEMMA TogetherCopies ==
  ASSUME IInv, NEW x \in Side, NEW r \in Side, r = Peer(x), Together(x, r), Copy(r)
  PROVE  InSync' \/ \E f \in Functions : Lost(f)'
<1>1. /\ Base /\ TypeOK /\ Placed /\ x # r /\ x = Peer(r) /\ Sends(x) /\ Receives(r)
      /\ Fn(x) = Fn(r) /\ at[x].part = at[r].part /\ N \in Nat \ {0} /\ Fn(x) \in 1..N
      /\ Fn(x) \in Functions /\ at[x].part \in 0..4
  BY FnFacts, PatternFacts DEF IInv, Base, TypeOK, Together, SameItem, Side, Peer, Place
<1>2. /\ at[r].pc = "copy" /\ Held
      /\ chan' = chan /\ cut' = cut /\ accepted' = accepted /\ acked' = acked
      /\ at' \in [Side -> Place] /\ at'[x] = at[x]
      /\ Fn(x)' = Fn(x) /\ Sends(x)'
      /\ AtLast(x)' <=> AtLast(x)
  <2>1. /\ at[r].pc = "copy" /\ Held
        /\ chan' = chan /\ cut' = cut /\ accepted' = accepted /\ acked' = acked
    BY <1>1, CopyMoves
  <2>2. at' \in [Side -> Place] /\ at'[x] = at[x]
    BY <1>1, CopyMoves
  <2>3. Fn(x)' = Fn(x)
    BY <2>2, SameCall
  <2>4. Sends(x)'
    BY <1>1, CopyMoves
  <2>5. AtLast(x)' <=> AtLast(x)
    BY <1>1, CopyMoves
  <2> QED BY <2>1, <2>2, <2>3, <2>4, <2>5
<1>3. /\ at[x].pc \in {"wAck", "done"} /\ (at[x].pc = "done" => cut)
      /\ OneAhead /\ LastIs(r, Fn(r), at[r].part) /\ chan[r] = <<>> /\ AckPending(x)
  BY <1>2 DEF Together, Reading
<1>4. OneAhead' /\ LastIs(r, Fn(x), at[x].part)' /\ AckPending(x)'
  BY <1>1, <1>2, <1>3 DEF OneAhead, LastIs, AckPending, ACK
<1>5. CASE /\ Held' /\ Receives(r)'
           /\ \/ /\ Fn(r)' = Fn(r) /\ at'[r].part = at[r].part + 1 /\ at'[r].pc = "rStart"
              \/ /\ at[r].part = Last(Fn(r)) /\ Fn(r)' = Fn(r) + 1 /\ at'[r].part = 0
                 /\ at'[r].pc \in {"initFunc", "rStart"}
  <2>1. ItemAfter(r, x)'
    BY <1>1, <1>2, <1>5 DEF ItemAfter
  <2>2. Behind(x, r)'
    BY <1>2, <1>3, <1>4, <1>5, <2>1 DEF Behind
  <2> QED BY <1>1, <1>5, <2>2 DEF InSync, Side
<1>6. CASE Held' /\ AtLast(r) /\ at'[r].part = 0 /\ r = "client" /\ at'[r].call = N + 1 /\ at'[r].pc = "puf"
  <2>1. x = "server" /\ AtLast(x) /\ Fn(x) = N /\ at[x].part = Last(N)
    BY <1>1, <1>6 DEF AtLast, Side
  <2>2. at["server"].call = N
    BY <1>1, <2>1, FnFacts DEF TypeOK
  <2>3. LastIs("client", N, Last(N))'
    BY <1>4, <1>6, <2>1, <1>2 DEF LastIs
  <2>4. \/ chan'["server"] = <<>> /\ cut'
        \/ chan'["server"] # <<>> /\ Head(chan'["server"]) = ACK /\ Tail(chan'["server"]) = <<>>
    <3>1. chan'["server"] = <<ACK>> \/ (cut' /\ chan'["server"] = <<>>)
      BY <1>4, <2>1 DEF AckPending, ACK
    <3>2. <<ACK>> # <<>> /\ Head(<<ACK>>) = ACK /\ Tail(<<ACK>>) = <<>>
      OBVIOUS
    <3> QED BY <3>1, <3>2
  <2>5. ClientTurns'
    <3>1. ACK' = ACK
      BY DEF ACK
    <3>2. \A s \in Side : at'[s].pc = "done" => cut'
      BY <1>1, <1>2, <1>3, <1>6 DEF Side
    <3> QED BY <1>2, <1>3, <1>4, <1>6, <2>1, <2>2, <2>3, <2>4, <3>1, <3>2 DEF ClientTurns
  <2> QED BY <1>6, <2>5 DEF InSync
<1>7. CASE Held' /\ AtLast(r) /\ r = "server" /\ Finished(r)'
  <2>1. Fn(x)' = N /\ at'[x].part = Last(N)
    BY <1>1, <1>2, <1>7 DEF AtLast
  <2>2. Behind(x, r)'
    BY <1>2, <1>3, <1>4, <1>7, <2>1 DEF Behind
  <2> QED BY <1>1, <1>7, <2>2 DEF InSync, Side
<1>8. CASE /\ r = "client" /\ at[r].part = 0
           /\ \A p \in PortionsOf(Fn(r)) : data'["client"][Fn(r)][p] = NULL
           /\ at'[r].call = at[r].call + 1 /\ at'[r].part = 0
           /\ at'[r].pc \in {"initFunc", "puf"}
  <2>0. PICK f \in Functions : f = Fn(r)
    BY <1>1
  <2>1. x = "server" /\ at["server"].call = f /\ at["client"].call = f /\ at["server"].part = 0
        /\ f \in Functions /\ f \in Nat
    BY <1>1, <1>8, <2>0, BaseFn DEF Side
  <2>2. LastIs("client", f, 0)'
    <3>1. accepted' = accepted /\ at[r].part = 0 /\ r = "client"
      BY <1>2, <1>8
    <3>2. LastIs("client", f, 0)
      BY <1>3, <2>0, <3>1
    <3> QED BY <3>1, <3>2 DEF LastIs
  <2>3. \A k \in 1..Len(chan'["server"]) : chan'["server"][k] = ACK => k = 1
    <3>1. chan'["server"] = <<ACK>> \/ chan'["server"] = <<>>
      BY <1>4, <2>1 DEF AckPending, ACK
    <3>2. CASE chan'["server"] = <<ACK>>
      <4>1. Len(<<ACK>>) = 1
        OBVIOUS
      <4> QED BY <3>2, <4>1
    <3>3. CASE chan'["server"] = <<>>
      <4>1. Len(<<>>) = 0
        OBVIOUS
      <4> QED BY <3>3, <4>1
    <3> QED BY <3>1, <3>2, <3>3
  <2>4. at'["client"].call > f
    BY <1>8, <2>1
  <2>5. \A p \in PortionsOf(f) : data'["client"][f][p] = NULL
    BY <1>8, <2>0
  <2>6. ACK' = ACK
    BY DEF ACK
  <2>7. Lost(f)'
    <3>1. at'["server"] = at["server"]
      BY <1>2, <2>1
    <3>2. chan'["client"] = <<>> /\ OneAhead' /\ r = "client"
      BY <1>2, <1>3, <1>4, <1>8
    <3>3. at'["client"].part = 0 /\ at'["client"].pc \in {"initFunc", "puf"}
          /\ at'["server"].call = f /\ at'["server"].part = 0
          /\ at'["server"].pc \in {"wAck", "done"}
      BY <1>3, <1>8, <2>1, <3>1
    <3> QED BY <2>2, <2>3, <2>4, <2>5, <2>6, <3>2, <3>3 DEF Lost
  <2> QED BY <2>1, <2>7
<1> QED BY <1>1, <1>5, <1>6, <1>7, <1>8, CopyMoves DEF Side

(***************************************************************************)
(* Behind: the receiver has gone on, the sender has not.                   *)
(***************************************************************************)
\* It is the turn of the item after the one accepted last.
LEMMA NextIsDue ==
  ASSUME Base, Base', NEW r \in Side, accepted' = accepted,
         NEW f \in Functions, NEW p \in 0..Last(f), LastIs(r, f, p),
         \/ p < Last(f) /\ Fn(r)' = f /\ at'[r].part = p + 1
         \/ p = Last(f) /\ f < N /\ Fn(r)' = f + 1 /\ at'[r].part = 0
  PROVE  Due(r)'
<1> DEFINE item == accepted[Len(accepted)]
<1>1. /\ accepted # <<>> /\ SubSeq(item, 1, 3) = <<r, f, p>>
      /\ accepted \in Seq(Side \X Functions \X (0..4) \X Seq(Unit))
  BY DEF LastIs, Base, Logged
<1>2. item \in Side \X Functions \X (0..4) \X Seq(Unit)
  BY <1>1
<1> HIDE DEF item
<1>3. After(item) = IF p < Last(f) THEN {<<r, f, p + 1>>}
                    ELSE IF f < N THEN {<<r, f + 1, 0>>}
                    ELSE IF r = "client" THEN {<<"server", 1, 0>>}
                    ELSE {}
  BY <1>1, <1>2, AfterFacts
<1>4. Last(f) \in Nat
  BY PatternFacts
<1>5. <<r, Fn(r)', at'[r].part>> \in After(item)
  BY <1>3, <1>4
<1>6. After(item) = After(accepted[Len(accepted)])'
  BY DEF item, After
<1> QED BY <1>1, <1>5, <1>6 DEF Due

\* Where the sides are when the receiver has gone on first.
LEMMA BehindFacts ==
  ASSUME Base, NEW x \in Side, NEW r \in Side, r = Peer(x), Behind(x, r)
  PROVE  /\ TypeOK /\ Placed /\ x # r /\ x = Peer(r) /\ Sends(x) /\ N \in Nat \ {0}
         /\ Fn(x) \in Functions /\ Fn(x) \in 1..N /\ at[x].part \in 0..Last(Fn(x))
         /\ Last(Fn(x)) \in Nat
         /\ \/ /\ Receives(r) /\ at[r].pc \in {"initFunc", "rStart", "done"}
               /\ (at[r].pc = "done" => cut) /\ ~AtLast(x)
               /\ \/ /\ at[x].part < Last(Fn(x)) /\ Fn(r) = Fn(x)
                     /\ at[r].part = at[x].part + 1
                  \/ /\ at[x].part = Last(Fn(x)) /\ Fn(x) < N /\ Fn(r) = Fn(x) + 1
                     /\ at[r].part = 0
            \/ /\ r = "server" /\ x = "client" /\ Finished(r) /\ at[r].pc = "done" /\ AtLast(x)
<1>1. /\ TypeOK /\ Placed /\ x # r /\ x = Peer(r) /\ Sends(x) /\ N \in Nat \ {0}
      /\ Fn(x) \in Functions /\ Fn(x) \in 1..N /\ at[x].part \in 0..4
      /\ at[x].part <= Last(Fn(x)) /\ Last(Fn(x)) \in Nat
  <2>1. Sends(x) /\ x # r /\ x = Peer(r)
    BY DEF Behind, Side, Peer
  <2> QED BY <2>1, BaseFn, ItemOf
<1>2. CASE /\ Receives(r) /\ ItemAfter(r, x)
           /\ at[r].pc \in {"initFunc", "rStart", "done"} /\ (at[r].pc = "done" => cut)
  <2>1. Fn(r) \in 1..N /\ at[r].part \in 0..4 /\ at[r].part <= Last(Fn(r))
    BY <1>2, ItemOf
  <2>2. CASE Fn(r) = Fn(x) /\ at[r].part = at[x].part + 1
    <3>1. at[x].part < Last(Fn(x)) /\ at[x].part # Last(Fn(x))
      BY <1>1, <2>1, <2>2
    <3>2. ~AtLast(x)
      BY <3>1 DEF AtLast
    <3> QED BY <1>1, <1>2, <2>2, <3>1, <3>2
  <2>3. CASE at[x].part = Last(Fn(x)) /\ Fn(r) = Fn(x) + 1 /\ at[r].part = 0
    <3>1. Fn(x) < N
      BY <1>1, <2>1, <2>3
    <3>2. ~AtLast(x)
      BY <1>1, <3>1 DEF AtLast
    <3> QED BY <1>1, <1>2, <2>3, <3>1, <3>2
  <2> QED BY <1>2, <2>2, <2>3 DEF ItemAfter
<1>3. CASE r = "server" /\ Finished(r) /\ Fn(x) = N /\ at[x].part = Last(N)
  <2>1. at[r].pc = "done"
    BY <1>1, <1>3 DEF Placed, PlacedAt
  <2> QED BY <1>1, <1>3, <2>1 DEF AtLast, Side
<1> QED BY <1>1, <1>2, <1>3 DEF Behind

\* The acknowledgement brings the sender to the item that the receiver is at.
LEMMA BehindWaits ==
  ASSUME Base, Base', Held, NEW x \in Side, NEW r \in Side, r = Peer(x), Behind(x, r),
         waitForAck(x)
  PROVE  InSync'
<1>1. /\ TypeOK /\ Placed /\ x # r /\ x = Peer(r) /\ Sends(x) /\ N \in Nat \ {0}
      /\ Fn(x) \in Functions /\ Fn(x) \in 1..N /\ at[x].part \in 0..Last(Fn(x))
      /\ Last(Fn(x)) \in Nat
  BY BehindFacts
<1>2. chan[x] # <<>>
  BY DEF waitForAck, Arrived
<1>3. /\ OneAhead /\ LastIs(r, Fn(x), at[x].part)
      /\ chan[r] = <<>> /\ chan[x] = <<ACK>>
  BY <1>2 DEF Behind, AckPending
<1>4. Head(chan[x]) = ACK /\ Tail(chan[x]) = <<>>
  BY <1>3
<1>5. /\ Level' /\ Held'
      /\ chan'[x] = <<>> /\ chan'[r] = <<>> /\ cut' = cut /\ accepted' = accepted
      /\ at'[r] = at[r] /\ Fn(r)' = Fn(r)
      /\ Receives(r)' <=> Receives(r)
      /\ Finished(r)' <=> Finished(r)
      /\ \/ /\ Sends(x)' /\ at'[x].pc = "wStart"
            /\ \/ /\ at[x].part < Last(Fn(x)) /\ Fn(x)' = Fn(x)
                  /\ at'[x].part = at[x].part + 1
               \/ /\ at[x].part = Last(Fn(x)) /\ Fn(x) < N /\ Fn(x)' = Fn(x) + 1
                  /\ at'[x].part = 0
         \/ /\ AtLast(x)
            /\ x = "client" => Finished(x)' /\ at'[x].pc = "done"
  BY <1>1, <1>3, <1>4, WaitMoves
<1>6. CASE /\ Receives(r) /\ at[r].pc \in {"initFunc", "rStart", "done"}
           /\ (at[r].pc = "done" => cut) /\ ~AtLast(x)
           /\ \/ /\ at[x].part < Last(Fn(x)) /\ Fn(r) = Fn(x)
                 /\ at[r].part = at[x].part + 1
              \/ /\ at[x].part = Last(Fn(x)) /\ Fn(x) < N /\ Fn(r) = Fn(x) + 1
                 /\ at[r].part = 0
  <2>1. Sends(x)' /\ at'[x].pc = "wStart"
    BY <1>1, <1>3, <1>4, <1>6, WaitMoves
  <2>2. SameItem(x, r)'
    <3>1. at[x].part < Last(Fn(x)) => at[x].part # Last(Fn(x))
      BY <1>1
    <3>2. /\ at[x].part < Last(Fn(x)) => Fn(x)' = Fn(x) /\ at'[x].part = at[x].part + 1
          /\ at[x].part = Last(Fn(x)) => Fn(x)' = Fn(x) + 1 /\ at'[x].part = 0
      BY <1>5, <1>6, <3>1
    <3>3. Fn(x)' = Fn(r)' /\ at'[x].part = at'[r].part /\ Receives(r)'
      BY <1>5, <1>6, <3>2
    <3> QED BY <2>1, <3>3 DEF SameItem
  <2>3. Due(r)'
    BY <1>1, <1>3, <1>5, <1>6, NextIsDue
  <2>4. Along(<<>>, Frame(x, Fn(x), at[x].part)', 0, Written(x)', ~cut')
    BY <1>5, <2>1, StartsPiece DEF Base, TypeOK
  <2>5. at[r].pc = "done" => Together(x, r)'
    BY <1>5, <1>6, <2>1, <2>2 DEF Together
  <2>6. ASSUME at[r].pc \in {"initFunc", "rStart"}
        PROVE  Together(x, r)'
    <3>1. Read(r)' = 0
      BY <1>5, <2>6 DEF Read
    <3>2. Piece(x, chan[r], Read(r))'
      BY <1>5, <2>4, <3>1 DEF Piece
    <3> QED BY <1>5, <2>1, <2>2, <2>3, <2>6, <3>2 DEF Together, Reading
  <2>7. Together(x, r)'
    BY <1>6, <2>5, <2>6
  <2> QED BY <1>1, <1>5, <2>7 DEF InSync, Side
<1>7. CASE r = "server" /\ x = "client" /\ Finished(r) /\ at[r].pc = "done" /\ AtLast(x)
  <2>1. Finished(x)'
    <3>1. ~(at[x].part < Last(Fn(x))) /\ ~(Fn(x) < N)
      BY <1>1, <1>7 DEF AtLast
    <3> QED BY <1>5, <1>7, <3>1
  <2> QED BY <1>1, <1>5, <1>7, <2>1 DEF InSync, AllThrough, Side
<1> QED BY <1>6, <1>7, BehindFacts

\* Either side may give up on a link that is down.
LEMMA BehindQuits ==
  ASSUME Base, Held, NEW x \in Side, NEW r \in Side, r = Peer(x), Behind(x, r),
         NEW s \in Side, WriteFails(s) \/ ReadFails(s)
  PROVE  InSync' \/ Derailed'
<1>1. /\ TypeOK /\ Placed /\ x # r /\ x = Peer(r) /\ Sends(x)
      /\ at[x].pc \in {"wAck", "done"} /\ (at[x].pc = "done" => cut)
      /\ OneAhead /\ LastIs(r, Fn(x), at[x].part) /\ chan[r] = <<>> /\ AckPending(x)
  BY BehindFacts DEF Behind
<1>2. /\ \/ /\ Receives(r) /\ at[r].pc \in {"initFunc", "rStart", "done"}
            /\ (at[r].pc = "done" => cut) /\ ~AtLast(x)
         \/ /\ r = "server" /\ x = "client" /\ Finished(r) /\ at[r].pc = "done"
  BY BehindFacts
<1>3. ~Up(s) /\ at[s].pc \in Writing \cup Reading \cup {"sAck"}
      /\ (at[s].pc \in Reading \cup {"wAck"} => chan[s] = <<>>)
      /\ data' = data /\ chan' = chan /\ cut' = cut
      /\ accepted' = accepted /\ acked' = acked
      /\ at' \in [Side -> Place] /\ at'[Peer(s)] = at[Peer(s)]
  BY QuitMoves, <1>1 DEF Side, Peer
<1>4. OneAhead' /\ ACK' = ACK
  BY <1>1, <1>3 DEF OneAhead, ACK
<1>5. CASE s = x
  <2>1. cut
    <3>1. at[x].pc = "done" \/ chan[x] = <<>>
      BY <1>1, <1>3, <1>5
    <3>2. <<ACK>> # <<>>
      OBVIOUS
    <3> QED BY <1>1, <3>1, <3>2 DEF AckPending
  <2>2. /\ at'[x].pc = "done" /\ at'[x].call = at[x].call /\ at'[x].part = at[x].part
        /\ at'[r] = at[r]
    BY <1>1, <1>5, QuitMoves
  <2>3. /\ Fn(x)' = Fn(x) /\ Sends(x)' /\ Fn(r)' = Fn(r)
        /\ Receives(r)' <=> Receives(r)
        /\ Finished(r)' <=> Finished(r)
    BY <1>1, <2>2, SameCall
  <2>4. LastIs(r, Fn(x), at[x].part)' /\ AckPending(x)'
    BY <1>1, <1>3, <2>2, <2>3 DEF LastIs, AckPending, ACK
  <2>5. ItemAfter(r, x)' <=> ItemAfter(r, x)
    BY <2>2, <2>3 DEF ItemAfter
  <2>6. Behind(x, r)'
    BY <1>1, <1>3, <1>4, <2>1, <2>2, <2>3, <2>4, <2>5 DEF Behind
  <2>7. Held'
    <3>1. at'["client"].call = at["client"].call /\ at'["client"].part = at["client"].part
      BY <1>1, <2>2 DEF Side
    <3>2. at'["client"].call \in Nat
      BY <1>3 DEF Side, Place
    <3> QED BY <1>1, <1>3, <3>1, <3>2, HeldKept
  <2> QED BY <1>1, <2>6, <2>7 DEF InSync, Side
<1>6. CASE s = r
  <2>0. Receives(r) /\ at[r].pc = "rStart" /\ ~AtLast(x)
    BY <1>2, <1>3, <1>6 DEF Writing, Reading
  <2>1. cut
    BY <1>1, <1>3, <1>6 DEF Up
  <2>2. at'[x] = at[x] /\ Fn(x)' = Fn(x) /\ Sends(x)' /\ (AtLast(x)' <=> AtLast(x))
    <3>1. at'[x] = at[x]
      BY <1>1, <1>3, <1>6
    <3> QED BY <1>1, <3>1, SameCall, SameItemOf
  <2>3. LastIs(r, Fn(x), at[x].part)' /\ AckPending(x)'
    BY <1>1, <1>3, <2>2 DEF LastIs, AckPending, ACK
  <2>4. CASE r = "client"
    <3>1. at'["client"].pc \in {"initFunc", "puf"} /\ at'["client"].part = 0
      BY <1>1, <1>6, <2>0, <2>4, QuitMoves
    <3>2. x = "server"
      BY <1>1, <2>4 DEF Side
    <3>3. \/ chan'["server"] = <<>>
          \/ chan'["server"] = <<ACK>>
      BY <2>3, <3>2 DEF AckPending, ACK
    <3> QED BY <1>1, <1>3, <1>4, <2>0, <2>1, <2>2, <2>3, <2>4, <3>1, <3>2, <3>3 DEF Derailed
  <2>5. CASE r = "server"
    <3>1. at'[r].pc = "done" /\ at'[r].call = at[r].call /\ at'[r].part = at[r].part
      BY <1>1, <1>6, <2>5, QuitMoves
    <3>2. Receives(r)' /\ Fn(r)' = Fn(r)
      BY <2>0, <3>1, SameCall
    <3>3. ItemAfter(r, x)
      BY <1>2, <2>0, Kinds, <1>1 DEF Behind
    <3>4. ItemAfter(r, x)'
      BY <2>2, <3>1, <3>2, <3>3 DEF ItemAfter
    <3>5. Behind(x, r)'
      BY <1>1, <1>3, <1>4, <2>1, <2>2, <2>3, <3>1, <3>2, <3>4 DEF Behind
    <3>6. Held'
      <4>1. at'["client"] = at["client"]
        BY <1>1, <2>2, <2>5 DEF Side
      <4>2. at'["client"].call \in Nat
        BY <1>3 DEF Side, Place
      <4> QED BY <1>1, <1>3, <4>1, <4>2, HeldKept
    <3> QED BY <1>1, <3>5, <3>6 DEF InSync, Side
  <2> QED BY <2>4, <2>5 DEF Side
<1> QED BY <1>1, <1>5, <1>6 DEF Side, Peer

\* The client may take its memory before the server has read the acknowledgement.
LEMMA BehindInits ==
  ASSUME Base, Held, Behind("server", "client"), initFunc
  PROVE  Held' /\ Behind("server", "client")'
<1>1. /\ at["client"].pc = "initFunc" /\ UNCHANGED <<buffer, func, chan, cut, ok, history>>
      /\ at'["server"] = at["server"] /\ at' \in [Side -> Place]
      /\ at'["client"].pc = "rStart" /\ at'["client"].call = at["client"].call
      /\ at'["client"].part = 0 /\ at["client"].part = 0
  <2>1. at["client"].pc = "initFunc" /\ UNCHANGED <<buffer, func, chan, cut, ok, history>>
    BY DEF initFunc
  <2>2. at["client"].part = 0
    BY <2>1, Kinds DEF Base, Placed, PlacedAt, Side
  <2> QED BY <2>1, <2>2, InitFuncBase
<1>2. Receives("client") /\ ItemAfter("client", "server")
  BY <1>1 DEF Behind
<1>3. /\ Fn("client")' = Fn("client") /\ Receives("client")'
      /\ Fn("server")' = Fn("server") /\ Sends("server")' = Sends("server")
      /\ ItemAfter("client", "server")'
  BY <1>1, <1>2 DEF Fn, Receives, Sends, ItemAfter
<1>4. Held'
  BY HeldInit
<1>5. OneAhead' /\ LastIs("client", Fn("server"), at["server"].part)' /\ AckPending("server")'
  BY <1>1, <1>3 DEF Behind, OneAhead, LastIs, AckPending, ACK, history
<1> QED BY <1>1, <1>3, <1>4, <1>5 DEF Behind

(***************************************************************************)
(* Ahead: the sender has gone on, the receiver has not.                    *)
(***************************************************************************)
LEMMA AheadFacts ==
  ASSUME Base, NEW x \in Side, NEW r \in Side, r = Peer(x), Ahead(x, r)
  PROVE  /\ TypeOK /\ Placed /\ x # r /\ x = Peer(r) /\ Receives(r) /\ N \in Nat \ {0}
         /\ Fn(r) \in Functions /\ Fn(r) \in 1..N /\ at[r].part \in 0..Last(Fn(r))
         /\ Last(Fn(r)) \in Nat /\ Last(Fn(r)) > 0
         /\ \/ /\ Sends(x) /\ (at[x].pc = "done" => cut) /\ ~AtLast(r)
               /\ Piece(x, chan[r], 0)
               /\ \/ /\ at[r].part < Last(Fn(r)) /\ Fn(x) = Fn(r)
                     /\ at[x].part = at[r].part + 1
                  \/ /\ at[r].part = Last(Fn(r)) /\ Fn(r) < N /\ Fn(x) = Fn(r) + 1
                     /\ at[x].part = 0
            \/ /\ r = "server" /\ x = "client" /\ Finished(x) /\ at[x].pc = "done"
               /\ AtLast(r) /\ chan[r] = <<>>
<1>1. /\ TypeOK /\ Placed /\ x # r /\ x = Peer(r) /\ Receives(r) /\ N \in Nat \ {0}
      /\ Fn(r) \in Functions /\ Fn(r) \in 1..N /\ at[r].part \in 0..4
      /\ at[r].part \in Nat /\ at[r].part \in 0..Last(Fn(r))
      /\ Last(Fn(r)) \in Nat /\ Last(Fn(r)) > 0
  <2>1. Receives(r) /\ x # r /\ x = Peer(r)
    BY DEF Ahead, Side, Peer
  <2>2. Last(Fn(r)) \in 1..4 /\ at[r].part \in 0..4
    BY <2>1, ItemOf
  <2>3. Last(Fn(r)) > 0 /\ at[r].part \in Nat
    BY <2>2
  <2> QED BY <2>1, <2>2, <2>3, BaseFn, ItemOf
<1>2. CASE Sends(x) /\ ItemAfter(x, r) /\ (at[x].pc = "done" => cut) /\ Piece(x, chan[r], 0)
  <2>1. Fn(x) \in 1..N /\ at[x].part \in 0..Last(Fn(x)) /\ Last(Fn(x)) \in Nat
    BY <1>2, ItemOf
  <2>2. CASE Fn(x) = Fn(r) /\ at[x].part = at[r].part + 1
    <3>1. at[r].part < Last(Fn(r)) /\ at[r].part # Last(Fn(r))
      <4> DEFINE a == at[r].part
                 l == Last(Fn(r))
      <4>1. a \in Nat /\ l \in Nat
        BY <1>1
      <4>2. a + 1 <= l
        BY <2>1, <2>2
      <4> HIDE DEF a, l
      <4>3. a < l /\ a # l
        BY <4>1, <4>2
      <4> QED BY <4>3 DEF a, l
    <3>2. ~AtLast(r)
      BY <3>1 DEF AtLast
    <3> QED BY <1>1, <1>2, <2>2, <3>1, <3>2
  <2>3. CASE at[r].part = Last(Fn(r)) /\ Fn(x) = Fn(r) + 1 /\ at[x].part = 0
    <3>1. Fn(r) \in Nat /\ Fn(x) <= N /\ N \in Nat
      BY <1>1, <2>1
    <3>2. Fn(r) < N
      <4> DEFINE g == Fn(r)
      <4>1. g + 1 <= N
        BY <2>3, <3>1
      <4>2. g \in Nat
        BY <3>1
      <4> HIDE DEF g
      <4>3. g < N
        BY <3>1, <4>1, <4>2
      <4> QED BY <4>3 DEF g
    <3>3. ~AtLast(r)
      BY <1>1, <3>1, <3>2 DEF AtLast
    <3> QED BY <1>1, <1>2, <2>3, <3>2, <3>3
  <2> QED BY <1>2, <2>2, <2>3 DEF ItemAfter
<1>3. CASE x = "client" /\ Finished(x) /\ chan[r] = <<>> /\ Fn(r) = N /\ at[r].part = Last(N)
  <2>1. at[x].pc = "done"
    BY <1>1, <1>3 DEF Placed, PlacedAt
  <2> QED BY <1>1, <1>3, <2>1 DEF AtLast, Side
<1> QED BY <1>1, <1>2, <1>3 DEF Ahead

\* The sender may write the next item before the receiver has copied this one.
LEMMA AheadSends ==
  ASSUME Base, Held, NEW x \in Side, NEW r \in Side, r = Peer(x), Ahead(x, r),
         sendFramedStream(x)
  PROVE  Held' /\ Ahead(x, r)'
<1>1. /\ TypeOK /\ Placed /\ x # r /\ x = Peer(r) /\ Receives(r) /\ N \in Nat \ {0}
      /\ at[r].pc = "copy" /\ Level /\ LastIs(r, Fn(r), at[r].part) /\ chan[x] = <<>>
      /\ chan[r] \in Seq(Unit)
  BY AheadFacts DEF Ahead, TypeOK
<1>2. /\ UNCHANGED <<buffer, heap, cut, ok, history>> /\ data' = data /\ cut' = cut
      /\ at[x].pc \in {"wStart", "wData", "wStop"}
      /\ accepted' = accepted /\ acked' = acked
  BY DEF sendFramedStream, heap, history
<1>3. Sends(x) /\ ~Finished(x)
  BY <1>1, <1>2, Kinds DEF Writing
<1>4. x = "client" /\ at[x].part # 0 => data["client"][Fn(x)][at[x].part] # NULL
  BY <1>3, SenderHolds
<1>5. ItemAfter(x, r) /\ Piece(x, chan[r], 0)
  BY <1>3 DEF Ahead
<1> DEFINE F == Frame(x, Fn(x), at[x].part)
           q == chan[r]
           whole == ~cut
<1>6. Along(q, F, 0, Written(x), whole) /\ q \in Seq(Unit) /\ whole \in BOOLEAN
  BY <1>1, <1>5 DEF Piece
<1> HIDE DEF q, whole
<1>7. PICK u \in Seq(Unit) :
        /\ Write(x, u)
        /\ whole => Along(q \o u, F', 0, Written(x)', whole)
        /\ Along(q, F', 0, Written(x)', FALSE)
        /\ at' \in [Side -> Place] /\ at'[r] = at[r]
        /\ at'[x].pc \in Writing /\ at'[x].call = at[x].call /\ at'[x].part = at[x].part
  <2>1. 0 \in Nat
    OBVIOUS
  <2> HIDE DEF F
  <2> QED BY <1>4, <1>6, <2>1, SentPiece DEF F
<1>8. /\ Fn(x)' = Fn(x) /\ Sends(x)' /\ Fn(r)' = Fn(r) /\ Receives(r)'
  BY <1>1, <1>3, <1>7, SameCall
<1>9. chan'[x] = <<>> /\ chan'[r] = IF ~cut THEN q \o u ELSE q
  <2>1. Up(x) <=> ~cut
    BY <1>1 DEF Up
  <2> QED BY <1>1, <1>7, <2>1, WriteMoves DEF q
<1>10. Along(chan'[r], F', 0, Written(x)', ~cut')
  <2>1. CASE cut
    <3>1. (~cut') = FALSE /\ chan'[r] = q
      BY <1>2, <1>9, <2>1
    <3> QED BY <1>7, <3>1
  <2>2. CASE ~cut
    <3>1. (~cut') = whole /\ chan'[r] = q \o u /\ whole
      BY <1>2, <1>9, <2>2 DEF whole
    <3> QED BY <1>7, <3>1
  <2> QED BY <2>1, <2>2
<1>11. Level' /\ LastIs(r, Fn(r), at[r].part)' /\ ItemAfter(x, r)'
  BY <1>1, <1>2, <1>5, <1>7, <1>8 DEF Level, LastIs, ItemAfter
<1>12. Piece(x, chan[r], 0)'
  BY <1>10 DEF Piece
<1>13. Ahead(x, r)'
  BY <1>1, <1>7, <1>8, <1>9, <1>11, <1>12 DEF Ahead, Writing
<1>14. Held'
  <2>1. at'["client"].call = at["client"].call /\ at'["client"].part = at["client"].part
    BY <1>1, <1>7 DEF Side
  <2>2. at'["client"].call \in Nat
    BY <1>7 DEF Side, Place
  <2> QED BY <1>1, <1>2, <2>1, <2>2, HeldKept
<1> QED BY <1>13, <1>14

\* A sender that gives up the next item leaves the receiver where it is.
LEMMA AheadQuits ==
  ASSUME Base, Held, NEW x \in Side, NEW r \in Side, r = Peer(x), Ahead(x, r),
         NEW s \in Side, WriteFails(s) \/ ReadFails(s)
  PROVE  Held' /\ Ahead(x, r)'
<1>1. /\ TypeOK /\ Placed /\ x # r /\ x = Peer(r) /\ Receives(r) /\ N \in Nat \ {0}
      /\ at[r].pc = "copy" /\ Level /\ LastIs(r, Fn(r), at[r].part) /\ chan[x] = <<>>
      /\ chan[r] \in Seq(Unit)
  BY AheadFacts DEF Ahead, TypeOK
<1>2. s = x
  BY <1>1, QuitMoves DEF Writing, Reading, Side, Peer
<1>3. ~Up(x) /\ at[x].pc \in Writing \cup Reading \cup {"sAck"}
      /\ data' = data /\ chan' = chan /\ cut' = cut
      /\ accepted' = accepted /\ acked' = acked
      /\ at' \in [Side -> Place] /\ at'[r] = at[r]
      /\ (Sends(x) =>
            at'[x].pc = "done" /\ at'[x].call = at[x].call /\ at'[x].part = at[x].part)
  BY <1>2, QuitMoves
<1>4. Sends(x) /\ ItemAfter(x, r) /\ Piece(x, chan[r], 0)
  <2>1. at[x].pc # "done"
    BY <1>3 DEF Writing, Reading
  <2> QED BY <2>1, AheadFacts DEF Ahead
<1>5. x = "client" /\ at[x].part # 0 => data["client"][Fn(x)][at[x].part] # NULL
  BY <1>4, SenderHolds
<1>6. cut
  BY <1>1, <1>3 DEF Up
<1>7. /\ Fn(x)' = Fn(x) /\ Sends(x)' /\ Fn(r)' = Fn(r) /\ Receives(r)'
      /\ at'[x].pc = "done" /\ at'[x].call = at[x].call /\ at'[x].part = at[x].part
  <2>1. at'[x].pc = "done" /\ at'[x].call = at[x].call /\ at'[x].part = at[x].part
    BY <1>3, <1>4
  <2> QED BY <1>1, <1>3, <1>4, <2>1, SameCall
<1>8. Piece(x, chan[r], 0)'
  <2> DEFINE q == chan[r]
             whole == ~cut
  <2>1. Along(q, Frame(x, Fn(x), at[x].part), 0, Written(x), whole)
    BY <1>4 DEF Piece
  <2>2. q \in Seq(Unit) /\ 0 \in Nat /\ whole \in BOOLEAN /\ data'["client"] = data["client"]
    BY <1>1, <1>3
  <2> HIDE DEF q, whole
  <2>3. Along(q, Frame(x, Fn(x), at[x].part)', 0, Written(x)', FALSE)
    BY <1>4, <1>5, <1>7, <2>1, <2>2, QuitPiece
  <2>4. (~cut') = FALSE
    BY <1>3, <1>6
  <2> QED BY <1>3, <2>3, <2>4 DEF Piece, q
<1>9. Level' /\ LastIs(r, Fn(r), at[r].part)' /\ ItemAfter(x, r)'
  BY <1>1, <1>3, <1>4, <1>7 DEF Level, LastIs, ItemAfter
<1>10. Ahead(x, r)'
  BY <1>1, <1>3, <1>6, <1>7, <1>8, <1>9 DEF Ahead
<1>11. Held'
  <2>1. at'["client"].call = at["client"].call /\ at'["client"].part = at["client"].part
    BY <1>1, <1>3, <1>7 DEF Side
  <2>2. at'["client"].call \in Nat
    BY <1>3 DEF Side, Place
  <2> QED BY <1>1, <1>3, <2>1, <2>2, HeldKept
<1> QED BY <1>10, <1>11

\* The receiver that copied has caught up with the sender.
LEMMA AheadCopies ==
  ASSUME IInv, Base', NEW x \in Side, NEW r \in Side, r = Peer(x), Ahead(x, r), Copy(r)
  PROVE  InSync' \/ \E f \in Functions : Lost(f)'
<1>1. /\ Base /\ TypeOK /\ Placed /\ x # r /\ x = Peer(r) /\ Receives(r) /\ N \in Nat \ {0}
      /\ Fn(r) \in Functions /\ Fn(r) \in 1..N /\ at[r].part \in 0..Last(Fn(r))
      /\ Last(Fn(r)) \in Nat /\ Last(Fn(r)) > 0
      /\ Level /\ LastIs(r, Fn(r), at[r].part) /\ chan[x] = <<>>
  BY AheadFacts DEF IInv, Ahead
<1>2. /\ chan' = chan /\ cut' = cut /\ accepted' = accepted /\ acked' = acked
      /\ at' \in [Side -> Place] /\ at'[x] = at[x]
      /\ Fn(x)' = Fn(x) /\ Written(x)' = Written(x)
      /\ Sends(x)' <=> Sends(x)
      /\ Finished(x)' <=> Finished(x)
      /\ Frame(x, Fn(x), at[x].part)' = Frame(x, Fn(x), at[x].part)
  BY <1>1, CopyMoves
<1>3. Level' /\ chan'[x] = <<>>
  BY <1>1, <1>2 DEF Level
<1>4. CASE /\ Sends(x) /\ (at[x].pc = "done" => cut) /\ ~AtLast(r)
           /\ Piece(x, chan[r], 0)
           /\ \/ /\ at[r].part < Last(Fn(r)) /\ Fn(x) = Fn(r)
                 /\ at[x].part = at[r].part + 1
              \/ /\ at[r].part = Last(Fn(r)) /\ Fn(r) < N /\ Fn(x) = Fn(r) + 1
                 /\ at[x].part = 0
  <2>1. CASE /\ Held' /\ Receives(r)' /\ at'[r].pc \in {"initFunc", "rStart"}
             /\ \/ /\ at[r].part < Last(Fn(r))
                   /\ Fn(r)' = Fn(r) /\ at'[r].part = at[r].part + 1
                \/ /\ at[r].part = Last(Fn(r)) /\ Fn(r) < N
                   /\ Fn(r)' = Fn(r) + 1 /\ at'[r].part = 0
    <3>1. SameItem(x, r)'
      BY <1>1, <1>2, <1>4, <2>1 DEF SameItem
    <3>2. Due(r)'
      BY <1>1, <1>2, <2>1, NextIsDue
    <3>3. Piece(x, chan[r], Read(r))'
      <4>1. Read(r)' = 0
        BY <2>1 DEF Read
      <4> QED BY <1>2, <1>4, <4>1 DEF Piece
    <3>4. Together(x, r)'
      BY <1>2, <1>3, <1>4, <2>1, <3>1, <3>2, <3>3 DEF Together, Reading
    <3> QED BY <1>1, <2>1, <3>4 DEF InSync, Side
  <2>2. CASE /\ r = "client" /\ at[r].part = 0
             /\ \A p \in PortionsOf(Fn(r)) : data'["client"][Fn(r)][p] = NULL
             /\ at'[r].call = at[r].call + 1 /\ at'[r].part = 0
             /\ at'[r].pc \in {"initFunc", "puf"}
    <3>0. PICK f \in Functions : f = Fn(r)
      BY <1>1
    <3>1. /\ x = "server" /\ at["server"].call = f /\ at["client"].call = f
          /\ at["server"].part = 1 /\ f \in Nat /\ Fn("server") = f
      <4>1. x = "server" /\ r = "client"
        BY <1>1, <2>2 DEF Side
      <4>2. at[r].part # Last(Fn(r))
        BY <1>1, <2>2
      <4>3. Fn(x) = Fn(r) /\ at[x].part = at[r].part + 1 /\ at[r].part = 0
        BY <1>4, <2>2, <4>2
      <4>4. 0 + 1 = 1
        OBVIOUS
      <4>5. Fn("server") = f /\ at["server"].part = 1 /\ Sends("server")
        BY <1>4, <3>0, <4>1, <4>3, <4>4
      <4>6. at["server"].call = f
        BY <1>1, <4>5, BaseFn
      <4>7. at["client"].call = f /\ f \in Nat
        BY <1>1, <3>0, <4>1, BaseFn
      <4> QED BY <4>1, <4>5, <4>6, <4>7
    <3>2. at'["client"].call > f /\ at'["server"].call = f /\ at'["server"].part = 1
      BY <1>2, <2>2, <3>1
    <3>3. \A p \in PortionsOf(f) : data'["client"][f][p] = NULL
      BY <2>2, <3>0
    <3>4. Frame("server", f, 1)' = Frame("server", Fn("server"), at["server"].part)
      <4>1. Frame("server", f, 1)' = Frame("server", f, 1)
        BY DEF Frame, Load, Challenge, Units, Id, S, E
      <4> QED BY <3>1, <4>1
    <3>5. Up("server")' = (~cut)
      BY <1>2, <2>2, <3>1 DEF Up, Peer
    <3>6. Along(chan'["client"], Frame("server", f, 1)', 0, Written("server")', Up("server")')
      BY <1>2, <1>4, <2>2, <3>1, <3>4, <3>5 DEF Piece
    <3>7. 0 \in 0..Written("server")'
      <4>1. Written("server") \in 0..Wanted("server") + 2 /\ Wanted("server") \in Nat
        BY <1>1, <1>4, <3>1, SenderFrame
      <4> QED BY <1>2, <3>1, <4>1
    <3>8. chan'["server"] = <<>>
      BY <1>3, <3>1
    <3>9. at'["client"].pc \in {"initFunc", "puf"} /\ at'["client"].part = 0
      BY <2>2
    <3>10. Lost(f)'
      BY <3>2, <3>3, <3>6, <3>7, <3>8, <3>9 DEF Lost
    <3> QED BY <3>1, <3>10
  <2> QED BY <1>1, <1>4, <2>1, <2>2, CopyMoves
<1>5. CASE /\ r = "server" /\ x = "client" /\ Finished(x) /\ at[x].pc = "done"
           /\ AtLast(r) /\ chan[r] = <<>>
  <2>1. Held' /\ Finished(r)'
    <3>1. ~(at[r].part < Last(Fn(r))) /\ ~(Fn(r) < N)
      BY <1>1, <1>5 DEF AtLast
    <3> QED BY <1>1, <1>5, <3>1, CopyMoves
  <2> QED BY <1>1, <1>2, <1>3, <1>5, <2>1 DEF InSync, AllThrough, Side
<1> QED BY <1>4, <1>5, <1>1, AheadFacts

\* Appending to a queue leaves its head, and appends to its tail.
LEMMA HeadTailConcat ==
  ASSUME NEW T, NEW q \in Seq(T), NEW u \in Seq(T), q # <<>>
  PROVE  /\ q \o u # <<>> /\ Head(q \o u) = Head(q)
         /\ Tail(q \o u) = Tail(q) \o u
<1>1. /\ q \o u \in Seq(T) /\ Len(q \o u) = Len(q) + Len(u)
      /\ \A k \in 1..Len(q) : (q \o u)[k] = q[k]
      /\ \A k \in Len(q) + 1..Len(q) + Len(u) : (q \o u)[k] = u[k - Len(q)]
  BY Concat
<1>2. /\ Len(q) \in Nat /\ Len(u) \in Nat /\ Len(q) >= 1
      /\ Tail(q) \in Seq(T) /\ Len(Tail(q)) = Len(q) - 1
      /\ \A k \in 1..Len(Tail(q)) : Tail(q)[k] = q[k + 1]
      /\ Head(q) = q[1]
  BY HeadTailProperties
<1>3. Len(q \o u) >= 1
  BY <1>1, <1>2
<1>4. q \o u # <<>>
  BY <1>3
<1>5. /\ Tail(q \o u) \in Seq(T) /\ Len(Tail(q \o u)) = Len(q \o u) - 1
      /\ \A k \in 1..Len(Tail(q \o u)) : Tail(q \o u)[k] = (q \o u)[k + 1]
      /\ Head(q \o u) = (q \o u)[1]
  BY <1>1, <1>4, HeadTailProperties
<1>6. /\ Tail(q) \o u \in Seq(T) /\ Len(Tail(q) \o u) = Len(Tail(q)) + Len(u)
      /\ \A k \in 1..Len(Tail(q)) : (Tail(q) \o u)[k] = Tail(q)[k]
      /\ \A k \in Len(Tail(q)) + 1..Len(Tail(q)) + Len(u) :
           (Tail(q) \o u)[k] = u[k - Len(Tail(q))]
  BY <1>2, Concat
<1> DEFINE a == Len(q)
           b == Len(u)
           x == Tail(q \o u)
           y == Tail(q) \o u
           w == q \o u
           t == Tail(q)
<1>7. /\ a \in Nat /\ b \in Nat /\ a >= 1 /\ Len(t) = a - 1
      /\ x \in Seq(T) /\ Len(x) = (a + b) - 1
      /\ y \in Seq(T) /\ Len(y) = (a - 1) + b
      /\ \A k \in 1..(a + b) - 1 : x[k] = w[k + 1]
      /\ \A k \in 1..a : w[k] = q[k]
      /\ \A k \in a + 1..a + b : w[k] = u[k - a]
      /\ \A k \in 1..a - 1 : y[k] = t[k] /\ t[k] = q[k + 1]
      /\ \A k \in (a - 1) + 1..(a - 1) + b : y[k] = u[k - (a - 1)]
  BY <1>1, <1>2, <1>5, <1>6
<1> HIDE DEF a, b, x, y, w, t
<1>8. Len(x) = Len(y)
  BY <1>7
<1>9. ASSUME NEW k \in 1..(a + b) - 1 PROVE x[k] = y[k]
  <2>1. CASE k <= a - 1
    <3>1. k + 1 \in 1..a /\ k \in 1..a - 1
      BY <1>7, <2>1
    <3> QED BY <1>7, <3>1
  <2>2. CASE k > a - 1
    <3>1. k + 1 \in a + 1..a + b /\ k \in (a - 1) + 1..(a - 1) + b /\ (k + 1) - a = k - (a - 1)
      BY <1>7, <2>2
    <3> QED BY <1>7, <3>1
  <2>3. k <= a - 1 \/ k > a - 1
    BY <1>7
  <2> QED BY <2>1, <2>2, <2>3
<1>10. x = y
  BY <1>7, <1>8, <1>9, SeqEqual
<1>11. 1 \in 1..Len(q)
  BY <1>2
<1> QED BY <1>1, <1>2, <1>4, <1>5, <1>10, <1>11 DEF x, y

(***************************************************************************)
(* The turn of direction.                                                  *)
(***************************************************************************)
\* After the PUF the client's results are still results.
LEMMA HeldPuf ==
  ASSUME Base, Held, challenge_puf
  PROVE  /\ Held' /\ at["client"].call = N + 1 /\ at["client"].part = 0
         /\ at["client"].pc = "puf" /\ ~Unallocated
         /\ at'["server"] = at["server"] /\ at' \in [Side -> Place]
         /\ at'["client"].part = 0 /\ at'["client"].pc = "wStart"
         /\ at'["client"].call = N + 2 /\ Sends("client")' /\ Fn("client")' = 1
         /\ chan' = chan /\ cut' = cut /\ accepted' = accepted /\ acked' = acked
         /\ Base'
<1>1. /\ TypeOK /\ Placed /\ N \in Nat \ {0} /\ at["client"].pc = "puf"
      /\ chan' = chan /\ cut' = cut /\ accepted' = accepted /\ acked' = acked
      /\ Functions = 1..N
  BY PatternFacts DEF Base, challenge_puf, history
<1>2. /\ Base' /\ at["client"].call = N + 1 /\ at'["server"] = at["server"]
      /\ at' \in [Side -> Place]
      /\ \A f \in Functions : \A p \in PortionsOf(f) :
           data'["client"][f][p] \in {data["client"][f][p], Response(f, p)}
      /\ at'["client"].part = 0
      /\ \/ at'["client"].pc = "fault" /\ Unallocated
         \/ at'["client"].pc = "wStart" /\ at'["client"].call = N + 2
  BY PufBase DEF Base
<1>3. ASSUME NEW f \in Functions, NEW p \in PortionsOf(f)
      PROVE  /\ data["client"][f][p] \in {Challenge(f, p), Response(f, p)}
             /\ data["client"][f][p] # NULL
  <2>1. at["client"].call > f /\ p \in Portions
    BY <1>1, <1>2 DEF PortionsOf
  <2>2. data["client"][f][p] \in {Challenge(f, p), Response(f, p)}
    BY <2>1 DEF Held
  <2>3. /\ Len(Challenge(f, p)) = Pattern[f][p] /\ Len(Response(f, p)) = Pattern[f][p]
        /\ Pattern[f][p] >= 2 /\ Len(NULL) = 0
    BY <2>1, UnitFacts, PatternFacts DEF Challenge, Response, NULL
  <2> QED BY <2>2, <2>3
<1>4. ~Unallocated
  BY <1>3 DEF Unallocated
<1>5. at'["client"].pc = "wStart" /\ at'["client"].call = N + 2
  BY <1>2, <1>4
<1>6. at["client"].part = 0
  BY <1>1, <1>2, Kinds DEF Placed, PlacedAt, Side
<1>7. Held'
  <2>1. \A f \in Functions : at'["client"].call # f
    BY <1>1, <1>5
  <2>2. \A f \in Functions : \A p \in PortionsOf(f) :
          data'["client"][f][p] \in {Challenge(f, p), Response(f, p)}
    BY <1>2, <1>3
  <2> QED BY <2>1, <2>2 DEF Held
<1>8. Sends("client")' /\ Fn("client")' = 1
  <2>1. N + 2 \in N + 2..2 * N + 1 /\ (N + 2) - N - 1 = 1
    BY <1>1
  <2>2. Calls("client")[N + 2] = <<"send", (N + 2) - N - 1>>
    BY <2>1, CallsFacts
  <2> QED BY <1>5, <2>1, <2>2 DEF Sends, Fn
<1> QED BY <1>1, <1>2, <1>4, <1>5, <1>6, <1>7, <1>8

\* Where the sides are when the client has gone on to its responses first.
LEMMA ClientTurnsFacts ==
  ASSUME Base, ClientTurns
  PROVE  /\ TypeOK /\ Placed /\ N \in Nat \ {0} /\ Sends("server") /\ Fn("server") = N
         /\ at["server"].part = Last(N) /\ N \in Functions /\ Last(N) \in 1..4
         /\ ~Sends("server") \/ ~Receives("server")
         /\ at["client"].call = N + 1 => ~Sends("client") /\ ~Receives("client")
         /\ at["client"].call = N + 2 => Sends("client") /\ Fn("client") = 1
         /\ chan["server"] \in Seq(Unit)
<1>1. /\ TypeOK /\ Placed /\ N \in Nat \ {0} /\ at["server"].call = N
      /\ chan["server"] \in Seq(Unit) /\ Functions = 1..N
  BY PatternFacts DEF Base, ClientTurns, TypeOK, Side
<1>2. Sends("server") /\ ~Receives("server") /\ Fn("server") = N
  BY <1>1, FnFacts DEF Sends, Receives, TypeOK
<1>3. at["client"].call = N + 1 => ~Sends("client") /\ ~Receives("client")
  BY <1>1 DEF Sends, Receives
<1>4. at["client"].call = N + 2 => Sends("client") /\ Fn("client") = 1
  <2>1. ASSUME at["client"].call = N + 2 PROVE Sends("client") /\ Fn("client") = 1
    <3>1. Sends("client")
      BY <1>1, <2>1 DEF Sends
    <3>2. Fn("client") = (N + 2) - N - 1
      BY <1>1, <2>1, <3>1, FnFacts DEF TypeOK
    <3> QED BY <1>1, <3>1, <3>2
  <2> QED BY <2>1
<1>5. N \in Functions /\ Last(N) \in 1..4
  BY <1>1, PatternFacts
<1>6. at["server"].part = Last(N)
  BY DEF ClientTurns, AtLast
<1> QED BY <1>1, <1>2, <1>3, <1>4, <1>5, <1>6

\* The client may run the PUF before the server knows of its last acknowledgement.
LEMMA ClientTurnsPuf ==
  ASSUME Base, Held, ClientTurns, challenge_puf
  PROVE  Held' /\ ClientTurns'
<1>1. /\ Held' /\ Base' /\ at["client"].call = N + 1 /\ at'["server"] = at["server"]
      /\ at'["client"].part = 0 /\ at'["client"].pc = "wStart"
      /\ at'["client"].call = N + 2 /\ Sends("client")'
      /\ chan' = chan /\ cut' = cut /\ accepted' = accepted /\ acked' = acked
  BY HeldPuf
<1>2. /\ N \in Nat \ {0} /\ chan["server"] \in Seq(Unit)
  BY ClientTurnsFacts
<1>3. AtLast("server")' <=> AtLast("server")
  BY <1>1, SameItemOf DEF Side
<1>4. OneAhead' /\ LastIs("client", N, Last(N))' /\ ACK' = ACK
  BY <1>1 DEF ClientTurns, OneAhead, LastIs, ACK
<1>5. \/ chan'["server"] = <<>> /\ cut'
      \/ /\ chan'["server"] # <<>> /\ Head(chan'["server"]) = ACK
         /\ Tail(chan'["server"]) = <<>>
  <2>1. N + 1 # N + 2
    BY <1>2
  <2> QED BY <1>1, <2>1 DEF ClientTurns
<1>6. Along(<<>>, Frame("client", Fn("client"), at["client"].part)', 0, Written("client")', ~cut')
  <2>1. (~cut') \in BOOLEAN /\ "client" \in Side
    BY DEF Side
  <2> QED BY <1>1, <2>1, StartsPiece
<1>7. Piece("client", Tail(chan["server"]), 0)' \/ chan'["server"] = <<>>
  BY <1>5, <1>6 DEF Piece
<1>8. \A s \in Side : at'[s].pc = "done" => cut'
  BY <1>1 DEF ClientTurns, Side
<1>9. N + 1 # N + 2
  BY <1>2
<1> QED BY <1>1, <1>3, <1>4, <1>5, <1>7, <1>8, <1>9 DEF ClientTurns

\* The client may write its first identifier behind that acknowledgement.
LEMMA ClientTurnsSends ==
  ASSUME Base, Held, ClientTurns, NEW s \in Side, sendFramedStream(s)
  PROVE  Held' /\ ClientTurns'
<1>1. /\ TypeOK /\ Placed /\ N \in Nat \ {0} /\ chan["server"] \in Seq(Unit)
      /\ UNCHANGED <<buffer, heap, cut, ok, history>> /\ data' = data /\ cut' = cut
      /\ at[s].pc \in {"wStart", "wData", "wStop"}
      /\ accepted' = accepted /\ acked' = acked
  BY ClientTurnsFacts DEF sendFramedStream, heap, history
<1>2. s = "client" /\ Sends("client") /\ at["client"].call = N + 2 /\ "client" \in Side
      /\ Peer("client") = "server" /\ N + 2 # N + 1
  BY <1>1, ClientTurnsFacts, Kinds DEF ClientTurns, Writing, Side, Peer
<1>3. at["client"].part = 0 /\ chan["client"] = <<>>
  BY DEF ClientTurns
<1> DEFINE F == Frame("client", Fn("client"), at["client"].part)
           q == IF chan["server"] = <<>> THEN <<>> ELSE Tail(chan["server"])
           whole == ~cut
<1>4. /\ q \in Seq(Unit) /\ whole \in BOOLEAN
      /\ chan["server"] # <<>> => Along(q, F, 0, Written("client"), whole)
  BY <1>1, <1>2 DEF ClientTurns, Piece
<1>5. PICK u \in Seq(Unit) :
        /\ Write("client", u)
        /\ chan["server"] # <<>> =>
             /\ whole => Along(q \o u, F', 0, Written("client")', whole)
             /\ Along(q, F', 0, Written("client")', FALSE)
  <2>1. CASE chan["server"] # <<>>
    <3> HIDE DEF q, whole, F
    <3>1. 0 \in Nat
      OBVIOUS
    <3> QED BY <1>2, <1>3, <1>4, <2>1, <3>1, SentPiece DEF F
  <2>2. CASE chan["server"] = <<>>
    <3>1. Outgoing("client") \in Seq(Unit) /\ <<S>> \in Seq(Unit) /\ <<E>> \in Seq(Unit)
      BY <1>1, <1>2, OutgoingTyped, UnitFacts
    <3> QED BY <1>2, <2>2, <3>1 DEF sendFramedStream
  <2> QED BY <2>1, <2>2
<1> HIDE DEF q, whole, F
<1>6. /\ at' \in [Side -> Place] /\ at'["server"] = at["server"]
      /\ at'["client"].pc \in Writing /\ at'["client"].call = at["client"].call
      /\ at'["client"].part = at["client"].part
  <2>1. PICK pc \in Writing : Go("client", pc)
    BY <1>2 DEF sendFramedStream, Writing
  <2> QED BY <1>1, <1>2, <2>1, GoMoves DEF PC, Writing
<1>7. Up("client") <=> ~cut
  BY <1>1, <1>2 DEF Up, ClientTurns, Side
<1>8. chan'["client"] = <<>> /\ chan'["server"] = IF cut THEN chan["server"] ELSE chan["server"] \o u
  BY <1>1, <1>2, <1>3, <1>5, <1>7, WriteMoves
<1>9. \/ chan'["server"] = <<>> /\ cut'
      \/ /\ chan'["server"] # <<>> /\ Head(chan'["server"]) = ACK
         /\ Along(Tail(chan'["server"]), F', 0, Written("client")', ~cut')
  <2>1. CASE chan["server"] = <<>>
    BY <1>1, <1>8, <2>1 DEF ClientTurns
  <2>2. CASE chan["server"] # <<>> /\ cut
    <3>1. (~cut') = FALSE /\ chan'["server"] = chan["server"] /\ q = Tail(chan["server"])
      BY <1>1, <1>8, <2>2 DEF q
    <3> QED BY <1>5, <2>2, <3>1 DEF ClientTurns
  <2>3. CASE chan["server"] # <<>> /\ ~cut
    <3>1. (~cut') = whole /\ whole /\ chan'["server"] = chan["server"] \o u
          /\ q = Tail(chan["server"]) /\ Head(chan["server"]) = ACK
      BY <1>1, <1>8, <2>3 DEF q, whole, ClientTurns
    <3>2. /\ chan["server"] \o u # <<>> /\ Head(chan["server"] \o u) = ACK
          /\ Tail(chan["server"] \o u) = q \o u
      BY <1>1, <2>3, <3>1, HeadTailConcat
    <3> QED BY <1>5, <2>3, <3>1, <3>2
  <2> QED BY <2>1, <2>2, <2>3
<1>10. AtLast("server")' <=> AtLast("server")
  BY <1>6, SameItemOf DEF Side
<1>11. OneAhead' /\ LastIs("client", N, Last(N))' /\ ACK' = ACK
  BY <1>1 DEF ClientTurns, OneAhead, LastIs, ACK
<1>12. \A z \in Side : at'[z].pc = "done" => cut'
  BY <1>1, <1>6 DEF ClientTurns, Side, Writing
<1>13. ClientTurns'
  BY <1>2, <1>6, <1>8, <1>9, <1>10, <1>11, <1>12 DEF ClientTurns, Piece, F
<1>14. Held'
  <2>1. at'["client"].call \in Nat /\ data'["client"] = data["client"]
    BY <1>1, <1>6 DEF Side, Place
  <2> QED BY <1>1, <1>6, <2>1, HeldKept
<1> QED BY <1>13, <1>14

\* The server reads the acknowledgement, and what lies behind it is its first item.
LEMMA ClientTurnsWaits ==
  ASSUME Base, Base', Held, ClientTurns, NEW s \in Side, waitForAck(s)
  PROVE  InSync'
<1>1. /\ TypeOK /\ Placed /\ N \in Nat \ {0} /\ chan["server"] \in Seq(Unit)
      /\ Sends("server") /\ Fn("server") = N /\ at["server"].part = Last(N)
      /\ N \in Functions /\ Last(N) \in 1..4
      /\ at["client"].call = N + 1 => ~Sends("client") /\ ~Receives("client")
      /\ at["client"].call = N + 2 => Sends("client") /\ Fn("client") = 1
  BY ClientTurnsFacts
<1>2. s = "server" /\ chan["server"] # <<>>
  BY DEF waitForAck, Arrived, ClientTurns, Side
<1>3. /\ OneAhead /\ LastIs("client", N, Last(N)) /\ Head(chan["server"]) = ACK
      /\ chan["client"] = <<>> /\ AtLast("server") /\ at["client"].part = 0
      /\ at["client"].call \in {N + 1, N + 2} /\ (at["client"].pc = "done" => cut)
      /\ IF at["client"].call = N + 1 THEN Tail(chan["server"]) = <<>>
         ELSE Piece("client", Tail(chan["server"]), 0)
  BY <1>2 DEF ClientTurns, Side
<1> DEFINE q == Tail(chan["server"])
<1>4. /\ Level' /\ Held' /\ chan'["server"] = q /\ chan'["client"] = <<>>
      /\ buffer' = buffer /\ data' = data /\ cut' = cut /\ accepted' = accepted
      /\ at' \in [Side -> Place] /\ at'["client"] = at["client"]
      /\ Fn("client")' = Fn("client")
      /\ Sends("client")' <=> Sends("client")
      /\ at'["server"].part = 0 /\ at'["server"].call = N + 1 /\ at'["server"].pc = "rStart"
  <2>1. "client" = Peer("server") /\ "client" \in Side /\ "server" \in Side /\ waitForAck("server")
    BY <1>2 DEF Peer, Side
  <2>2. ~(at["server"].part < Last(Fn("server"))) /\ ~(Fn("server") < N)
    BY <1>1
  <2> QED BY <1>1, <1>3, <2>1, <2>2, WaitMoves
<1>5. LastIs("client", N, Last(N))'
  BY <1>3, <1>4 DEF LastIs
<1>6. CASE at["client"].call = N + 1
  <2>1. ServerTurns'
    BY <1>1, <1>3, <1>4, <1>5, <1>6 DEF ServerTurns
  <2> QED BY <1>4, <2>1 DEF InSync
<1>7. CASE at["client"].call = N + 2
  <2>1. Sends("client") /\ Fn("client") = 1 /\ Piece("client", q, 0)
    BY <1>1, <1>3, <1>7
  <2>2. Receives("server")' /\ Fn("server")' = 1
    <3>1. N + 1 \in N + 1..2 * N /\ (N + 1) - N = 1
      BY <1>1
    <3>2. Calls("server")[N + 1] = <<"rec", 1>>
      BY <3>1, CallsFacts
    <3> QED BY <1>4, <3>1, <3>2 DEF Receives, Fn
  <2>3. SameItem("client", "server")'
    BY <1>3, <1>4, <2>1, <2>2 DEF SameItem
  <2>4. Due("server")'
    <3> DEFINE item == accepted[Len(accepted)]
    <3>1. /\ accepted # <<>> /\ SubSeq(item, 1, 3) = <<"client", N, Last(N)>>
          /\ accepted \in Seq(Side \X Functions \X (0..4) \X Seq(Unit))
      BY <1>3 DEF LastIs, Base, Logged
    <3>2. item \in Side \X Functions \X (0..4) \X Seq(Unit)
      BY <3>1
    <3>3. Last(N) \in 0..Last(N) /\ ~(Last(N) < Last(N)) /\ ~(N < N) /\ "client" \in Side
      BY <1>1 DEF Side
    <3> HIDE DEF item
    <3>4. After(item) = {<<"server", 1, 0>>}
      BY <1>1, <3>1, <3>2, <3>3, AfterFacts
    <3>5. accepted'[Len(accepted')] = item /\ accepted' # <<>>
      BY <1>4, <3>1 DEF item
    <3>6. After(accepted[Len(accepted)])' = After(item)
      BY <1>4 DEF item
    <3> QED BY <1>4, <2>2, <3>4, <3>5, <3>6 DEF Due
  <2>5. Piece("client", chan["server"], Read("server"))'
    <3>1. data'["client"] = data["client"] /\ "client" \in Side
      BY <1>4 DEF Side
    <3>2. /\ Frame("client", Fn("client"), at["client"].part)'
               = Frame("client", Fn("client"), at["client"].part)
          /\ Wanted("client")' = Wanted("client")
      BY <1>4, <3>1, FrameKept
    <3>3. Read("server")' = 0 /\ Written("client")' = Written("client")
      BY <1>4, <3>2 DEF Read, Written
    <3> QED BY <1>4, <2>1, <3>2, <3>3 DEF Piece
  <2>6. Together("client", "server")'
    BY <1>3, <1>4, <2>3, <2>4, <2>5 DEF Together, Reading
  <2> QED BY <1>4, <2>6 DEF InSync
<1> QED BY <1>3, <1>6, <1>7

\* Either side may give up on a link that is down.
LEMMA ClientTurnsQuits ==
  ASSUME Base, Held, ClientTurns, NEW s \in Side, WriteFails(s) \/ ReadFails(s)
  PROVE  Held' /\ ClientTurns'
<1>1. /\ TypeOK /\ Placed /\ N \in Nat \ {0} /\ chan["server"] \in Seq(Unit)
      /\ Sends("server") /\ Fn("server") = N
      /\ at["client"].call = N + 1 => ~Sends("client") /\ ~Receives("client")
      /\ at["client"].call = N + 2 => Sends("client") /\ Fn("client") = 1
  BY ClientTurnsFacts
<1>2. /\ ~Up(s) /\ at[s].pc \in Writing \cup Reading \cup {"sAck"}
      /\ buffer' = buffer /\ data' = data /\ chan' = chan /\ cut' = cut
      /\ accepted' = accepted /\ acked' = acked
      /\ at' \in [Side -> Place] /\ at'[Peer(s)] = at[Peer(s)]
      /\ s = "server" \/ Sends(s) =>
           at'[s].pc = "done" /\ at'[s].call = at[s].call /\ at'[s].part = at[s].part
  BY QuitMoves DEF Side, Peer
<1>3. /\ OneAhead /\ LastIs("client", N, Last(N))
      /\ chan["client"] = <<>> /\ AtLast("server") /\ at["client"].part = 0
      /\ at["client"].call \in {N + 1, N + 2}
      /\ \A z \in Side : at[z].pc = "done" => cut
  BY DEF ClientTurns
<1>4. s = "server" \/ (s = "client" /\ Sends("client") /\ at["client"].call = N + 2)
  BY <1>1, <1>2, <1>3, Kinds DEF Side
<1>5. /\ at'[s].pc = "done" /\ at'[s].call = at[s].call /\ at'[s].part = at[s].part
      /\ Peer(s) \in Side
  BY <1>2, <1>4 DEF Side, Peer
<1>6. cut /\ cut'
  BY <1>2, <1>3, <1>5 DEF Up
<1>7. \A z \in Side : at'[z].call = at[z].call /\ at'[z].part = at[z].part
  BY <1>2, <1>5 DEF Side, Peer
<1>8. Held'
  <2>1. at'["client"].call \in Nat
    BY <1>2 DEF Side, Place
  <2> QED BY <1>1, <1>2, <1>7, <2>1, HeldKept DEF Side
<1>9. (AtLast("server")' <=> AtLast("server")) /\ at'["server"].pc \in {"wAck", "done"}
  <2>1. at'["server"].pc \in {"wAck", "done"}
    BY <1>2, <1>5 DEF ClientTurns, Side, Peer
  <2> QED BY <1>7, <2>1, SameItemOf DEF Side
<1>10. OneAhead' /\ LastIs("client", N, Last(N))' /\ ACK' = ACK
  BY <1>2, <1>3 DEF OneAhead, LastIs, ACK
<1>11. ASSUME chan["server"] # <<>>, at["client"].call = N + 2
       PROVE  Piece("client", Tail(chan["server"]), 0)'
  <2> DEFINE q == Tail(chan["server"])
             whole == ~cut
             from == 0
  <2>1. N + 2 # N + 1 /\ Sends("client") /\ data'["client"] = data["client"]
    BY <1>1, <1>2, <1>11
  <2>2. Along(q, Frame("client", Fn("client"), at["client"].part), from, Written("client"), whole)
    BY <1>11, <2>1 DEF ClientTurns, Piece
  <2>3. q \in Seq(Unit) /\ whole \in BOOLEAN /\ from \in Nat /\ "client" \in Side /\ q' = q
    BY <1>1, <1>2, <1>11 DEF Side
  <2>3a. (~cut') = FALSE /\ q' = q
    BY <1>2, <1>6
  <2>4. from = 0
    OBVIOUS
  <2>5. whole = FALSE
    BY <1>6
  <2> HIDE DEF q, whole, from
  <2>6. CASE at'["client"].pc = "done"
    <3>1. Along(q, Frame("client", Fn("client"), at["client"].part)', from, Written("client")', FALSE)
      BY <1>3, <1>7, <2>1, <2>2, <2>3, <2>6, QuitPiece
    <3> QED BY <2>3a, <2>4, <3>1 DEF Piece, q
  <2>7. CASE at'["client"].pc # "done"
    <3>1. at'["client"] = at["client"]
      BY <1>2, <1>5, <2>7 DEF Side, Peer
    <3>2. /\ Frame("client", Fn("client"), at["client"].part)'
               = Frame("client", Fn("client"), at["client"].part)
          /\ Wanted("client")' = Wanted("client")
      BY <2>1, <2>3, <3>1, FrameKept
    <3>3. Written("client")' = Written("client")
      BY <3>1, <3>2 DEF Written
    <3>4. Along(q, Frame("client", Fn("client"), at["client"].part)', from, Written("client")', FALSE)
      BY <2>2, <2>5, <3>2, <3>3
    <3> QED BY <2>3a, <2>4, <3>4 DEF Piece, q
  <2> QED BY <2>6, <2>7
<1>12. \/ chan'["server"] = <<>> /\ cut'
       \/ /\ chan'["server"] # <<>> /\ Head(chan'["server"]) = ACK
          /\ IF at'["client"].call = N + 1 THEN Tail(chan'["server"]) = <<>>
             ELSE Piece("client", Tail(chan["server"]), 0)'
  BY <1>2, <1>3, <1>6, <1>7, <1>11 DEF ClientTurns, Side
<1>13. ClientTurns'
  BY <1>2, <1>3, <1>6, <1>7, <1>9, <1>10, <1>12 DEF ClientTurns, Side
<1> QED BY <1>8, <1>13

\* Where the sides are when the server has gone on to the responses first.
LEMMA ServerTurnsFacts ==
  ASSUME Base, ServerTurns
  PROVE  /\ TypeOK /\ Placed /\ N \in Nat \ {0} /\ Functions = 1..N
         /\ N \in Functions /\ Last(N) \in 1..4
         /\ Receives("server") /\ ~Sends("server") /\ Fn("server") = 1
         /\ at["client"].call \in {N, N + 1} /\ ~Sends("client")
         /\ at["client"].pc \in {"copy", "puf", "fault"}
<1>1. /\ TypeOK /\ Placed /\ N \in Nat \ {0} /\ at["server"].call = N + 1
      /\ Functions = 1..N
  BY PatternFacts DEF Base, ServerTurns
<1>2. Receives("server") /\ ~Sends("server")
  BY <1>1 DEF Sends, Receives
<1>3. Fn("server") = (N + 1) - N
  BY <1>1, <1>2, FnFacts DEF TypeOK
<1>4. N \in Functions /\ Last(N) \in 1..4 /\ Fn("server") = 1
  BY <1>1, <1>3, PatternFacts
<1>5. at["client"].call \in {N, N + 1} /\ ~Sends("client")
  BY <1>1 DEF ServerTurns, Sends
<1>6. at["client"].call = N + 1 => at["client"].pc \in {"puf", "fault"}
  BY <1>1 DEF Placed, PlacedAt, Side
<1> QED BY <1>1, <1>2, <1>4, <1>5, <1>6 DEF ServerTurns

\* The client copies its last portion and is at the PUF.
LEMMA ServerTurnsCopies ==
  ASSUME IInv, ServerTurns, NEW s \in Side, Copy(s)
  PROVE  Held' /\ ServerTurns'
<1>1. /\ TypeOK /\ Placed /\ N \in Nat \ {0} /\ Base /\ Last(N) \in 1..4
      /\ at["client"].call \in {N, N + 1}
  BY ServerTurnsFacts DEF IInv
<1>2. s = "client" /\ "client" \in Side /\ "server" \in Side /\ Peer("client") = "server"
  BY DEF Copy, ServerTurns, Side, Peer
<1>3. at["client"].pc = "copy"
  BY <1>2 DEF Copy
<1>4. at["client"].call = N /\ AtLast("client") /\ at["client"].part = Last(N) /\ Fn("client") = N
  BY <1>1, <1>2, <1>3 DEF ServerTurns, Placed, PlacedAt, AtLast
<1>5. /\ chan' = chan /\ cut' = cut /\ accepted' = accepted /\ acked' = acked
      /\ at'["server"] = at["server"] /\ Held' /\ at'["client"].call = at["client"].call + 1
  <2>1. ~(at["client"].part < Last(N)) /\ ~(N < N) /\ at["client"].part # 0
    BY <1>1, <1>4
  <2> QED BY <1>2, <1>4, <2>1, CopyMoves
<1>6. Level' /\ LastIs("client", N, Last(N))'
  BY <1>5 DEF ServerTurns, Level, LastIs
<1> QED BY <1>4, <1>5, <1>6 DEF ServerTurns

\* The client runs the PUF, and the sides are at the first response; or it faults.
LEMMA ServerTurnsPuf ==
  ASSUME Base, Held, ServerTurns, challenge_puf
  PROVE  InSync'
<1>1. /\ TypeOK /\ Placed /\ N \in Nat \ {0} /\ N \in Functions /\ Last(N) \in 1..4
      /\ Receives("server") /\ Fn("server") = 1
  BY ServerTurnsFacts
<1>2. /\ Held' /\ Base' /\ at'["server"] = at["server"]
      /\ at'["client"].part = 0 /\ at'["client"].pc = "wStart"
      /\ Sends("client")' /\ Fn("client")' = 1
      /\ chan' = chan /\ cut' = cut /\ accepted' = accepted /\ acked' = acked
  BY HeldPuf
<1>3. Receives("server")' /\ Fn("server")' = 1
  BY <1>1, <1>2, SameCall DEF Side
<1>4. SameItem("client", "server")'
  BY <1>2, <1>3 DEF SameItem, ServerTurns
<1>5. Due("server")'
  <2> DEFINE item == accepted[Len(accepted)]
  <2>1. /\ accepted # <<>> /\ SubSeq(item, 1, 3) = <<"client", N, Last(N)>>
        /\ accepted \in Seq(Side \X Functions \X (0..4) \X Seq(Unit))
    BY DEF ServerTurns, LastIs, Base, Logged
  <2>2. item \in Side \X Functions \X (0..4) \X Seq(Unit)
    BY <2>1
  <2>3. Last(N) \in 0..Last(N) /\ ~(Last(N) < Last(N)) /\ ~(N < N) /\ "client" \in Side
    BY <1>1 DEF Side
  <2> HIDE DEF item
  <2>4. After(item) = {<<"server", 1, 0>>}
    BY <1>1, <2>1, <2>2, <2>3, AfterFacts
  <2>5. accepted' # <<>> /\ After(accepted[Len(accepted)])' = After(item)
    BY <1>2, <2>1 DEF item
  <2> QED BY <1>2, <1>3, <2>4, <2>5 DEF Due, ServerTurns
<1>6. Along(<<>>, Frame("client", Fn("client"), at["client"].part)', 0, Written("client")', ~cut')
  <2>1. (~cut') \in BOOLEAN /\ "client" \in Side
    BY DEF Side
  <2> QED BY <1>2, <2>1, StartsPiece
<1>7. CASE at["server"].pc = "rStart"
  <2>1. Read("server")' = 0
    BY <1>2, <1>7 DEF Read
  <2>2. Piece("client", chan["server"], Read("server"))'
    BY <1>2, <1>6, <2>1 DEF Piece, ServerTurns
  <2>3. Level'
    BY <1>2 DEF Level, ServerTurns
  <2>4. Together("client", "server")'
    BY <1>2, <1>4, <1>5, <1>7, <2>2, <2>3 DEF Together, Reading, ServerTurns
  <2> QED BY <1>2, <2>4 DEF InSync
<1>8. CASE at["server"].pc = "done" /\ cut
  <2>1. Together("client", "server")'
    BY <1>2, <1>4, <1>8 DEF Together, ServerTurns
  <2> QED BY <1>2, <2>1 DEF InSync
<1> QED BY <1>7, <1>8 DEF ServerTurns

\* The server may give up waiting on a link that is down.
LEMMA ServerTurnsQuits ==
  ASSUME Base, Held, ServerTurns, NEW s \in Side, WriteFails(s) \/ ReadFails(s)
  PROVE  Held' /\ ServerTurns'
<1>1. /\ TypeOK /\ Placed /\ N \in Nat \ {0}
      /\ at["client"].pc \in {"copy", "puf", "fault"}
  BY ServerTurnsFacts
<1>2. s = "server" /\ "client" \in Side /\ Peer("server") = "client"
  BY <1>1 DEF WriteFails, ReadFails, Side, Peer
<1>3. /\ ~Up("server") /\ data' = data /\ chan' = chan /\ cut' = cut
      /\ accepted' = accepted /\ acked' = acked
      /\ at' \in [Side -> Place] /\ at'["client"] = at["client"]
      /\ at'["server"].pc = "done" /\ at'["server"].call = at["server"].call
      /\ at'["server"].part = at["server"].part
  BY <1>2, QuitMoves
<1>4. cut
  BY <1>1, <1>2, <1>3 DEF Up
<1>5. Held'
  <2>1. at'["client"].call \in Nat
    BY <1>2, <1>3 DEF Place
  <2> QED BY <1>1, <1>3, <2>1, HeldKept
<1>6. (AtLast("client")' <=> AtLast("client")) /\ Level' /\ LastIs("client", N, Last(N))'
  BY <1>2, <1>3, SameItemOf DEF ServerTurns, Level, LastIs
<1> QED BY <1>3, <1>4, <1>5, <1>6 DEF ServerTurns

\* Once both sides are through, no call is left to take a step.
LEMMA AllThroughRests ==
  ASSUME Base, AllThrough, NEW s \in Side
  PROVE  ~Step(s)
<1>1. at[s].pc = "done" /\ at["client"].pc = "done" /\ chan[s] = <<>>
  BY DEF Base, Placed, PlacedAt, AllThrough, Side
<1> QED BY <1>1 DEF Step, sendFramedStream, waitForAck, recStream, sendAck, Copy, WriteFails,
             ReadFails, initFunc, challenge_puf, Arrived

\* Where the sides are when the client gave up an item.
LEMMA DerailedFacts ==
  ASSUME Base, Derailed
  PROVE  /\ TypeOK /\ Placed /\ N \in Nat \ {0} /\ cut /\ Sends("server") /\ ~Receives("server")
         /\ chan["client"] = <<>> /\ at["client"].part = 0
         /\ at["client"].pc \notin {"rData", "rStop", "sAck", "copy"}
         /\ at["server"].pc \in Writing \cup {"done"}
         /\ \A s \in Side : ~Up(s)
         /\ chan["server"] # <<>> =>
              /\ chan["server"] = <<ACK>> /\ OneAhead
              /\ LastIs("client", Fn("server"), at["server"].part) /\ ~AtLast("server")
<1>1. TypeOK /\ Placed /\ N \in Nat \ {0}
  BY PatternFacts DEF Base
<1>2. Sends("server") /\ ~Receives("server") /\ at["server"].pc \in Writing \cup {"done"}
  BY <1>1, Kinds DEF Derailed, Placed, PlacedAt, Side
<1> QED BY <1>1, <1>2 DEF Derailed, Up

\* A derailed client stays derailed while the server keeps its item and both queues.
LEMMA DerailedKept ==
  ASSUME Base, Derailed, at' \in [Side -> Place], chan' = chan, cut' = cut,
         accepted' = accepted, acked' = acked,
         at'["server"].call = at["server"].call, at'["server"].part = at["server"].part,
         at'["client"].part = 0,
         at'["client"].pc \notin {"rData", "rStop", "sAck", "copy"}
  PROVE  Derailed'
<1>1. /\ Sends("server")' /\ Fn("server")' = Fn("server")
      /\ (AtLast("server")' <=> AtLast("server"))
  BY SameCall, SameItemOf DEF Derailed, Side
<1>2. LastIs("client", Fn("server"), at["server"].part)'
        <=> LastIs("client", Fn("server"), at["server"].part)
  BY <1>1 DEF LastIs
<1>3. OneAhead' <=> OneAhead
  BY DEF OneAhead
<1> QED BY <1>1, <1>2, <1>3 DEF Derailed, ACK

\* The link is down: what is written then reaches nobody.
LEMMA DerailedSends ==
  ASSUME Base, Derailed, NEW s \in Side, sendFramedStream(s)
  PROVE  Derailed'
<1>1. /\ TypeOK /\ ~Up(s) /\ at["client"].part = 0
      /\ at["client"].pc \notin {"rData", "rStop", "sAck", "copy"}
  BY DerailedFacts
<1>2. PICK pc \in Writing : Go(s, pc)
  BY DEF sendFramedStream, Writing
<1>3. /\ at' \in [Side -> Place] /\ at'[s].pc = pc /\ at'[s].call = at[s].call
      /\ at'[s].part = at[s].part /\ at'[Peer(s)] = at[Peer(s)]
  BY <1>1, <1>2, GoMoves DEF PC, Writing
<1>4. chan' = chan
  BY <1>1 DEF sendFramedStream, Write
<1>5. \A z \in Side : at'[z].call = at[z].call /\ at'[z].part = at[z].part
  BY <1>3 DEF Side, Peer
<1>6. at'["client"].pc \notin {"rData", "rStop", "sAck", "copy"}
  BY <1>1, <1>2, <1>3 DEF Side, Peer, Writing
<1> QED BY <1>1, <1>3, <1>4, <1>5, <1>6, DerailedKept DEF sendFramedStream, history, Side

\* The one acknowledgement that the cut left is for the item that the server is at.
LEMMA DerailedWaits ==
  ASSUME Base, Derailed, NEW s \in Side, waitForAck(s)
  PROVE  Derailed'
<1>1. /\ TypeOK /\ Placed /\ cut /\ Sends("server") /\ chan["client"] = <<>>
      /\ at["client"].part = 0
      /\ at["client"].pc \notin {"rData", "rStop", "sAck", "copy"}
      /\ chan["server"] # <<>> => chan["server"] = <<ACK>> /\ ~AtLast("server")
  BY DerailedFacts
<1>2. s = "server" /\ chan["server"] = <<ACK>> /\ ~AtLast("server")
  BY <1>1 DEF waitForAck, Arrived, Side
<1>3. Head(chan["server"]) = ACK /\ Tail(chan["server"]) = <<>>
  BY <1>2
<1>4. NextPart("server", "wStart") /\ Take("server") /\ cut' = cut
  BY <1>2, <1>3 DEF waitForAck, IsAck
<1>5. \A p \in PortionsOf(Fn("server")) : data["server"][Fn("server")][p] # NULL
  <2>1. Fn("server") \in Functions
    BY <1>1, FnFacts, PatternFacts DEF TypeOK, Side
  <2> QED BY <2>1 DEF Base, Memory
<1>6. Sends("server")' /\ at'["client"] = at["client"]
  BY <1>1, <1>2, <1>4, <1>5, SendsOn DEF Side, Peer
<1>7. chan'["server"] = <<>> /\ chan'["client"] = <<>>
  <2>1. "server" \in Side /\ Peer("server") = "client"
    BY DEF Side, Peer
  <2>2. Arrived("server")
    BY <1>2 DEF waitForAck
  <2>3. chan'["server"] = Tail(chan["server"]) /\ chan'["client"] = chan["client"]
    BY <1>1, <1>4, <2>1, <2>2, TakeMoves
  <2> QED BY <1>1, <1>3, <2>3
<1> QED BY <1>1, <1>4, <1>6, <1>7 DEF Derailed

\* Giving up more items does not bring the client back.
LEMMA DerailedQuits ==
  ASSUME Base, Derailed, NEW s \in Side, WriteFails(s) \/ ReadFails(s)
  PROVE  Derailed'
<1>1. /\ TypeOK /\ Placed /\ at["client"].part = 0
      /\ at["client"].pc \notin {"rData", "rStop", "sAck", "copy"}
  BY DerailedFacts
<1>2. /\ at[s].pc \in Writing \cup Reading \cup {"sAck"}
      /\ chan' = chan /\ cut' = cut /\ accepted' = accepted /\ acked' = acked
      /\ at' \in [Side -> Place] /\ at'[Peer(s)] = at[Peer(s)]
      /\ s = "server" \/ Sends(s) =>
           at'[s].pc = "done" /\ at'[s].call = at[s].call /\ at'[s].part = at[s].part
      /\ s = "client" /\ Receives(s) =>
           at'[s].pc \in {"initFunc", "puf"} /\ at'[s].part = 0
  BY QuitMoves DEF Side, Peer
<1>3. Sends(s) \/ Receives(s)
  BY <1>1, <1>2, Kinds
<1>4. at'["server"].call = at["server"].call /\ at'["server"].part = at["server"].part
  BY <1>2 DEF Side, Peer
<1>5. at'["client"].part = 0 /\ at'["client"].pc \notin {"rData", "rStop", "sAck", "copy"}
  BY <1>1, <1>2, <1>3 DEF Side, Peer
<1> QED BY <1>2, <1>4, <1>5, DerailedKept

\* Nor does memory for the next function.
LEMMA DerailedInits ==
  ASSUME Base, Derailed, initFunc
  PROVE  Derailed'
<1>1. /\ at' \in [Side -> Place] /\ at'["server"] = at["server"]
      /\ at'["client"].pc = "rStart" /\ at'["client"].part = 0
  BY InitFuncBase
<1> QED BY <1>1, DerailedKept DEF initFunc, history

\* Nor does the PUF.
LEMMA DerailedPuf ==
  ASSUME Base, Derailed, challenge_puf
  PROVE  Derailed'
<1>1. /\ at' \in [Side -> Place] /\ at'["server"] = at["server"]
      /\ at'["client"].pc \in {"fault", "wStart"} /\ at'["client"].part = 0
  BY PufBase
<1> QED BY <1>1, DerailedKept DEF challenge_puf, history

\* Nothing arrives at a derailed client, and the server only writes.
LEMMA DerailedReads ==
  ASSUME Base, Derailed, NEW s \in Side
  PROVE  ~recStream(s) /\ ~sendAck(s) /\ ~Copy(s)
<1>1. /\ at["client"].pc \notin {"rData", "rStop", "sAck", "copy"} /\ chan["client"] = <<>>
      /\ at["server"].pc \in Writing \cup {"done"}
  BY DerailedFacts
<1> QED BY <1>1 DEF recStream, sendAck, Copy, Arrived, Writing, Side

\* A whole piece is a piece that may be short.
LEMMA AlongLess ==
  ASSUME NEW q, NEW frame, NEW from, NEW to, NEW whole \in BOOLEAN, NEW less \in BOOLEAN,
         less => whole, Along(q, frame, from, to, whole)
  PROVE  Along(q, frame, from, to, less)
BY DEF Along

\* Where the sides are when the client goes on without the portions of f.
LEMMA LostFacts ==
  ASSUME Base, NEW f \in Functions, Lost(f)
  PROVE  /\ TypeOK /\ Placed /\ N \in Nat \ {0} /\ f \in 1..N /\ Last(f) \in 1..4
         /\ 1 \in PortionsOf(f) /\ Size(f, 1) \in Nat /\ Size(f, 1) >= 2
         /\ Sends("server") /\ ~Receives("server") /\ Fn("server") = f
         /\ at["server"].pc \in Writing \cup {"done"}
         /\ chan["client"] \in Seq(Unit) /\ chan["server"] \in Seq(Unit)
         /\ Frame("server", f, 1) \in Seq(Unit) /\ Len(Frame("server", f, 1)) = Size(f, 1) + 2
         /\ Frame("server", f, 1)' = Frame("server", f, 1)
         /\ at["server"].part = 1 => /\ Wanted("server") = Size(f, 1)
                                     /\ Written("server") \in 0..Size(f, 1) + 2
<1>1. /\ TypeOK /\ Placed /\ Integrity /\ N \in Nat \ {0} /\ f \in 1..N /\ Last(f) \in 1..4
      /\ PortionsOf(f) = 1..Last(f)
      /\ chan["client"] \in Seq(Unit) /\ chan["server"] \in Seq(Unit)
  BY PatternFacts DEF Base, TypeOK, Side
<1>2. 1 \in PortionsOf(f)
  BY <1>1
<1>3. Size(f, 1) \in Nat /\ Size(f, 1) >= 2
  BY <1>2, PatternFacts DEF Size
<1>4. Sends("server") /\ ~Receives("server") /\ Fn("server") = f
  BY <1>1, FnFacts DEF Lost, Sends, Receives, TypeOK
<1>5. at["server"].pc \in Writing \cup {"done"}
  BY <1>1, <1>4 DEF Placed, PlacedAt, Side
<1>6. Frame("server", f, 1) \in Seq(Unit) /\ Len(Frame("server", f, 1)) = Size(f, 1) + 2
  <2>1. Load("server", f, 1) \in Seq(Unit) /\ Len(Load("server", f, 1)) = Size(f, 1)
    BY <1>1, <1>2, LoadFacts DEF Side
  <2> QED BY <1>2, <2>1, FrameFacts
<1>7. Frame("server", f, 1)' = Frame("server", f, 1)
  BY DEF Frame, Load, Challenge, Units, Id, S, E
<1>8. ASSUME at["server"].part = 1
      PROVE  Wanted("server") = Size(f, 1) /\ Written("server") \in 0..Size(f, 1) + 2
  <2>1. Wanted("server") = Size(f, 1)
    BY <1>4, <1>8 DEF Wanted, Size
  <2> QED BY <1>3, <2>1 DEF Written
<1> QED BY <1>1, <1>2, <1>3, <1>4, <1>5, <1>6, <1>7, <1>8

\* What the lost client may do without coming to accept anything.
LEMMA LostKept ==
  ASSUME Base, NEW f \in Functions, Lost(f), at' \in [Side -> Place],
         at'["server"] = at["server"],
         at'["client"].call >= at["client"].call, at'["client"].part = 0,
         at'["client"].pc \notin {"rData", "rStop", "sAck", "copy"},
         at["client"].pc = "done" => at'["client"].pc = "done",
         cut' = cut, accepted' = accepted, acked' = acked,
         \A p \in PortionsOf(f) : data'["client"][f][p] = NULL,
         \/ chan'["client"] = chan["client"]
         \/ chan["client"] # <<>> /\ chan'["client"] = Tail(chan["client"]),
         \A k \in 1..Len(chan'["server"]) :
           chan'["server"][k] = ACK => k \in 1..Len(chan["server"]) /\ chan["server"][k] = ACK
  PROVE  Lost(f)'
<1>1. /\ TypeOK /\ Placed /\ N \in Nat \ {0} /\ f \in 1..N
      /\ Size(f, 1) \in Nat /\ Size(f, 1) >= 2
      /\ chan["client"] \in Seq(Unit) /\ chan["server"] \in Seq(Unit)
      /\ Frame("server", f, 1) \in Seq(Unit) /\ Len(Frame("server", f, 1)) = Size(f, 1) + 2
      /\ Frame("server", f, 1)' = Frame("server", f, 1)
      /\ at["server"].part = 1 => Written("server") \in 0..Size(f, 1) + 2
  BY LostFacts
<1>2. /\ \A p \in PortionsOf(f) : data'["client"][f][p] = NULL
      /\ at'["client"].call > f /\ at'["server"].call = f
  <2>1. at["client"].call > f /\ at["client"].call \in Int /\ at'["client"].call \in Int /\ f \in Int
    BY <1>1 DEF Lost, TypeOK, Side, Place
  <2> QED BY <2>1 DEF Lost
<1>3. NULL' = NULL /\ ACK' = ACK
  BY DEF NULL, ACK
<1>4. Written("server")' = Written("server")
  BY DEF Written, Wanted, Fn
<1>5. Up("server")' => Up("server")
  BY DEF Up, Peer
<1>6. CASE /\ at["server"].part = 0 /\ at["server"].pc \in {"wAck", "done"}
           /\ chan["client"] = <<>>
           /\ OneAhead /\ LastIs("client", f, 0)
           /\ \A k \in 1..Len(chan["server"]) : chan["server"][k] = ACK => k = 1
  <2>1. OneAhead' /\ LastIs("client", f, 0)'
    BY <1>6 DEF OneAhead, LastIs
  <2>2. \A k \in 1..Len(chan'["server"]) : chan'["server"][k] = ACK => k = 1
    BY <1>6
  <2> QED BY <1>2, <1>3, <1>6, <2>1, <2>2 DEF Lost
<1>7. ASSUME at["server"].part = 1, NEW i \in 0..Written("server"),
             \A k \in 1..Len(chan["server"]) : chan["server"][k] # ACK,
             Along(chan["client"], Frame("server", f, 1), i, Written("server"), Up("server"))
      PROVE  Lost(f)'
  <2> DEFINE F == Frame("server", f, 1)
             to == Written("server")
             more == Up("server")
             less == Up("server")'
             q == chan["client"]
             q2 == chan'["client"]
  <2>1. /\ F \in Seq(Unit) /\ q \in Seq(Unit) /\ i \in Nat /\ to \in Nat
        /\ more \in BOOLEAN /\ less \in BOOLEAN /\ (less => more)
    BY <1>1, <1>5, <1>7 DEF Up
  <2>2. Along(q, F, i, to, more) /\ (q2 = q \/ (q # <<>> /\ q2 = Tail(q))) /\ i <= to
    BY <1>7, <2>1
  <2>3. \E j \in 0..to : Along(q2, F, j, to, less)
    <3> HIDE DEF F, to, more, less, q, q2
    <3>1. CASE q2 = q
      <4>1. i \in 0..to
        BY <2>1, <2>2
      <4> QED BY <2>1, <2>2, <3>1, <4>1 DEF Along
    <3>2. CASE q # <<>> /\ q2 = Tail(q)
      <4>1. Along(Tail(q), F, i + 1, to, more) /\ i + 1 <= to
        <5>1. q \in Seq(Unit) /\ F \in Seq(Unit) /\ i \in Nat /\ to \in Nat /\ more \in BOOLEAN
          BY <2>1
        <5>2. q # <<>> /\ Along(q, F, i, to, more)
          BY <2>2, <3>2
        <5> QED BY <5>1, <5>2, AlongRead
      <4>2. Along(Tail(q), F, i + 1, to, less)
        BY <2>1, <4>1 DEF Along
      <4>3. i + 1 \in 0..to
        BY <2>1, <4>1
      <4> QED BY <3>2, <4>2, <4>3
    <3> QED BY <2>2, <3>1, <3>2
  <2>4. \A k \in 1..Len(chan'["server"]) : chan'["server"][k] # ACK
    BY <1>7
  <2>5. \E j \in 0..Written("server")' :
          /\ Along(chan["client"], Frame("server", f, 1), j, Written("server"), Up("server"))'
          /\ at'["client"].pc = "rData" => j = 1 /\ buffer'["client"] = <<>>
          /\ at'["client"].pc = "rStop" => j = 2
    BY <1>1, <1>4, <2>3
  <2> QED BY <1>2, <1>3, <1>7, <2>4, <2>5 DEF Lost
<1> QED BY <1>6, <1>7 DEF Lost

\* The memory that the client takes is for another function.
LEMMA LostInits ==
  ASSUME Base, NEW f \in Functions, Lost(f), initFunc
  PROVE  Lost(f)'
<1>1. /\ at' \in [Side -> Place] /\ at'["server"] = at["server"] /\ at["client"].pc = "initFunc"
      /\ at'["client"].pc = "rStart" /\ at'["client"].call = at["client"].call
      /\ at'["client"].part = 0
      /\ \A g \in Functions : g # at["client"].call => data'["client"][g] = data["client"][g]
      /\ chan' = chan /\ cut' = cut /\ accepted' = accepted /\ acked' = acked
  BY InitFuncBase DEF initFunc, history
<1>2. at["client"].call > f /\ at["client"].call \in Nat /\ f \in Nat
  <2>1. f \in 1..N /\ N \in Nat /\ at["client"].call \in 1..2 * N + 2
    BY LostFacts, BaseFn
  <2>2. at["client"].call > f
    BY DEF Lost
  <2> QED BY <2>1, <2>2
<1>3. \A p \in PortionsOf(f) : data'["client"][f][p] = NULL
  BY <1>1, <1>2 DEF Lost
<1> QED BY <1>1, <1>2, <1>3, LostKept

\* Without all its portions the client may still get to the PUF.
LEMMA LostPuf ==
  ASSUME Base, NEW f \in Functions, Lost(f), challenge_puf
  PROVE  Lost(f)'
<1>1. /\ at["client"].call = N + 1 /\ at'["server"] = at["server"]
      /\ at' \in [Side -> Place]
      /\ \A p \in PortionsOf(f) :
           data["client"][f][p] = NULL => data'["client"][f][p] = NULL
      /\ at'["client"].part = 0
      /\ at'["client"].pc \in {"fault", "wStart"} /\ at'["client"].call \in {N + 1, N + 2}
  BY PufBase
<1>2. /\ chan' = chan /\ cut' = cut /\ accepted' = accepted /\ acked' = acked
      /\ at["client"].pc = "puf"
  BY DEF challenge_puf, history
<1>3. \A p \in PortionsOf(f) : data'["client"][f][p] = NULL
  BY <1>1 DEF Lost
<1>4. at'["client"].call >= at["client"].call
  BY <1>1, LostFacts
<1> QED BY <1>1, <1>2, <1>3, <1>4, LostKept

\* What the client sends holds no acknowledgement, or would come behind one.
LEMMA LostClientSends ==
  ASSUME Base, NEW f \in Functions, Lost(f), sendFramedStream("client")
  PROVE  Lost(f)'
<1>1. /\ TypeOK /\ Placed /\ Integrity /\ at["client"].part = 0 /\ chan["server"] \in Seq(Unit)
      /\ "client" \in Side /\ Peer("client") = "server"
  BY LostFacts DEF Lost, Side, Peer, Base
<1>2. PICK pc \in Writing : Go("client", pc)
  BY DEF sendFramedStream, Writing
<1>3. /\ at["client"].pc \in Writing /\ at["client"].pc # "done"
      /\ data' = data /\ cut' = cut /\ accepted' = accepted /\ acked' = acked
  BY DEF sendFramedStream, Writing, heap, history
<1>4. /\ at' \in [Side -> Place] /\ at'["client"].pc = pc
      /\ at'["client"].call = at["client"].call
      /\ at'["client"].part = 0 /\ at'["server"] = at["server"]
  BY <1>1, <1>2, GoMoves DEF PC, Writing
<1>5. Sends("client") /\ Fn("client") \in Functions
  BY <1>1, <1>3, Kinds, FnFacts, PatternFacts DEF TypeOK
<1>6. PICK u \in Seq(Unit) : Write("client", u) /\ \A k \in 1..Len(u) : u[k] # ACK
  <2>1. Outgoing("client") = <<Id(Fn("client"))>>
    BY <1>1, <1>5 DEF Outgoing, Integrity
  <2>2. \A u \in {S, E, Id(Fn("client"))} : u \in Unit /\ u # ACK
    BY <1>5, UnitFacts DEF S, E, ACK
  <2>3. \A u \in {S, E, Id(Fn("client"))} :
          <<u>> \in Seq(Unit) /\ \A k \in 1..Len(<<u>>) : <<u>>[k] # ACK
    BY <2>2
  <2>4. \E u \in {S, E, Id(Fn("client"))} : Write("client", <<u>>)
    BY <2>1 DEF sendFramedStream
  <2> QED BY <2>3, <2>4
<1>7. /\ chan'["client"] = chan["client"]
      /\ chan'["server"] = chan["server"] \/ chan'["server"] = chan["server"] \o u
  BY <1>1, <1>6, WriteMoves
<1>8. \A k \in 1..Len(chan'["server"]) :
        chan'["server"][k] = ACK => k \in 1..Len(chan["server"]) /\ chan["server"][k] = ACK
  <2> DEFINE q == chan["server"]
             q2 == q \o u
  <2>1. q \in Seq(Unit) /\ Len(q) \in Nat /\ Len(u) \in Nat
    BY <1>1
  <2> HIDE DEF q
  <2>2. /\ Len(q2) = Len(q) + Len(u)
        /\ \A k \in 1..Len(q) : q2[k] = q[k]
        /\ \A k \in Len(q) + 1..Len(q) + Len(u) : q2[k] = u[k - Len(q)]
    BY <2>1, Concat
  <2> HIDE DEF q2
  <2>3. ASSUME NEW k \in 1..Len(q2), q2[k] = ACK PROVE k \in 1..Len(q) /\ q[k] = ACK
    <3>1. CASE k \in 1..Len(q)
      BY <2>2, <2>3, <3>1
    <3>2. CASE k \in Len(q) + 1..Len(q) + Len(u)
      <4>1. k - Len(q) \in 1..Len(u)
        BY <2>1, <3>2
      <4> QED BY <1>6, <2>2, <2>3, <3>2, <4>1
    <3> QED BY <2>1, <2>2, <3>1, <3>2
  <2> QED BY <1>7, <2>3 DEF q, q2
<1>9. /\ \A p \in PortionsOf(f) : data'["client"][f][p] = NULL
      /\ at'["client"].call >= at["client"].call
      /\ at'["client"].pc \notin {"rData", "rStop", "sAck", "copy"}
  <2>1. at["client"].call \in Nat
    BY BaseFn
  <2>2. pc \notin {"rData", "rStop", "sAck", "copy"}
    BY DEF Writing
  <2>3. \A p \in PortionsOf(f) : data["client"][f][p] = NULL
    BY DEF Lost
  <2> QED BY <1>3, <1>4, <2>1, <2>2, <2>3
<1> QED BY <1>3, <1>4, <1>7, <1>8, <1>9, LostKept

\* A call of the lost client returns 1.
LEMMA LostClientFails ==
  ASSUME Base, NEW f \in Functions, Lost(f), Fails("client"),
         at["client"].pc \in Writing \cup Reading,
         data' = data, cut' = cut, accepted' = accepted, acked' = acked,
         \/ chan'["client"] = chan["client"]
         \/ chan["client"] # <<>> /\ chan'["client"] = Tail(chan["client"]),
         chan'["server"] = chan["server"]
  PROVE  Lost(f)'
<1>1. TypeOK /\ Placed /\ at["client"].part = 0 /\ "client" \in Side /\ Peer("client") = "server"
  BY LostFacts DEF Lost, Side, Peer
<1>2. Sends("client") \/ Receives("client")
  BY <1>1, Kinds
<1>3. /\ at' \in [Side -> Place] /\ at'["server"] = at["server"]
      /\ Receives("client") => NextCall("client")
      /\ Sends("client") =>
           /\ at'["client"].pc = "done" /\ at'["client"].call = at["client"].call
           /\ at'["client"].part = at["client"].part
  BY <1>1, FailsMoves
<1>4. Receives("client") =>
        /\ at'["client"].pc \in {"initFunc", "puf"} /\ at'["client"].part = 0
        /\ at'["client"].call = at["client"].call + 1
  <2>1. ASSUME Receives("client")
        PROVE  /\ at'["client"].pc \in {"initFunc", "puf"} /\ at'["client"].part = 0
               /\ at'["client"].call = at["client"].call + 1
    <3>1. Fn("client") < N \/ Fn("client") = N
      <4>1. Fn("client") \in 1..N /\ N \in Nat
        BY <1>1, <2>1, BaseFn
      <4> QED BY <4>1
    <3> QED BY <1>1, <1>3, <2>1, <3>1, AfterReceiving
  <2> QED BY <2>1
<1>5. /\ at'["client"].call >= at["client"].call /\ at'["client"].part = 0
      /\ at'["client"].pc \notin {"rData", "rStop", "sAck", "copy"}
      /\ at["client"].pc # "done"
  <2>1. at["client"].call \in Nat
    BY BaseFn
  <2>2. at["client"].pc # "done"
    BY DEF Writing, Reading
  <2>3. CASE Sends("client")
    BY <1>1, <1>3, <2>1, <2>2, <2>3
  <2>4. CASE Receives("client")
    BY <1>1, <1>4, <2>1, <2>2, <2>4
  <2> QED BY <1>2, <2>3, <2>4
<1>6. /\ \A p \in PortionsOf(f) : data'["client"][f][p] = NULL
  BY DEF Lost
<1> QED BY <1>3, <1>5, <1>6, LostKept

\* The lost client may start on the frame of f's portion, but will not accept it.
LEMMA LostClientReads ==
  ASSUME Base, NEW f \in Functions, Lost(f), recStream("client")
  PROVE  Lost(f)'
<1>1. /\ TypeOK /\ Placed /\ Integrity /\ N \in Nat \ {0}
      /\ at["client"].part = 0 /\ at["client"].call > f
      /\ "client" \in Side /\ "server" \in Side /\ Peer("client") = "server"
      /\ Peer("server") = "client"
      /\ Size(f, 1) \in Nat /\ Size(f, 1) >= 2 /\ 1 \in PortionsOf(f)
      /\ chan["client"] \in Seq(Unit) /\ chan["server"] \in Seq(Unit)
      /\ Frame("server", f, 1) \in Seq(Unit) /\ Len(Frame("server", f, 1)) = Size(f, 1) + 2
      /\ Frame("server", f, 1)' = Frame("server", f, 1)
      /\ at["server"].part = 1 => Written("server") \in 0..Size(f, 1) + 2
  BY LostFacts DEF Lost, Side, Peer, Base
<1>2. /\ Arrived("client") /\ Take("client")
      /\ data' = data /\ cut' = cut /\ acked' = acked
  BY DEF recStream, heap
<1>3. /\ chan["client"] # <<>> /\ chan'["client"] = Tail(chan["client"])
      /\ chan'["server"] = chan["server"]
  BY <1>1, <1>2, TakeMoves DEF Arrived
<1>4. PICK i \in 0..Written("server") :
        /\ at["server"].part = 1
        /\ \A k \in 1..Len(chan["server"]) : chan["server"][k] # ACK
        /\ Along(chan["client"], Frame("server", f, 1), i, Written("server"), Up("server"))
        /\ at["client"].pc = "rData" => i = 1 /\ buffer["client"] = <<>>
        /\ at["client"].pc = "rStop" => i = 2
  BY <1>3 DEF Lost
<1> DEFINE F == Frame("server", f, 1)
           q == chan["client"]
           to == Written("server")
           more == Up("server")
           unit == Head(chan["client"])
<1>5. Along(Tail(q), F, i + 1, to, more) /\ i + 1 <= to /\ unit = F[i + 1] /\ i + 1 \in 0..to
  <2>1. /\ F \in Seq(Unit) /\ q \in Seq(Unit) /\ i \in Nat /\ to \in Nat
        /\ more \in BOOLEAN /\ q # <<>> /\ Along(q, F, i, to, more) /\ unit = Head(q)
    BY <1>1, <1>3, <1>4 DEF Up
  <2> HIDE DEF F, to, more, unit, q
  <2>2. Along(Tail(q), F, i + 1, to, more) /\ i + 1 <= to /\ unit = F[i + 1]
    BY <2>1, AlongRead
  <2> QED BY <2>1, <2>2
<1>6. unit = S => i = 0
  <2>1. i + 1 \in 1..Size(f, 1) + 2
    BY <1>1, <1>4, <1>5
  <2>2. F[i + 1] = S => i + 1 = 1
    BY <1>1, <2>1, FrameNoAck
  <2> QED BY <1>4, <1>5, <2>2
<1>7. \A k \in 1..Len(chan'["server"]) : chan'["server"][k] # ACK
  BY <1>3, <1>4
<1>8. \A p \in PortionsOf(f) : data'["client"][f][p] = NULL
  BY <1>2 DEF Lost
<1>9. CASE at["client"].pc = "rStop"
  <2>1. Head(chan["client"]) # E
    BY <1>2, <1>9, LostReads
  <2>2. Fails("client") /\ UNCHANGED <<buffer, accepted>>
    BY <1>9, <2>1 DEF recStream
  <2> QED BY <1>2, <1>3, <1>9, <2>2, LostClientFails DEF Reading
<1>10. ASSUME NEW pc \in {"rStart", "rData", "rStop"}, Go("client", pc), accepted' = accepted,
              pc = "rData" => i + 1 = 1 /\ buffer'["client"] = <<>>,
              pc = "rStop" => i + 1 = 2,
              at["client"].pc # "done"
       PROVE  Lost(f)'
  <2>1. /\ at' \in [Side -> Place] /\ at'["client"].pc = pc
        /\ at'["client"].call = at["client"].call
        /\ at'["client"].part = at["client"].part
        /\ at'["server"] = at["server"]
    BY <1>1, <1>10, GoMoves DEF PC, Reading
  <2>2. Written("server")' = Written("server")
    BY <2>1 DEF Written, Wanted, Fn
  <2>3. Up("server")' <=> Up("server")
    BY <1>1, <1>2, <1>10, <2>1 DEF Up
  <2> DEFINE less == Up("server")'
             q2 == chan'["client"]
             j == i + 1
  <2>4. Along(q2, F, j, to, less)
    <3>1. more \in BOOLEAN /\ less \in BOOLEAN /\ (less => more)
      BY <2>3 DEF Up
    <3>2. Along(q2, F, j, to, more)
      BY <1>3, <1>5
    <3> HIDE DEF q2, F, j, to, more, less
    <3> QED BY <3>1, <3>2 DEF Along
  <2>5. Along(chan["client"], Frame("server", f, 1), i + 1, Written("server"), Up("server"))'
    BY <1>1, <2>2, <2>4
  <2>6. i + 1 \in 0..Written("server")'
    BY <1>5, <2>2
  <2>7. at'["client"].call > f /\ at'["server"].call = f /\ at'["server"].part = 1
    BY <1>1, <1>4, <2>1 DEF Lost
  <2>8. /\ at'["client"].pc = "rData" => i + 1 = 1 /\ buffer'["client"] = <<>>
        /\ at'["client"].pc = "rStop" => i + 1 = 2
    BY <1>10, <2>1
  <2>9. /\ \A p \in PortionsOf(f) : (data["client"][f][p] = NULL)'
        /\ \A k \in 1..Len(chan["server"])' : (chan["server"][k] # ACK)'
    BY <1>7, <1>8 DEF NULL, ACK
  <2>10. at'["client"].pc \notin {"sAck", "copy"} /\ at'["client"].part = 0
    BY <1>1, <1>10, <2>1
  <2> QED BY <2>5, <2>6, <2>7, <2>8, <2>9, <2>10 DEF Lost
<1>11. CASE at["client"].pc = "rStart"
  <2>1. /\ buffer' = [buffer EXCEPT !["client"] = <<>>] /\ accepted' = accepted
        /\ Go("client", IF unit = S THEN "rData" ELSE "rStart")
    BY <1>11 DEF recStream
  <2>2. buffer'["client"] = <<>>
    BY <1>1, <2>1 DEF TypeOK
  <2>3. CASE unit = S
    BY <1>6, <1>10, <1>11, <2>1, <2>2, <2>3
  <2>4. CASE unit # S
    BY <1>10, <1>11, <2>1, <2>2, <2>4
  <2> QED BY <2>3, <2>4
<1>12. CASE at["client"].pc = "rData"
  <2>1. /\ buffer' = [buffer EXCEPT !["client"] = Append(@, unit)] /\ accepted' = accepted
        /\ Go("client", IF Len(buffer'["client"]) = Wanted("client") THEN "rStop" ELSE "rData")
    BY <1>12 DEF recStream
  <2>2. buffer["client"] = <<>> /\ i = 1
    BY <1>4, <1>12
  <2>3. buffer'["client"] = Append(<<>>, unit)
    BY <1>1, <2>1, <2>2 DEF TypeOK
  <2>4. Len(buffer'["client"]) = 1
    BY <2>3
  <2>5. Wanted("client") = 1
    BY <1>1 DEF Wanted
  <2>6. Go("client", "rStop")
    BY <2>1, <2>4, <2>5
  <2> QED BY <1>10, <1>12, <2>1, <2>2, <2>6
<1> QED BY <1>9, <1>11, <1>12 DEF recStream

\* There is none for the client to read.
LEMMA LostClientWaits ==
  ASSUME Base, NEW f \in Functions, Lost(f), waitForAck("client")
  PROVE  Lost(f)'
<1>1. /\ TypeOK /\ "client" \in Side /\ Peer("client") = "server"
      /\ Arrived("client") /\ Take("client") /\ at["client"].pc = "wAck"
      /\ data' = data /\ cut' = cut /\ accepted' = accepted
  BY DEF waitForAck, heap, Base, Side, Peer
<1>2. Head(chan["client"]) # ACK
  BY <1>1, LostReads
<1>3. Fails("client") /\ acked' = acked
  BY <1>2 DEF waitForAck, IsAck
<1>4. /\ chan["client"] # <<>> /\ chan'["client"] = Tail(chan["client"])
      /\ chan'["server"] = chan["server"]
  BY <1>1, TakeMoves DEF Arrived
<1> QED BY <1>1, <1>3, <1>4, LostClientFails DEF Writing

\* The server's steps leave the lost client where it is.
LEMMA LostServerMoves ==
  ASSUME Base, NEW f \in Functions, Lost(f), at' \in [Side -> Place],
         at'["client"] = at["client"], at'["server"].call = at["server"].call,
         data' = data, buffer' = buffer, cut' = cut
  PROVE  /\ \A p \in PortionsOf(f) : (data["client"][f][p] = NULL)'
         /\ (at["client"].call > f /\ at["client"].part = 0)'
         /\ (at["client"].pc \notin {"sAck", "copy"})'
         /\ (at["server"].call = f)'
         /\ Up("server")' <=> Up("server")
         /\ Sends("server")' /\ Fn("server")' = f
         /\ Frame("server", f, 1)' = Frame("server", f, 1)
<1>1. Sends("server") /\ Fn("server") = f /\ Frame("server", f, 1)' = Frame("server", f, 1)
  BY LostFacts
<1>2. Sends("server")' /\ Fn("server")' = f
  BY <1>1, SameCall DEF Side
<1>3. Up("server")' <=> Up("server")
  BY DEF Up, Peer
<1> QED BY <1>1, <1>2, <1>3 DEF Lost, NULL

\* The server sends the first portion of f, which nobody acknowledges.
LEMMA LostServerSends ==
  ASSUME Base, NEW f \in Functions, Lost(f), sendFramedStream("server")
  PROVE  Lost(f)'
<1>1. /\ TypeOK /\ Placed /\ "server" \in Side /\ Peer("server") = "client"
      /\ at["server"].pc \in {"wStart", "wData", "wStop"} /\ Fn("server") = f
      /\ data' = data /\ buffer' = buffer /\ cut' = cut
      /\ chan["client"] \in Seq(Unit) /\ chan["server"] \in Seq(Unit)
      /\ Size(f, 1) \in Nat
      /\ at["server"].part = 1 => Written("server") \in 0..Size(f, 1) + 2
  BY LostFacts DEF sendFramedStream, heap, Side, Peer
<1>2. PICK i \in 0..Written("server") :
        /\ at["server"].part = 1
        /\ \A k \in 1..Len(chan["server"]) : chan["server"][k] # ACK
        /\ Along(chan["client"], Frame("server", f, 1), i, Written("server"), Up("server"))
        /\ at["client"].pc = "rData" => i = 1 /\ buffer["client"] = <<>>
        /\ at["client"].pc = "rStop" => i = 2
  BY <1>1 DEF Lost
<1> DEFINE F == Frame("server", f, 1)
           q == chan["client"]
           whole == Up("server")
<1>3. PICK u \in Seq(Unit) :
        /\ Write("server", u)
        /\ whole => Along(q \o u, F', i, Written("server")', whole)
        /\ Along(q, F', i, Written("server")', FALSE)
        /\ at' \in [Side -> Place] /\ at'["client"] = at["client"]
        /\ at'["server"].pc \in Writing /\ at'["server"].call = at["server"].call
        /\ at'["server"].part = at["server"].part
  <2>1. /\ q \in Seq(Unit) /\ i \in Nat /\ whole \in BOOLEAN
        /\ Along(q, Frame("server", Fn("server"), at["server"].part), i, Written("server"), whole)
    BY <1>1, <1>2 DEF Up
  <2>2. Frame("server", Fn("server"), at["server"].part) = F
    BY <1>1, <1>2
  <2> HIDE DEF q, whole, F
  <2>3. "server" = "client" /\ at["server"].part # 0 =>
          data["client"][Fn("server")][at["server"].part] # NULL
    OBVIOUS
  <2>4. PICK u \in Seq(Unit) :
           /\ Write("server", u)
           /\ whole => Along(q \o u, Frame("server", Fn("server"), at["server"].part)', i, Written("server")', whole)
           /\ Along(q, Frame("server", Fn("server"), at["server"].part)', i, Written("server")', FALSE)
           /\ at' \in [Side -> Place] /\ at'[Peer("server")] = at[Peer("server")]
           /\ at'["server"].pc \in Writing /\ at'["server"].call = at["server"].call
           /\ at'["server"].part = at["server"].part
    BY <1>1, <2>1, <2>3, SentPiece, ZenonT(60)
  <2>5. Fn("server")' = f /\ at'["server"].part = 1
    BY <1>1, <1>2, <2>4, SameCall
  <2>6. Frame("server", Fn("server"), at["server"].part)' = F'
    BY <2>5 DEF F, Frame, Load
  <2> QED BY <1>1, <2>4, <2>6
<1>4. /\ \A p \in PortionsOf(f) : (data["client"][f][p] = NULL)'
      /\ (at["client"].call > f /\ at["client"].part = 0)'
      /\ (at["client"].pc \notin {"sAck", "copy"})'
      /\ (at["server"].call = f)'
      /\ Up("server")' <=> Up("server")
  BY <1>1, <1>3, LostServerMoves
<1>5. chan'["server"] = chan["server"] /\ chan'["client"] = IF whole THEN q \o u ELSE q
  BY <1>1, <1>3, WriteMoves
<1>6. Along(chan["client"], Frame("server", f, 1), i, Written("server"), Up("server"))'
  <2>1. CASE whole
    <3>1. Up("server")' = whole /\ chan'["client"] = q \o u
      BY <1>4, <1>5, <2>1 DEF Up
    <3> QED BY <1>3, <2>1, <3>1
  <2>2. CASE ~whole
    <3>1. Up("server")' = FALSE /\ chan'["client"] = q
      BY <1>4, <1>5, <2>2 DEF Up
    <3> QED BY <1>3, <3>1
  <2> QED BY <2>1, <2>2
<1>7. i \in 0..Written("server")'
  <2>1. Len(q) \in Nat /\ i \in Nat
    BY <1>1, <1>2
  <2>2. Wanted("server")' = Wanted("server") /\ Wanted("server") \in Nat
    <3>1. Wanted("server") = Size(f, 1)
      BY <1>2, LostFacts
    <3> QED BY <1>1, <1>3, <3>1, SameItemOf
  <2>3. Written("server")' \in Nat
    BY <2>2 DEF Written
  <2> DEFINE w == Written("server")'
             n == Len(q)
  <2>4. i + n <= w
    BY <1>3 DEF Along
  <2> HIDE DEF w, n
  <2>5. i \in 0..w
    BY <2>1, <2>3, <2>4 DEF w, n
  <2> QED BY <2>5 DEF w
<1>8. \A k \in 1..Len(chan["server"])' : (chan["server"][k] # ACK)'
  BY <1>2, <1>5 DEF ACK
<1>9. /\ (at["client"].pc = "rData")' => i = 1 /\ (buffer["client"] = <<>>)'
      /\ (at["client"].pc = "rStop")' => i = 2
  BY <1>1, <1>2, <1>3
<1>10. at'["server"].part = 1
  BY <1>2, <1>3
<1> QED BY <1>4, <1>6, <1>7, <1>8, <1>9, <1>10 DEF Lost

\* A server that stops waiting has come no further than that portion.
LEMMA LostServerStops ==
  ASSUME Base, NEW f \in Functions, Lost(f), Fails("server"),
         at["server"].pc \in Writing, at["server"].pc = "wAck" \/ ~Up("server"),
         data' = data, buffer' = buffer, cut' = cut, accepted' = accepted, acked' = acked,
         chan'["client"] = chan["client"],
         \/ chan'["server"] = chan["server"]
         \/ chan["server"] # <<>> /\ chan'["server"] = Tail(chan["server"])
  PROVE  Lost(f)'
<1>1. /\ TypeOK /\ Placed /\ "server" \in Side /\ Peer("server") = "client"
      /\ Fn("server") = f /\ Sends("server")
      /\ chan["client"] \in Seq(Unit) /\ chan["server"] \in Seq(Unit)
      /\ Size(f, 1) \in Nat /\ Size(f, 1) >= 2
      /\ Frame("server", f, 1) \in Seq(Unit) /\ Len(Frame("server", f, 1)) = Size(f, 1) + 2
      /\ at["server"].part = 1 => /\ Wanted("server") = Size(f, 1)
                                  /\ Written("server") \in 0..Size(f, 1) + 2
  BY LostFacts DEF Side, Peer
<1>2. /\ at' \in [Side -> Place] /\ at'["client"] = at["client"]
      /\ at'["server"].pc = "done" /\ at'["server"].call = at["server"].call
      /\ at'["server"].part = at["server"].part
  BY <1>1, FailsMoves
<1>3. /\ \A p \in PortionsOf(f) : (data["client"][f][p] = NULL)'
      /\ (at["client"].call > f /\ at["client"].part = 0)'
      /\ (at["client"].pc \notin {"sAck", "copy"})'
      /\ (at["server"].call = f)'
      /\ Up("server")' <=> Up("server")
      /\ Frame("server", f, 1)' = Frame("server", f, 1)
  BY <1>1, <1>2, LostServerMoves
<1>4. \A k \in 1..Len(chan'["server"]) :
        \/ k \in 1..Len(chan["server"]) /\ chan'["server"][k] = chan["server"][k]
        \/ k + 1 \in 1..Len(chan["server"]) /\ chan'["server"][k] = chan["server"][k + 1] /\ k + 1 # 1
  <2>1. chan["server"] \in Seq(Unit)
    BY <1>1
  <2>2. CASE chan["server"] # <<>> /\ chan'["server"] = Tail(chan["server"])
    <3>1. /\ Len(chan'["server"]) = Len(chan["server"]) - 1
          /\ \A k \in 1..Len(chan'["server"]) : chan'["server"][k] = chan["server"][k + 1]
      BY <2>1, <2>2
    <3>2. Len(chan["server"]) \in Nat
      BY <2>1
    <3> QED BY <3>1, <3>2
  <2>3. CASE chan'["server"] = chan["server"]
    BY <2>3
  <2> QED BY <2>2, <2>3
<1>5. CASE /\ at["server"].part = 0 /\ at["server"].pc \in {"wAck", "done"}
           /\ at["client"].pc \notin {"rData", "rStop"}
           /\ chan["client"] = <<>>
           /\ OneAhead /\ LastIs("client", f, 0)
           /\ \A k \in 1..Len(chan["server"]) : chan["server"][k] = ACK => k = 1
  <2>1. OneAhead' /\ LastIs("client", f, 0)'
    BY <1>5 DEF OneAhead, LastIs
  <2>2. \A k \in 1..Len(chan["server"])' : (chan["server"][k] = ACK)' => k = 1
    BY <1>4, <1>5 DEF ACK
  <2> QED BY <1>2, <1>3, <1>5, <2>1, <2>2 DEF Lost
<1>6. ASSUME at["server"].part = 1, NEW i \in 0..Written("server"),
             \A k \in 1..Len(chan["server"]) : chan["server"][k] # ACK,
             Along(chan["client"], Frame("server", f, 1), i, Written("server"), Up("server")),
             at["client"].pc = "rData" => i = 1 /\ buffer["client"] = <<>>,
             at["client"].pc = "rStop" => i = 2
      PROVE  Lost(f)'
  <2>1. Wanted("server")' = Wanted("server") /\ Written("server")' = 2 + Wanted("server")
    BY <1>1, <1>2, SameItemOf DEF Written
  <2> DEFINE w == Written("server")
             top == 2 + Wanted("server")
             F == Frame("server", f, 1)
             q == chan["client"]
  <2>2. w \in Nat /\ top \in Nat /\ w <= top /\ top = Len(F) /\ i \in Nat /\ i <= w
    BY <1>1, <1>6
  <2>3. at["server"].pc = "wAck" => w = top
    BY DEF Written
  <2>4. Along(q, F, i, top, Up("server"))
    <3>1. CASE w = top
      BY <1>6, <3>1
    <3>2. CASE ~Up("server")
      <4>1. Along(q, F, i, w, FALSE)
        BY <1>6, <3>2 DEF Along
      <4>2. F \in Seq(Unit) /\ q \in Seq(Unit)
        BY <1>1
      <4> HIDE DEF w, top, F, q
      <4>3. Along(q, F, i, top, FALSE)
        <5>1. i \in Nat /\ w \in Nat /\ top \in Nat /\ w <= top /\ top <= Len(F)
          BY <2>2
        <5> QED BY <4>1, <4>2, <5>1, AlongMore
      <4>4. Up("server") = FALSE
        BY <3>2 DEF Up
      <4> QED BY <4>3, <4>4
    <3> QED BY <2>3, <3>1, <3>2
  <2>5. Along(chan["client"], Frame("server", f, 1), i, Written("server"), Up("server"))'
    <3>1. Up("server")' = Up("server")
      BY <1>3 DEF Up
    <3> QED BY <1>3, <2>1, <2>4, <3>1
  <2>6. i \in 0..Written("server")'
    BY <2>1, <2>2
  <2>7. \A k \in 1..Len(chan["server"])' : (chan["server"][k] # ACK)'
    BY <1>4, <1>6 DEF ACK
  <2>8. /\ (at["client"].pc = "rData")' => i = 1 /\ (buffer["client"] = <<>>)'
        /\ (at["client"].pc = "rStop")' => i = 2
    BY <1>2, <1>6
  <2>9. (at["server"].part = 1)'
    BY <1>2, <1>6
  <2> QED BY <1>3, <2>5, <2>6, <2>7, <2>8, <2>9 DEF Lost
<1> QED BY <1>5, <1>6 DEF Lost

\* The server reads the acknowledgement of the identifier, or a unit that is none.
LEMMA LostServerWaits ==
  ASSUME Base, NEW f \in Functions, Lost(f), waitForAck("server")
  PROVE  Lost(f)'
<1>1. /\ TypeOK /\ Placed /\ "server" \in Side /\ Peer("server") = "client"
      /\ Fn("server") = f /\ Sends("server") /\ Last(f) \in 1..4
      /\ chan["client"] \in Seq(Unit) /\ chan["server"] \in Seq(Unit)
      /\ Size(f, 1) \in Nat /\ Len(Frame("server", f, 1)) = Size(f, 1) + 2
  BY LostFacts DEF Side, Peer
<1>2. /\ data' = data /\ buffer' = buffer /\ cut' = cut /\ accepted' = accepted
      /\ at["server"].pc = "wAck" /\ chan["server"] # <<>> /\ Take("server")
  BY DEF waitForAck, heap, Arrived
<1>3. chan'["server"] = Tail(chan["server"]) /\ chan'["client"] = chan["client"]
  BY <1>1, <1>2, TakeMoves DEF Arrived
<1>4. CASE Head(chan["server"]) # ACK
  <2>1. Fails("server") /\ acked' = acked
    BY <1>4 DEF waitForAck, IsAck
  <2> QED BY <1>2, <1>3, <2>1, LostServerStops DEF Writing
<1>5. CASE Head(chan["server"]) = ACK
  <2>1. chan["server"][1] = ACK /\ 1 \in 1..Len(chan["server"])
    BY <1>1, <1>2, <1>5
  <2>2. /\ at["server"].part = 0
        /\ at["client"].pc \notin {"rData", "rStop"}
        /\ chan["client"] = <<>>
        /\ \A k \in 1..Len(chan["server"]) : chan["server"][k] = ACK => k = 1
    BY <2>1 DEF Lost
  <2>3. NextPart("server", "wStart")
    BY <1>5 DEF waitForAck, IsAck
  <2>4. /\ at' \in [Side -> Place] /\ at'["client"] = at["client"]
        /\ at'["server"].pc = "wStart" /\ at'["server"].call = at["server"].call
        /\ at'["server"].part = 1
    <3>1. \A p \in PortionsOf(f) : data["server"][f][p] # NULL
      BY DEF Base, Memory
    <3>2. at["server"].part < Last(f) /\ 0 + 1 = 1
      BY <1>1, <2>2
    <3> QED BY <1>1, <2>2, <2>3, <3>1, <3>2, NextPartMoves DEF PC, Writing
  <2>5. /\ \A p \in PortionsOf(f) : (data["client"][f][p] = NULL)'
        /\ (at["client"].call > f /\ at["client"].part = 0)'
        /\ (at["client"].pc \notin {"sAck", "copy"})'
        /\ (at["server"].call = f)'
    BY <1>2, <2>4, LostServerMoves
  <2>6. \A k \in 1..Len(chan["server"])' : (chan["server"][k] # ACK)'
    <3>1. /\ Len(chan'["server"]) = Len(chan["server"]) - 1 /\ Len(chan["server"]) \in Nat
          /\ \A k \in 1..Len(chan'["server"]) : chan'["server"][k] = chan["server"][k + 1]
      BY <1>1, <1>2, <1>3
    <3>2. ASSUME NEW k \in 1..Len(chan'["server"]) PROVE chan'["server"][k] # ACK
      <4>1. k + 1 \in 1..Len(chan["server"]) /\ k + 1 # 1
        BY <3>1
      <4> QED BY <2>2, <3>1, <4>1
    <3> QED BY <3>2 DEF ACK
  <2>7. Written("server")' = 0
    BY <2>4 DEF Written
  <2>8. Along(chan["client"], Frame("server", f, 1), 0, Written("server"), Up("server"))'
    <3>1. chan'["client"] = <<>> /\ Len(<<>>) = 0
      BY <1>3, <2>2
    <3>2. Len(Frame("server", f, 1)') = Size(f, 1) + 2
      BY <1>1, LostFacts
    <3>3. 0 <= Size(f, 1) + 2 /\ 0 + 0 <= 0 /\ 0 + 0 = 0
      BY <1>1
    <3> QED BY <2>7, <3>1, <3>2, <3>3 DEF Along
  <2>9. (at["client"].pc \notin {"rData", "rStop"})'
    BY <2>2, <2>4
  <2>10. 0 \in 0..Written("server")' /\ (at["server"].part = 1)'
    BY <2>4, <2>7
  <2> QED BY <2>5, <2>6, <2>8, <2>9, <2>10 DEF Lost
<1> QED BY <1>4, <1>5

\* Either side may give up.
LEMMA LostQuits ==
  ASSUME Base, NEW f \in Functions, Lost(f), NEW s \in Side, WriteFails(s) \/ ReadFails(s)
  PROVE  Lost(f)'
<1>1. TypeOK /\ Placed /\ at["client"].pc \notin {"sAck", "copy"}
      /\ Sends("server") /\ ~Receives("server")
  BY LostFacts DEF Lost
<1>2. /\ Fails(s) /\ ~Up(s) /\ at[s].pc \in Writing \cup Reading \cup {"sAck"}
      /\ buffer' = buffer /\ data' = data /\ chan' = chan /\ cut' = cut
      /\ accepted' = accepted /\ acked' = acked
  BY DEF WriteFails, ReadFails, Writing, Reading, heap, history
<1>3. CASE s = "client"
  BY <1>1, <1>2, <1>3, LostClientFails
<1>4. CASE s = "server"
  <2>1. at["server"].pc \in Writing
    BY <1>1, <1>2, <1>4, Kinds
  <2> QED BY <1>2, <1>4, <2>1, LostServerStops
<1> QED BY <1>3, <1>4 DEF Side

\* A client that is lost accepts nothing, and the server is still sending.
LEMMA LostRests ==
  ASSUME Base, NEW f \in Functions, Lost(f), NEW s \in Side
  PROVE  ~sendAck(s) /\ ~Copy(s) /\ ~recStream("server")
<1>1. /\ at["server"].pc \in Writing \cup {"done"} /\ at["client"].pc \notin {"sAck", "copy"}
  BY LostFacts DEF Lost
<1> QED BY <1>1 DEF sendAck, Copy, recStream, Writing, Side

(***************************************************************************)
(* The connection breaks.                                                  *)
(***************************************************************************)
LEMMA CutQueue ==
  ASSUME NEW q \in Seq(Unit), NEW n \in 0..Len(q)
  PROVE  /\ SubSeq(q, 1, n) \in Seq(Unit)
         /\ q = <<>> => SubSeq(q, 1, n) = <<>>
         /\ \A u \in Unit : q = <<u>> => SubSeq(q, 1, n) \in {<<>>, <<u>>}
         /\ \A k \in 1..Len(SubSeq(q, 1, n)) : k \in 1..Len(q) /\ SubSeq(q, 1, n)[k] = q[k]
         /\ SubSeq(q, 1, n) # <<>> =>
              /\ q # <<>> /\ Head(SubSeq(q, 1, n)) = Head(q)
              /\ n - 1 \in 0..Len(Tail(q)) /\ Tail(q) \in Seq(Unit)
              /\ Tail(SubSeq(q, 1, n)) = SubSeq(Tail(q), 1, n - 1)
<1> DEFINE p == SubSeq(q, 1, n)
<1>1. p \in Seq(Unit) /\ Len(p) = n /\ \A k \in 1..n : p[k] = q[k]
  OBVIOUS
<1>2. q = <<>> => p = <<>>
  OBVIOUS
<1>3. ASSUME NEW u \in Unit, q = <<u>> PROVE p \in {<<>>, <<u>>}
  <2>1. Len(q) = 1
    BY <1>3
  <2>2. n = 0 \/ n = 1
    BY <2>1
  <2>3. n = 0 => p = <<>>
    BY <1>1
  <2>4. n = 1 => p = <<u>>
    <3>1. ASSUME n = 1 PROVE p = <<u>>
      <4>1. Len(p) = 1 /\ p[1] = u
        BY <1>1, <1>3, <3>1
      <4> HIDE DEF p
      <4>2. p \in Seq(Unit)
        BY <1>1
      <4> QED BY <4>1, <4>2
    <3> QED BY <3>1
  <2> QED BY <2>2, <2>3, <2>4
<1>4. ASSUME p # <<>>
      PROVE  /\ q # <<>> /\ Head(p) = Head(q)
             /\ n - 1 \in 0..Len(Tail(q)) /\ Tail(q) \in Seq(Unit)
             /\ Tail(p) = SubSeq(Tail(q), 1, n - 1)
  <2>1. n >= 1 /\ q # <<>>
    BY <1>1, <1>4
  <2>2. Head(p) = Head(q)
    BY <1>1, <1>4, <2>1
  <2>3. Tail(q) \in Seq(Unit) /\ Len(Tail(q)) = Len(q) - 1
    BY <2>1
  <2>4. n - 1 \in 0..Len(Tail(q))
    BY <2>1, <2>3
  <2>5. Tail(p) \in Seq(Unit) /\ Len(Tail(p)) = n - 1
    BY <1>1, <1>4
  <2>6. SubSeq(Tail(q), 1, n - 1) \in Seq(Unit) /\ Len(SubSeq(Tail(q), 1, n - 1)) = n - 1
    BY <2>3, <2>4
  <2>7. ASSUME NEW k \in 1..n - 1 PROVE Tail(p)[k] = SubSeq(Tail(q), 1, n - 1)[k]
    <3>1. Tail(p)[k] = p[k + 1]
      BY <1>1, <1>4, <2>5
    <3>2. p[k + 1] = q[k + 1]
      BY <1>1
    <3>3. SubSeq(Tail(q), 1, n - 1)[k] = Tail(q)[k]
      BY <2>3, <2>4
    <3>4. Tail(q)[k] = q[k + 1]
      BY <2>1, <2>3, <2>4
    <3> QED BY <3>1, <3>2, <3>3, <3>4
  <2>8. Tail(p) = SubSeq(Tail(q), 1, n - 1)
    BY <2>5, <2>6, <2>7
  <2> QED BY <2>1, <2>2, <2>3, <2>4, <2>8
<1> QED BY <1>1, <1>2, <1>3, <1>4

\* All that a cut leaves as it was.
LEMMA CutKeeps ==
  ASSUME Base, Cut
  PROVE  /\ TypeOK /\ cut' = TRUE /\ at' = at /\ buffer' = buffer /\ data' = data
         /\ accepted' = accepted /\ acked' = acked
         /\ \A s \in Side : \E n \in 0..Len(chan[s]) : chan'[s] = SubSeq(chan[s], 1, n)
         /\ \A s \in Side : chan[s] \in Seq(Unit)
         /\ \A s \in Side : /\ Fn(s)' = Fn(s) /\ Wanted(s)' = Wanted(s)
                            /\ Sends(s)' <=> Sends(s)
                            /\ Receives(s)' <=> Receives(s)
                            /\ Finished(s)' <=> Finished(s)
                            /\ AtLast(s)' <=> AtLast(s)
                            /\ Incoming(s)' = Incoming(s)
                            /\ Written(s)' = Written(s) /\ Read(s)' = Read(s)
                            /\ Frame(s, Fn(s), at[s].part)' = Frame(s, Fn(s), at[s].part)
                            /\ Due(s)' <=> Due(s)
         /\ \A r, f, p : LastIs(r, f, p)' <=> LastIs(r, f, p)
         /\ Level' <=> Level
         /\ OneAhead' <=> OneAhead
         /\ Held => Held'
<1>1. /\ TypeOK /\ cut' = TRUE /\ at' = at /\ buffer' = buffer /\ data' = data
      /\ accepted' = accepted /\ acked' = acked
      /\ \A s \in Side : \E n \in 0..Len(chan[s]) : chan'[s] = SubSeq(chan[s], 1, n)
  BY CutMoves DEF Cut, heap, history, Base
<1>2. \A s \in Side : chan[s] \in Seq(Unit)
  BY <1>1 DEF TypeOK
<1>3. ASSUME NEW s \in Side
      PROVE  /\ Fn(s)' = Fn(s) /\ Wanted(s)' = Wanted(s)
             /\ Sends(s)' <=> Sends(s)
             /\ Receives(s)' <=> Receives(s)
             /\ Finished(s)' <=> Finished(s)
             /\ AtLast(s)' <=> AtLast(s)
             /\ Incoming(s)' = Incoming(s)
             /\ Frame(s, Fn(s), at[s].part)' = Frame(s, Fn(s), at[s].part)
  BY <1>1, FrameKept
<1>4. ASSUME NEW s \in Side
      PROVE  Written(s)' = Written(s) /\ Read(s)' = Read(s) /\ (Due(s)' <=> Due(s))
  <2>1. Written(s)' = Written(s) /\ Read(s)' = Read(s)
    BY <1>1, <1>3 DEF Written, Read
  <2>2. After(accepted[Len(accepted)])' = After(accepted[Len(accepted)])
    BY <1>1
  <2>3. Due(s)' <=> Due(s)
    BY <1>1, <1>3, <2>2 DEF Due
  <2> QED BY <2>1, <2>3
<1>5. /\ \A r, f, p : LastIs(r, f, p)' <=> LastIs(r, f, p)
      /\ Level' <=> Level
      /\ OneAhead' <=> OneAhead
  BY <1>1, LogKept
<1>6. Held => Held'
  <2>1. at'["client"].call \in Nat
    BY <1>1 DEF TypeOK, Side, Place
  <2> QED BY <1>1, <2>1, HeldKept
<1> QED BY <1>1, <1>2, <1>3, <1>4, <1>5, <1>6

\* A cut leaves a piece of the frame that may be short.
LEMMA CutPiece ==
  ASSUME Base, Held, Cut, NEW x \in Side, NEW r \in Side, Sends(x),
         NEW q \in Seq(Unit), NEW n \in 0..Len(q), NEW from \in Nat,
         Along(q, Frame(x, Fn(x), at[x].part), from, Written(x), ~cut)
  PROVE  Along(SubSeq(q, 1, n), Frame(x, Fn(x), at[x].part)', from, Written(x)', ~cut')
<1> DEFINE F == Frame(x, Fn(x), at[x].part)
           whole == ~cut
<1>1. x = "client" /\ at[x].part # 0 => data["client"][Fn(x)][at[x].part] # NULL
  BY SenderHolds
<1>2. F \in Seq(Unit) /\ Written(x) \in Nat /\ whole \in BOOLEAN
  BY <1>1, SenderFrame DEF Base, TypeOK
<1>3. F' = F /\ Written(x)' = Written(x) /\ (~cut') = FALSE
  BY CutKeeps
<1>4. Along(q, F, from, Written(x), whole)
  OBVIOUS
<1> HIDE DEF F, whole
<1>5. Along(SubSeq(q, 1, n), F, from, Written(x), FALSE)
  BY <1>2, <1>4, AlongCut
<1> QED BY <1>3, <1>5 DEF F

\* An acknowledgement on its way is pending or cut.
LEMMA CutPending ==
  ASSUME Base, Cut, NEW x \in Side
  PROVE  /\ chan[x] = <<>> => chan'[x] = <<>>
         /\ AckPending(x) => AckPending(x)'
<1>1. PICK n \in 0..Len(chan[x]) : chan'[x] = SubSeq(chan[x], 1, n)
  BY CutKeeps
<1>2. chan[x] \in Seq(Unit) /\ ACK \in Unit /\ cut'
  BY CutKeeps, UnitFacts
<1>3. chan[x] = <<>> => chan'[x] = <<>>
  BY <1>1, <1>2, CutQueue
<1>4. chan[x] = <<ACK>> => chan'[x] \in {<<>>, <<ACK>>}
  <2>1. \A u \in Unit : chan[x] = <<u>> => SubSeq(chan[x], 1, n) \in {<<>>, <<u>>}
    BY <1>1, <1>2, CutQueue
  <2> QED BY <1>1, <1>2, <2>1
<1> QED BY <1>2, <1>3, <1>4 DEF AckPending, ACK

\* A cut keeps each of the arrangements; this one,
LEMMA CutTogether ==
  ASSUME Base, Held, Cut, NEW x \in Side, NEW r \in Side, r = Peer(x), Together(x, r)
  PROVE  Together(x, r)'
<1>1. /\ at' = at /\ buffer' = buffer /\ cut' = TRUE /\ TypeOK
      /\ Sends(x) /\ Receives(r)
  BY CutKeeps DEF Together, SameItem
<1>2. SameItem(x, r)'
  BY CutKeeps DEF Together, SameItem
<1>3. chan'[x] # <<>> => at'[r].pc = "copy"
  BY <1>1, CutPending DEF Together
<1>4. PICK n \in 0..Len(chan[r]) : chan'[r] = SubSeq(chan[r], 1, n)
  BY CutKeeps
<1>5. CASE /\ at[r].pc \in Reading \cup {"initFunc"}
           /\ Level /\ Due(r)
           /\ Piece(x, chan[r], Read(r))
           /\ \A k \in 1..Len(buffer[r]) :
                at[r].pc \in {"rData", "rStop"} => buffer[r][k] = Incoming(r)[k]
  <2>1. Level' /\ Due(r)' /\ Read(r)' = Read(r) /\ Incoming(r)' = Incoming(r)
    BY <1>5, CutKeeps
  <2>2. Read(r) \in Nat
    <3>1. Wanted(r) \in Nat
      <4>1. x = "client" /\ at[x].part # 0 => data["client"][Fn(x)][at[x].part] # NULL
        BY <1>1, SenderHolds
      <4>2. Wanted(x) \in Nat
        BY <1>1, <4>1, SenderFrame
      <4>3. Fn(x) = Fn(r) /\ at[x].part = at[r].part
        BY DEF Together, SameItem
      <4> QED BY <4>2, <4>3 DEF Wanted
    <3>2. Len(buffer[r]) \in Nat
      BY <1>1 DEF TypeOK
    <3> QED BY <3>1, <3>2 DEF Read
  <2> DEFINE q == chan[r]
             from == Read(r)
  <2>3. q \in Seq(Unit) /\ n \in 0..Len(q) /\ from \in Nat
        /\ Along(q, Frame(x, Fn(x), at[x].part), from, Written(x), ~cut)
    BY <1>4, <1>5, <2>2, CutKeeps DEF Piece
  <2> HIDE DEF q, from
  <2>4. Along(SubSeq(q, 1, n), Frame(x, Fn(x), at[x].part)', from, Written(x)', ~cut')
    BY <1>1, <2>3, CutPiece
  <2>5. Piece(x, chan[r], Read(r))'
    BY <1>4, <2>1, <2>4 DEF Piece, q, from
  <2>6. \A k \in 1..Len(buffer'[r]) :
          at'[r].pc \in {"rData", "rStop"} => buffer'[r][k] = Incoming(r)'[k]
    BY <1>1, <1>5, <2>1
  <2> QED BY <1>1, <1>2, <1>3, <1>5, <2>1, <2>5, <2>6 DEF Together
<1>6. CASE /\ at[r].pc \in {"sAck", "copy"} /\ at[x].pc \in {"wAck", "done"}
           /\ OneAhead /\ LastIs(r, Fn(r), at[r].part)
           /\ chan[r] = <<>>
           /\ at[r].pc = "copy" => AckPending(x)
  <2>1. OneAhead' /\ LastIs(r, Fn(r), at[r].part)' /\ chan'[r] = <<>>
    <3>1. Fn(r)' = Fn(r) /\ accepted' = accepted
      BY CutKeeps
    <3> QED BY <1>1, <1>6, <3>1, CutKeeps, CutPending DEF LastIs
  <2>2. at'[r].pc = "copy" => AckPending(x)'
    BY <1>1, <1>6, CutPending
  <2> QED BY <1>1, <1>2, <1>3, <1>6, <2>1, <2>2 DEF Together
<1>7. CASE at[r].pc = "done" /\ cut /\ chan[r] = <<>>
  BY <1>7 DEF Cut
<1> QED BY <1>5, <1>6, <1>7 DEF Together

\* with the receiver gone on,
LEMMA CutBehind ==
  ASSUME Base, Held, Cut, NEW x \in Side, NEW r \in Side, r = Peer(x), Behind(x, r)
  PROVE  Behind(x, r)'
<1>1. /\ at' = at /\ cut' = TRUE
      /\ Sends(x)' /\ Fn(x)' = Fn(x) /\ Fn(r)' = Fn(r)
      /\ Receives(r)' <=> Receives(r)
      /\ Finished(r)' <=> Finished(r)
      /\ OneAhead' /\ accepted' = accepted
      /\ chan'[r] = <<>> /\ AckPending(x)'
  BY CutKeeps, CutPending DEF Behind
<1>2. LastIs(r, Fn(x), at[x].part)'
  BY <1>1 DEF Behind, LastIs
<1>3. ItemAfter(r, x)' <=> ItemAfter(r, x)
  BY <1>1 DEF ItemAfter
<1> QED BY <1>1, <1>2, <1>3 DEF Behind

\* with the sender gone on,
LEMMA CutAhead ==
  ASSUME Base, Held, Cut, NEW x \in Side, NEW r \in Side, r = Peer(x), Ahead(x, r)
  PROVE  Ahead(x, r)'
<1>1. /\ at' = at /\ cut' = TRUE
      /\ Receives(r)' /\ Fn(x)' = Fn(x) /\ Fn(r)' = Fn(r)
      /\ Sends(x)' <=> Sends(x)
      /\ Finished(x)' <=> Finished(x)
      /\ Level' /\ accepted' = accepted
      /\ chan'[x] = <<>> /\ (chan[r] = <<>> => chan'[r] = <<>>)
  BY CutKeeps, CutPending DEF Ahead
<1>2. LastIs(r, Fn(r), at[r].part)'
  BY <1>1 DEF Ahead, LastIs
<1>3. ItemAfter(x, r)' <=> ItemAfter(x, r)
  BY <1>1 DEF ItemAfter
<1>4. Sends(x) /\ Piece(x, chan[r], 0) => Piece(x, chan[r], 0)'
  <2>1. PICK n \in 0..Len(chan[r]) : chan'[r] = SubSeq(chan[r], 1, n)
    BY CutKeeps
  <2> DEFINE q == chan[r]
             from == 0
  <2>2. q \in Seq(Unit) /\ from \in Nat /\ n \in 0..Len(q)
    BY CutKeeps
  <2>3. chan'[r] = SubSeq(q, 1, n) /\ from = 0
    BY <2>1
  <2>4. Piece(x, chan[r], 0) => Along(q, Frame(x, Fn(x), at[x].part), from, Written(x), ~cut)
    BY DEF Piece
  <2> HIDE DEF q, from
  <2>5. ASSUME Sends(x), Piece(x, chan[r], 0)
        PROVE  Along(SubSeq(q, 1, n), Frame(x, Fn(x), at[x].part)', from, Written(x)', ~cut')
    BY <2>2, <2>4, <2>5, CutPiece
  <2> QED BY <2>3, <2>5 DEF Piece
<1> QED BY <1>1, <1>2, <1>3, <1>4 DEF Ahead

\* with the client at its responses,
LEMMA CutClientTurns ==
  ASSUME Base, Held, Cut, ClientTurns
  PROVE  ClientTurns'
<1>1. /\ at' = at /\ cut' = TRUE /\ accepted' = accepted
      /\ OneAhead' /\ chan'["client"] = <<>>
      /\ AtLast("server")' <=> AtLast("server")
  BY CutKeeps, CutPending DEF ClientTurns, Side
<1>2. LastIs("client", N, Last(N))'
  BY <1>1 DEF ClientTurns, LastIs
<1>3. \/ chan'["server"] = <<>>
      \/ /\ chan'["server"] # <<>> /\ Head(chan'["server"]) = ACK
         /\ IF at["client"].call = N + 1 THEN Tail(chan'["server"]) = <<>>
            ELSE Piece("client", Tail(chan["server"]), 0)'
  <2> DEFINE q == chan["server"]
             from == 0
             t == Tail(chan["server"])
  <2>1. PICK n \in 0..Len(q) : chan'["server"] = SubSeq(q, 1, n)
    BY CutKeeps DEF Side
  <2>2. q \in Seq(Unit) /\ from = 0 /\ from \in Nat
    BY CutKeeps DEF Side
  <2>3. /\ SubSeq(q, 1, n) \in Seq(Unit)
        /\ SubSeq(q, 1, n) # <<>> =>
             /\ q # <<>> /\ Head(SubSeq(q, 1, n)) = Head(q)
             /\ n - 1 \in 0..Len(t) /\ t \in Seq(Unit)
             /\ Tail(SubSeq(q, 1, n)) = SubSeq(t, 1, n - 1)
    BY <2>2, CutQueue
  <2>4. ASSUME chan'["server"] # <<>>
        PROVE  /\ Head(chan'["server"]) = ACK
               /\ at["client"].call = N + 1 => Tail(chan'["server"]) = <<>>
               /\ at["client"].call # N + 1 => Piece("client", Tail(chan["server"]), 0)'
    <3>1. /\ q # <<>> /\ Head(chan'["server"]) = Head(q)
          /\ n - 1 \in 0..Len(t) /\ t \in Seq(Unit)
          /\ Tail(chan'["server"]) = SubSeq(t, 1, n - 1)
      BY <2>1, <2>3, <2>4
    <3>2. Head(q) = ACK
      BY <3>1 DEF ClientTurns
    <3>3. at["client"].call = N + 1 => Tail(chan'["server"]) = <<>>
      <4>1. at["client"].call = N + 1 => t = <<>>
        BY <3>1 DEF ClientTurns
      <4> HIDE DEF t
      <4>2. t = <<>> => SubSeq(t, 1, n - 1) = <<>>
        BY <3>1, CutQueue
      <4> QED BY <3>1, <4>1, <4>2
    <3>4. ASSUME at["client"].call # N + 1 PROVE Piece("client", Tail(chan["server"]), 0)'
      <4>1. Sends("client")
        BY <3>4, ClientTurnsFacts DEF ClientTurns
      <4>2. Along(t, Frame("client", Fn("client"), at["client"].part), from, Written("client"), ~cut)
        BY <3>1, <3>4 DEF ClientTurns, Piece
      <4>3. "client" \in Side /\ "server" \in Side
        BY DEF Side
      <4> DEFINE m == n - 1
      <4>4. m \in 0..Len(t)
        BY <3>1
      <4>5. t \in Seq(Unit) /\ from \in Nat
        BY <2>2, <3>1
      <4>6. Tail(chan'["server"]) = SubSeq(t, 1, m) /\ from = 0
        BY <3>1
      <4> HIDE DEF t, from, m, q
      <4>7. Along(SubSeq(t, 1, m), Frame("client", Fn("client"), at["client"].part)', from, Written("client")', ~cut')
        BY <4>1, <4>2, <4>3, <4>4, <4>5, CutPiece
      <4> QED BY <4>6, <4>7 DEF Piece
    <3> QED BY <3>1, <3>2, <3>3, <3>4
  <2> QED BY <2>4
<1> QED BY <1>1, <1>2, <1>3 DEF ClientTurns, ACK

\* with the server at the responses,
LEMMA CutServerTurns ==
  ASSUME Base, Held, Cut, ServerTurns
  PROVE  ServerTurns'
<1>1. /\ at' = at /\ cut' = TRUE /\ accepted' = accepted
      /\ Level' /\ chan'["client"] = <<>> /\ chan'["server"] = <<>>
      /\ AtLast("client")' <=> AtLast("client")
  BY CutKeeps, CutPending DEF ServerTurns, Side
<1>2. LastIs("client", N, Last(N))'
  BY <1>1 DEF ServerTurns, LastIs
<1> QED BY <1>1, <1>2 DEF ServerTurns

\* and at the end.
LEMMA CutAllThrough ==
  ASSUME Base, Cut, AllThrough
  PROVE  AllThrough'
<1>1. ASSUME NEW s \in Side PROVE Finished(s)' /\ chan'[s] = <<>>
  BY CutKeeps, CutPending DEF AllThrough
<1> QED BY <1>1 DEF AllThrough

\* Sides that agree on the item still do after a cut.
LEMMA CutSync ==
  ASSUME Base, Cut, InSync
  PROVE  InSync'
<1>1. Held /\ Held'
  BY CutKeeps DEF InSync
<1>2. ASSUME NEW x \in Side, Together(x, Peer(x)) \/ Behind(x, Peer(x)) \/ Ahead(x, Peer(x))
      PROVE  InSync'
  <2>1. PICK r \in Side : r = Peer(x)
    BY DEF Side, Peer
  <2>2. Together(x, r) => Together(x, r)'
    BY <1>1, <2>1, CutTogether
  <2>3. Behind(x, r) => Behind(x, r)'
    BY <1>1, <2>1, CutBehind
  <2>4. Ahead(x, r) => Ahead(x, r)'
    BY <1>1, <2>1, CutAhead
  <2>5. Together(x, r)' \/ Behind(x, r)' \/ Ahead(x, r)'
    BY <1>2, <2>1, <2>2, <2>3, <2>4
  <2>6. (x = "client" /\ r = "server") \/ (x = "server" /\ r = "client")
    BY <2>1 DEF Side, Peer
  <2> QED BY <1>1, <2>5, <2>6 DEF InSync
<1>3. CASE ClientTurns \/ ServerTurns \/ AllThrough
  BY <1>1, <1>3, CutClientTurns, CutServerTurns, CutAllThrough DEF InSync
<1> QED BY <1>2, <1>3, SyncCases

\* A client that gave up an item did so after the cut; there is only one.
LEMMA CutDerailed ==
  ASSUME Base, Cut
  PROVE  ~Derailed
BY DEF Cut, Derailed

\* A client that is lost remains so.
LEMMA CutLost ==
  ASSUME Base, Cut, NEW f \in Functions, Lost(f)
  PROVE  Lost(f)'
<1>1. /\ at' = at /\ cut' = TRUE /\ buffer' = buffer /\ data' = data
      /\ accepted' = accepted
      /\ OneAhead' <=> OneAhead
  BY CutKeeps
<1>2. PICK n \in 0..Len(chan["client"]) : chan'["client"] = SubSeq(chan["client"], 1, n)
  BY CutKeeps DEF Side
<1>3. /\ chan["client"] \in Seq(Unit)
      /\ chan["client"] = <<>> => chan'["client"] = <<>>
  BY CutKeeps, CutPending DEF Side
<1>4. \A k \in 1..Len(chan'["server"]) :
        k \in 1..Len(chan["server"]) /\ chan'["server"][k] = chan["server"][k]
  <2>1. PICK m \in 0..Len(chan["server"]) : chan'["server"] = SubSeq(chan["server"], 1, m)
    BY CutKeeps DEF Side
  <2>2. chan["server"] \in Seq(Unit)
    BY CutKeeps DEF Side
  <2> QED BY <2>1, <2>2, CutQueue
<1>5. /\ \A p \in PortionsOf(f) : (data["client"][f][p] = NULL)'
      /\ (at["client"].call > f /\ at["client"].part = 0)'
      /\ (at["client"].pc \notin {"sAck", "copy"})'
      /\ (at["server"].call = f)'
  BY <1>1 DEF Lost, NULL
<1>6. CASE /\ at["server"].part = 0 /\ at["server"].pc \in {"wAck", "done"}
           /\ at["client"].pc \notin {"rData", "rStop"}
           /\ chan["client"] = <<>>
           /\ OneAhead /\ LastIs("client", f, 0)
           /\ \A k \in 1..Len(chan["server"]) : chan["server"][k] = ACK => k = 1
  <2>1. OneAhead' /\ LastIs("client", f, 0)'
    BY <1>1, <1>6 DEF LastIs
  <2>2. \A k \in 1..Len(chan["server"])' : (chan["server"][k] = ACK)' => k = 1
    BY <1>4, <1>6 DEF ACK
  <2> QED BY <1>1, <1>3, <1>5, <1>6, <2>1, <2>2 DEF Lost
<1>7. ASSUME at["server"].part = 1, NEW i \in 0..Written("server"),
             \A k \in 1..Len(chan["server"]) : chan["server"][k] # ACK,
             Along(chan["client"], Frame("server", f, 1), i, Written("server"), Up("server")),
             at["client"].pc = "rData" => i = 1 /\ buffer["client"] = <<>>,
             at["client"].pc = "rStop" => i = 2
      PROVE  Lost(f)'
  <2> DEFINE F == Frame("server", f, 1)
             w == Written("server")
             q == chan["client"]
             whole == Up("server")
  <2>1. /\ F \in Seq(Unit) /\ F' = F /\ w \in Nat /\ q \in Seq(Unit) /\ whole \in BOOLEAN
        /\ i \in Nat /\ n \in 0..Len(q) /\ Along(q, F, i, w, whole)
    BY <1>2, <1>3, <1>7, LostFacts DEF Up
  <2>2. w' = w
    BY CutKeeps DEF Side
  <2>3. Up("server")' = FALSE
    BY <1>1 DEF Up
  <2>4. Along(SubSeq(q, 1, n), F, i, w, FALSE)
    <3> HIDE DEF F, w, q, whole
    <3> QED BY <2>1, AlongCut
  <2>5. Along(chan["client"], Frame("server", f, 1), i, Written("server"), Up("server"))'
    BY <1>2, <2>1, <2>2, <2>3, <2>4
  <2>6. \A k \in 1..Len(chan["server"])' : (chan["server"][k] # ACK)'
    BY <1>4, <1>7 DEF ACK
  <2>7. /\ (at["client"].pc = "rData")' => i = 1 /\ (buffer["client"] = <<>>)'
        /\ (at["client"].pc = "rStop")' => i = 2
        /\ (at["server"].part = 1)' /\ i \in 0..Written("server")'
    BY <1>1, <1>7, <2>2
  <2> QED BY <1>5, <2>5, <2>6, <2>7 DEF Lost
<1> QED BY <1>6, <1>7 DEF Lost

\* A cut keeps the invariant.
LEMMA CutStep ==
  ASSUME IInv, Cut
  PROVE  IInv'
<1>1. Base /\ Base'
  BY CutBase DEF IInv
<1>2. InSync => InSync'
  BY <1>1, CutSync
<1>3. \A f \in Functions : Lost(f) => Lost(f)'
  BY <1>1, CutLost
<1>4. Functions' = Functions
  BY DEF Functions
<1> QED BY <1>1, <1>2, <1>3, <1>4, CutDerailed DEF IInv

(***************************************************************************)
(* Every step keeps the invariant.                                         *)
(***************************************************************************)
\* Where the two sides are in the arrangements of a sender and a receiver.
LEMMA PairPcs ==
  ASSUME Base, NEW x \in Side, NEW r \in Side, r = Peer(x), NEW s \in Side
  PROVE  /\ s = x \/ s = r
         /\ (x = "client" /\ r = "server") \/ (x = "server" /\ r = "client")
         /\ Together(x, r) =>
              /\ at[x].pc \in Writing \cup {"done"}
              /\ at[r].pc \in Reading \cup {"initFunc", "sAck", "copy", "done"}
         /\ Behind(x, r) =>
              /\ at[x].pc \in {"wAck", "done"} /\ at[r].pc \in {"initFunc", "rStart", "done"}
              /\ chan[r] = <<>>
         /\ Ahead(x, r) =>
              /\ at[x].pc \in Writing \cup {"done"} /\ at[r].pc = "copy" /\ chan[x] = <<>>
<1>1. TypeOK /\ Placed
  BY DEF Base
<1>2. Together(x, r) =>
        /\ at[x].pc \in Writing \cup {"done"}
        /\ at[r].pc \in Reading \cup {"initFunc", "sAck", "copy", "done"}
  <2>1. Together(x, r) => PlacedAt(x) /\ PlacedAt(r) /\ Sends(x) /\ Receives(r)
    BY <1>1 DEF Placed, Together, SameItem
  <2> QED BY <2>1 DEF PlacedAt
<1>3. Behind(x, r) =>
        /\ at[x].pc \in {"wAck", "done"} /\ at[r].pc \in {"initFunc", "rStart", "done"}
        /\ chan[r] = <<>>
  <2>1. ASSUME Behind(x, r)
        PROVE  /\ at[x].pc \in {"wAck", "done"} /\ chan[r] = <<>>
               /\ at[r].pc \in {"initFunc", "rStart", "done"}
    <3>1. at[x].pc \in {"wAck", "done"} /\ chan[r] = <<>>
      BY <2>1 DEF Behind
    <3>2. at[r].pc \in {"initFunc", "rStart", "done"}
      BY <2>1, BehindFacts
    <3> QED BY <3>1, <3>2
  <2> QED BY <2>1
<1>4. Ahead(x, r) =>
        /\ at[x].pc \in Writing \cup {"done"} /\ at[r].pc = "copy" /\ chan[x] = <<>>
  <2>1. ASSUME Ahead(x, r)
        PROVE  at[x].pc \in Writing \cup {"done"} /\ at[r].pc = "copy" /\ chan[x] = <<>>
    <3>1. at[r].pc = "copy" /\ chan[x] = <<>>
      BY <2>1 DEF Ahead
    <3>2. Sends(x) \/ at[x].pc = "done"
      BY <2>1, AheadFacts
    <3>3. Sends(x) => at[x].pc \in Writing \cup {"done"}
      BY <1>1 DEF Placed, PlacedAt
    <3> QED BY <3>1, <3>2, <3>3
  <2> QED BY <2>1
<1>5. s = x \/ s = r
  BY DEF Side, Peer
<1>6. (x = "client" /\ r = "server") \/ (x = "server" /\ r = "client")
  BY DEF Side, Peer
<1> QED BY <1>2, <1>3, <1>4, <1>5, <1>6

\* Where they are when one of them has turned to the responses.
LEMMA TurnPcs ==
  ASSUME Base
  PROVE  /\ ClientTurns =>
              /\ at["server"].pc \in {"wAck", "done"}
              /\ at["client"].pc \in Writing \cup {"puf", "fault", "done"}
              /\ chan["client"] = <<>>
         /\ ServerTurns =>
              /\ at["server"].pc \in {"rStart", "done"}
              /\ at["client"].pc \in {"copy", "puf", "fault"}
              /\ chan["client"] = <<>> /\ chan["server"] = <<>>
<1>1. Placed /\ TypeOK /\ PlacedAt("client")
  BY DEF Base, Placed, Side
<1>2. ASSUME ClientTurns
      PROVE  /\ at["server"].pc \in {"wAck", "done"}
             /\ at["client"].pc \in Writing \cup {"puf", "fault", "done"}
             /\ chan["client"] = <<>>
  <2>1. at["server"].pc \in {"wAck", "done"} /\ chan["client"] = <<>>
    BY <1>2 DEF ClientTurns
  <2>2. at["client"].call = N + 1 \/ at["client"].call = N + 2
    BY <1>2 DEF ClientTurns
  <2>3. at["client"].call = N + 2 => Sends("client")
    BY <1>2, ClientTurnsFacts
  <2>4. at["client"].pc \in Writing \cup {"puf", "fault", "done"}
    BY <1>1, <2>2, <2>3 DEF PlacedAt
  <2> QED BY <2>1, <2>4
<1>3. ASSUME ServerTurns
      PROVE  /\ at["server"].pc \in {"rStart", "done"}
             /\ at["client"].pc \in {"copy", "puf", "fault"}
             /\ chan["client"] = <<>> /\ chan["server"] = <<>>
  BY <1>3, ServerTurnsFacts DEF ServerTurns
<1> QED BY <1>2, <1>3

\* The arrangement of the two sides.
LEMMA Arrangement ==
  ASSUME Base, InSync, ~ClientTurns, ~ServerTurns, ~AllThrough
  PROVE  \E x, r \in Side : r = Peer(x) /\ (Together(x, r) \/ Behind(x, r) \/ Ahead(x, r))
<1>1. PICK x \in Side : Together(x, Peer(x)) \/ Behind(x, Peer(x)) \/ Ahead(x, Peer(x))
  BY SyncCases
<1>2. Peer(x) \in Side
  BY DEF Side, Peer
<1> QED BY <1>1, <1>2

\* Three of the arrangements, from the side of the sender.
LEMMA StillInSync ==
  ASSUME NEW x \in Side, NEW r \in Side, r = Peer(x), Held',
         Together(x, r)' \/ Behind(x, r)' \/ Ahead(x, r)'
  PROVE  InSync'
<1>1. (x = "client" /\ r = "server") \/ (x = "server" /\ r = "client")
  BY DEF Side, Peer
<1> QED BY <1>1 DEF InSync

\* Writing a piece of a frame keeps the invariant.
LEMMA SendStep ==
  ASSUME IInv, NEW s \in Side, sendFramedStream(s)
  PROVE  IInv'
<1>1. Base /\ Base' /\ TypeOK /\ Placed
  BY SendBase DEF IInv, Base
<1>2. at[s].pc \in {"wStart", "wData", "wStop"}
  BY DEF sendFramedStream
<1>3. ASSUME InSync PROVE InSync'
  <2>1. Held
    BY <1>3 DEF InSync
  <2>2. CASE ClientTurns
    BY <1>1, <2>1, <2>2, ClientTurnsSends DEF InSync
  <2>3. CASE ServerTurns
    BY <1>1, <1>2, <2>3, TurnPcs DEF Side
  <2>4. CASE AllThrough
    BY <1>1, <2>4, AllThroughRests DEF Step
  <2>5. CASE ~ClientTurns /\ ~ServerTurns /\ ~AllThrough
    <3>1. PICK x, r \in Side :
            r = Peer(x) /\ (Together(x, r) \/ Behind(x, r) \/ Ahead(x, r))
      BY <1>1, <1>3, <2>5, Arrangement
    <3>2. s = x /\ ~Behind(x, r)
      BY <1>1, <1>2, <3>1, PairPcs DEF Reading
    <3>3. Together(x, r) => Held' /\ Together(x, r)'
      BY <1>1, <2>1, <3>1, <3>2, TogetherSends
    <3>4. Ahead(x, r) => Held' /\ Ahead(x, r)'
      BY <1>1, <2>1, <3>1, <3>2, AheadSends
    <3> QED BY <3>1, <3>2, <3>3, <3>4, StillInSync
  <2> QED BY <2>2, <2>3, <2>4, <2>5
<1>4. Derailed => Derailed'
  BY <1>1, DerailedSends
<1>5. ASSUME NEW f \in Functions, Lost(f) PROVE Lost(f)'
  BY <1>1, <1>5, LostClientSends, LostServerSends DEF Side
<1>6. Functions' = Functions
  BY DEF Functions
<1> QED BY <1>1, <1>3, <1>4, <1>5, <1>6 DEF IInv

\* Reading for the acknowledgement keeps it.
LEMMA WaitStep ==
  ASSUME IInv, NEW s \in Side, waitForAck(s)
  PROVE  IInv'
<1>1. Base /\ Base' /\ TypeOK /\ Placed
  BY WaitBase DEF IInv, Base
<1>2. at[s].pc = "wAck" /\ chan[s] # <<>>
  BY DEF waitForAck, Arrived
<1>3. ASSUME InSync PROVE InSync'
  <2>1. Held
    BY <1>3 DEF InSync
  <2>2. CASE ClientTurns
    BY <1>1, <2>1, <2>2, ClientTurnsWaits
  <2>3. CASE ServerTurns
    BY <1>1, <1>2, <2>3, TurnPcs DEF Side
  <2>4. CASE AllThrough
    BY <1>1, <2>4, AllThroughRests DEF Step
  <2>5. CASE ~ClientTurns /\ ~ServerTurns /\ ~AllThrough
    <3>1. PICK x, r \in Side :
            r = Peer(x) /\ (Together(x, r) \/ Behind(x, r) \/ Ahead(x, r))
      BY <1>1, <1>3, <2>5, Arrangement
    <3>2. s = x /\ ~Ahead(x, r)
      BY <1>1, <1>2, <3>1, PairPcs DEF Reading
    <3>3. Together(x, r) => InSync'
      BY <1>1, <2>1, <3>1, <3>2, TogetherWaits
    <3>4. Behind(x, r) => InSync'
      BY <1>1, <2>1, <3>1, <3>2, BehindWaits
    <3> QED BY <3>1, <3>2, <3>3, <3>4
  <2> QED BY <2>2, <2>3, <2>4, <2>5
<1>4. Derailed => Derailed'
  BY <1>1, DerailedWaits
<1>5. ASSUME NEW f \in Functions, Lost(f) PROVE Lost(f)'
  BY <1>1, <1>5, LostClientWaits, LostServerWaits DEF Side
<1>6. Functions' = Functions
  BY DEF Functions
<1> QED BY <1>1, <1>3, <1>4, <1>5, <1>6 DEF IInv

\* Reading a unit of a frame keeps it.
LEMMA RecStep ==
  ASSUME IInv, NEW s \in Side, recStream(s)
  PROVE  IInv'
<1>1. Base /\ Base' /\ TypeOK /\ Placed
  BY RecBase DEF IInv, Base
<1>2. at[s].pc \in Reading /\ chan[s] # <<>>
  BY DEF recStream, Arrived, Reading
<1>3. ASSUME InSync PROVE InSync'
  <2>1. Held
    BY <1>3 DEF InSync
  <2>2. CASE ClientTurns \/ ServerTurns
    BY <1>1, <1>2, <2>2, TurnPcs DEF Side, Reading, Writing
  <2>3. CASE AllThrough
    BY <1>1, <2>3, AllThroughRests DEF Step
  <2>4. CASE ~ClientTurns /\ ~ServerTurns /\ ~AllThrough
    <3>1. PICK x, r \in Side :
            r = Peer(x) /\ (Together(x, r) \/ Behind(x, r) \/ Ahead(x, r))
      BY <1>1, <1>3, <2>4, Arrangement
    <3>2. s = r /\ Together(x, r)
      BY <1>1, <1>2, <3>1, PairPcs DEF Reading, Writing
    <3>3. Held' /\ Together(x, r)'
      BY <1>1, <2>1, <3>1, <3>2, TogetherReads
    <3> QED BY <3>1, <3>3, StillInSync
  <2> QED BY <2>2, <2>3, <2>4
<1>4. ~Derailed
  BY <1>1, DerailedReads
<1>5. ASSUME NEW f \in Functions, Lost(f) PROVE Lost(f)'
  BY <1>1, <1>5, LostClientReads, LostRests DEF Side
<1>6. Functions' = Functions
  BY DEF Functions
<1> QED BY <1>1, <1>3, <1>4, <1>5, <1>6 DEF IInv

\* Writing the acknowledgement keeps it.
LEMMA AckStep ==
  ASSUME IInv, NEW s \in Side, sendAck(s)
  PROVE  IInv'
<1>1. Base /\ Base' /\ TypeOK /\ Placed
  BY AckBase DEF IInv, Base
<1>2. at[s].pc = "sAck" /\ InSync
  BY CopyMeans DEF sendAck
<1>3. Held
  BY <1>2 DEF InSync
<1>4. ~ClientTurns /\ ~ServerTurns
  BY <1>1, <1>2, TurnPcs DEF Side, Writing
<1>5. ~AllThrough
  BY <1>1, AllThroughRests DEF Step
<1>6. PICK x, r \in Side :
        r = Peer(x) /\ (Together(x, r) \/ Behind(x, r) \/ Ahead(x, r))
  BY <1>1, <1>2, <1>4, <1>5, Arrangement
<1>7. s = r /\ Together(x, r)
  BY <1>1, <1>2, <1>6, PairPcs DEF Writing
<1>8. Held' /\ Together(x, r)'
  BY <1>1, <1>3, <1>6, <1>7, TogetherAcks
<1>9. InSync'
  BY <1>6, <1>8, StillInSync
<1> QED BY <1>1, <1>9 DEF IInv

\* Copying the portion and going on keeps it.
LEMMA CopyStep ==
  ASSUME IInv, NEW s \in Side, Copy(s)
  PROVE  IInv'
<1>1. Base /\ Base' /\ TypeOK /\ Placed
  BY CopyBase DEF IInv, Base
<1>2. at[s].pc = "copy" /\ InSync
  BY CopyMeans DEF Copy
<1>3. InSync' \/ \E f \in Functions : Lost(f)'
  <2>1. CASE ServerTurns
    BY <2>1, ServerTurnsCopies DEF InSync
  <2>2. CASE ClientTurns
    BY <1>1, <1>2, <2>2, TurnPcs DEF Side, Writing
  <2>3. CASE AllThrough
    BY <1>1, <2>3, AllThroughRests DEF Step
  <2>4. CASE ~ClientTurns /\ ~ServerTurns /\ ~AllThrough
    <3>1. PICK x, r \in Side :
            r = Peer(x) /\ (Together(x, r) \/ Behind(x, r) \/ Ahead(x, r))
      BY <1>1, <1>2, <2>4, Arrangement
    <3>2. s = r /\ ~Behind(x, r)
      BY <1>1, <1>2, <3>1, PairPcs DEF Writing
    <3>3. CASE Together(x, r)
      BY <3>1, <3>2, <3>3, TogetherCopies
    <3>4. CASE Ahead(x, r)
      BY <1>1, <3>1, <3>2, <3>4, AheadCopies
    <3> QED BY <3>1, <3>2, <3>3, <3>4
  <2> QED BY <2>1, <2>2, <2>3, <2>4
<1>4. Functions' = Functions
  BY DEF Functions
<1> QED BY <1>1, <1>3, <1>4 DEF IInv

\* Giving up on a link that is down keeps it.
LEMMA QuitStep ==
  ASSUME IInv, NEW s \in Side, WriteFails(s) \/ ReadFails(s)
  PROVE  IInv'
<1>1. Base /\ TypeOK /\ Placed
  BY DEF IInv, Base
<1>2. Base'
  <2>1. Fails(s) /\ UNCHANGED <<buffer, heap, chan, cut, history>>
        /\ at[s].pc \in Writing \cup Reading \cup {"sAck"}
    BY DEF WriteFails, ReadFails, Writing, Reading
  <2>2. chan' \in [Side -> Seq(Unit)]
    BY <1>1, <2>1 DEF TypeOK
  <2> QED BY <1>1, <2>1, <2>2, FailsBase
<1>3. ASSUME InSync PROVE InSync' \/ Derailed'
  <2>1. Held
    BY <1>3 DEF InSync
  <2>2. CASE ClientTurns
    BY <1>1, <2>1, <2>2, ClientTurnsQuits DEF InSync
  <2>3. CASE ServerTurns
    BY <1>1, <2>1, <2>3, ServerTurnsQuits DEF InSync
  <2>4. CASE AllThrough
    BY <1>1, <2>4, AllThroughRests DEF Step
  <2>5. CASE ~ClientTurns /\ ~ServerTurns /\ ~AllThrough
    <3>1. PICK x, r \in Side :
            r = Peer(x) /\ (Together(x, r) \/ Behind(x, r) \/ Ahead(x, r))
      BY <1>1, <1>3, <2>5, Arrangement
    <3>2. s = x \/ s = r
      BY <1>1, <3>1, PairPcs
    <3>3. CASE Together(x, r) /\ s = x
      BY <1>1, <2>1, <3>1, <3>3, TogetherSenderQuits, StillInSync
    <3>4. CASE Together(x, r) /\ s = r
      BY <1>1, <2>1, <3>1, <3>4, TogetherReceiverQuits
    <3>5. CASE Behind(x, r)
      BY <1>1, <2>1, <3>1, <3>5, BehindQuits
    <3>6. CASE Ahead(x, r)
      BY <1>1, <2>1, <3>1, <3>6, AheadQuits, StillInSync
    <3> QED BY <3>1, <3>2, <3>3, <3>4, <3>5, <3>6
  <2> QED BY <2>2, <2>3, <2>4, <2>5
<1>4. Derailed => Derailed'
  BY <1>1, DerailedQuits
<1>5. ASSUME NEW f \in Functions, Lost(f) PROVE Lost(f)'
  BY <1>1, <1>5, LostQuits
<1>6. Functions' = Functions
  BY DEF Functions
<1> QED BY <1>1, <1>2, <1>3, <1>4, <1>5, <1>6 DEF IInv

\* Allocating for a function keeps it, with the memory and without.
LEMMA InitFuncStep ==
  ASSUME IInv, initFunc
  PROVE  IInv'
<1>1. Base /\ Base' /\ TypeOK /\ Placed
  BY InitFuncBase DEF IInv, Base
<1>2. at["client"].pc = "initFunc" /\ "client" \in Side
  BY DEF initFunc, Side
<1>3. ASSUME InSync PROVE InSync'
  <2>1. Held
    BY <1>3 DEF InSync
  <2>2. CASE ClientTurns \/ ServerTurns
    BY <1>1, <1>2, <2>2, TurnPcs DEF Writing
  <2>3. CASE AllThrough
    BY <1>1, <1>2, <2>3, AllThroughRests DEF Step
  <2>4. CASE ~ClientTurns /\ ~ServerTurns /\ ~AllThrough
    <3>1. PICK x, r \in Side :
            r = Peer(x) /\ (Together(x, r) \/ Behind(x, r) \/ Ahead(x, r))
      BY <1>1, <1>3, <2>4, Arrangement
    <3>2. x = "server" /\ r = "client" /\ ~Ahead(x, r)
      BY <1>1, <1>2, <3>1, PairPcs DEF Writing
    <3>3. Together(x, r) => Held' /\ Together(x, r)'
      BY <1>1, <2>1, <3>2, TogetherInits
    <3>4. Behind(x, r) => Held' /\ Behind(x, r)'
      BY <1>1, <2>1, <3>2, BehindInits
    <3> QED BY <3>1, <3>2, <3>3, <3>4, StillInSync
  <2> QED BY <2>2, <2>3, <2>4
<1>4. Derailed => Derailed'
  BY <1>1, DerailedInits
<1>5. ASSUME NEW f \in Functions, Lost(f) PROVE Lost(f)'
  BY <1>1, <1>5, LostInits
<1>6. Functions' = Functions
  BY DEF Functions
<1> QED BY <1>1, <1>3, <1>4, <1>5, <1>6 DEF IInv

\* The PUF keeps it, whether its results come or it faults.
LEMMA PufStep ==
  ASSUME IInv, challenge_puf
  PROVE  IInv'
<1>1. Base /\ Base' /\ TypeOK /\ Placed
  BY PufBase DEF IInv, Base
<1>2. at["client"].pc = "puf" /\ "client" \in Side
  BY DEF challenge_puf, Side
<1>3. ASSUME InSync PROVE InSync'
  <2>1. Held
    BY <1>3 DEF InSync
  <2>2. CASE ClientTurns
    BY <1>1, <2>1, <2>2, ClientTurnsPuf DEF InSync
  <2>3. CASE ServerTurns
    BY <1>1, <2>1, <2>3, ServerTurnsPuf
  <2>4. CASE AllThrough
    BY <1>1, <1>2, <2>4, AllThroughRests DEF Step
  <2>5. CASE ~ClientTurns /\ ~ServerTurns /\ ~AllThrough
    <3>1. PICK x, r \in Side :
            r = Peer(x) /\ (Together(x, r) \/ Behind(x, r) \/ Ahead(x, r))
      BY <1>1, <1>3, <2>5, Arrangement
    <3>2. FALSE
      BY <1>1, <1>2, <3>1, PairPcs DEF Writing, Reading
    <3> QED BY <3>2
  <2> QED BY <2>2, <2>3, <2>4, <2>5
<1>4. Derailed => Derailed'
  BY <1>1, DerailedPuf
<1>5. ASSUME NEW f \in Functions, Lost(f) PROVE Lost(f)'
  BY <1>1, <1>5, LostPuf
<1>6. Functions' = Functions
  BY DEF Functions
<1> QED BY <1>1, <1>3, <1>4, <1>5, <1>6 DEF IInv


(***************************************************************************)
(* The invariant holds.                                                    *)
(***************************************************************************)
\* Before the first call: nothing allocated, nothing on its way.
LEMMA InitBase ==
  ASSUME Init
  PROVE  /\ Base
         /\ at["client"] = [call |-> 1, part |-> 0, pc |-> "initFunc"]
         /\ at["server"] = [call |-> 1, part |-> 0, pc |-> "wStart"]
<1>1. /\ N \in Nat \ {0} /\ Functions = 1..N /\ 1 \in 1..N
  BY PatternFacts
<1>2. /\ at["client"] = [call |-> 1, part |-> 0, pc |-> "initFunc"]
      /\ at["server"] = [call |-> 1, part |-> 0, pc |-> "wStart"]
      /\ DOMAIN at = Side /\ at = [s \in Side |-> Entry(s, 1)]
  BY <1>1, EntryFacts DEF Init, Side
<1>3. at \in [Side -> Place]
  <2>1. Entry("client", 1) \in Place /\ Entry("server", 1) \in Place
    BY <1>1, EntryFacts DEF Place
  <2> QED BY <1>2, <2>1 DEF Side
<1>4. /\ \A f \in Functions : \A p \in PortionsOf(f) :
           /\ data["client"][f][p] = NULL /\ data["server"][f][p] = Zeros(f, p)
           /\ Zeros(f, p) \in Seq(Unit) /\ Len(Zeros(f, p)) = Pattern[f][p] /\ Zeros(f, p) # NULL
      /\ \A s \in Side : \A f \in Functions : func[s][f] = Id(f)
      /\ \A s \in Side : buffer[s] = <<>> /\ chan[s] = <<>>
      /\ accepted = <<>> /\ acked = <<>>
  <2>1. ASSUME NEW f \in Functions, NEW p \in PortionsOf(f)
        PROVE  Zeros(f, p) \in Seq(Unit) /\ Len(Zeros(f, p)) = Pattern[f][p] /\ Zeros(f, p) # NULL
    BY UnitFacts, PatternFacts DEF NULL
  <2> QED BY <2>1 DEF Init, Side
<1>5. data \in [Side -> [Functions -> Seq(Seq(Unit))]]
      /\ \A s \in Side : \A f \in Functions : DOMAIN data[s][f] = PortionsOf(f)
  <2>1. ASSUME NEW s \in Side, NEW f \in Functions
        PROVE  data[s][f] \in Seq(Seq(Unit)) /\ DOMAIN data[s][f] = PortionsOf(f)
    <3>1. data[s][f] = [p \in PortionsOf(f) |-> IF s = "client" THEN NULL ELSE Zeros(f, p)]
      BY DEF Init
    <3>2. PortionsOf(f) = 1..Last(f) /\ Last(f) \in Nat
      BY PatternFacts
    <3>3. \A p \in PortionsOf(f) : (IF s = "client" THEN NULL ELSE Zeros(f, p)) \in Seq(Unit)
      BY <1>4 DEF NULL
    <3>4. data[s][f] \in [1..Last(f) -> Seq(Unit)]
      BY <3>1, <3>2, <3>3
    <3> QED BY <3>1, <3>2, <3>4, Tuple
  <2>2. data = [s \in Side |-> [f \in Functions |-> data[s][f]]]
    BY DEF Init
  <2> QED BY <2>1, <2>2
<1>6. \A s \in Side : \A f \in Functions : \A p \in PortionsOf(f) :
        Len(data[s][f][p]) \in {0, Pattern[f][p]}
  BY <1>4 DEF NULL, Side
<1>7. TypeOK
  <2>1. buffer \in [Side -> Seq(Unit)] /\ chan \in [Side -> Seq(Unit)]
    BY DEF Init
  <2>2. func \in [Side -> [Functions -> {Id(f) : f \in Functions}]]
    BY DEF Init
  <2>3. cut \in BOOLEAN /\ ok \in [Side -> BOOLEAN]
    BY DEF Init
  <2> QED BY <1>3, <1>5, <1>6, <2>1, <2>2, <2>3 DEF TypeOK
<1>8. Placed
  <2>1. /\ Receives("client") /\ ~Sends("client") /\ ~Finished("client")
        /\ Sends("server") /\ ~Receives("server") /\ ~Finished("server")
    BY <1>1, <1>2 DEF Sends, Receives, Finished
  <2>2. \A s \in Side : Last(Fn(s)) \in 1..4
    BY <1>3, <2>1, <1>1, FnFacts, PatternFacts DEF Side
  <2>3. at["client"].call # N + 1
    BY <1>1, <1>2
  <2>4. PlacedAt("client")
    BY <1>2, <2>1, <2>2, <2>3 DEF PlacedAt, Side, Reading
  <2>5. PlacedAt("server")
    BY <1>1, <1>2, <2>1, <2>2 DEF PlacedAt, Side, Writing
  <2> QED BY <2>4, <2>5 DEF Placed, Side
<1>9. Filled /\ Turned
  BY <1>2 DEF Filled, FilledAt, Turned, Side
<1>10. Memory /\ Integrity
  BY <1>4 DEF Memory, Integrity, Side
<1>11. Logged /\ AckedIsAccepted
  BY <1>4 DEF Logged, AckedIsAccepted
<1> QED BY <1>2, <1>7, <1>8, <1>9, <1>10, <1>11 DEF Base

\* The invariant holds at the beginning.
LEMMA InitHolds ==
  ASSUME Init
  PROVE  IInv
<1>1. /\ Base /\ TypeOK /\ Placed /\ N \in Nat \ {0} /\ Functions = 1..N
      /\ at["client"] = [call |-> 1, part |-> 0, pc |-> "initFunc"]
      /\ at["server"] = [call |-> 1, part |-> 0, pc |-> "wStart"]
  BY InitBase, PatternFacts DEF Base
<1>2. /\ Sends("server") /\ Receives("client") /\ Fn("server") = 1 /\ Fn("client") = 1
  BY <1>1, BaseFn DEF Sends, Receives
<1>3. /\ \A s \in Side : buffer[s] = <<>> /\ chan[s] = <<>>
      /\ accepted = <<>> /\ acked = <<>>
  BY DEF Init, Side
<1>4. Held
  <2>1. ASSUME NEW f \in Functions, NEW p \in PortionsOf(f)
        PROVE  /\ ~(at["client"].call > f)
               /\ ~(at["client"].part > p) /\ ~(at["client"].part > 0)
    <3>1. p \in 1..4 /\ f \in 1..N
      BY <1>1, PatternFacts DEF PortionsOf, Portions
    <3> QED BY <1>1, <3>1
  <2> QED BY <2>1 DEF Held
<1>5. Piece("server", chan["client"], Read("client"))
  <2>1. Len(Frame("server", Fn("server"), at["server"].part)) \in Nat
    BY <1>1, <1>2, SenderFrame DEF Side, Base, TypeOK
  <2>2. Read("client") = 0 /\ Written("server") = 0
    BY <1>1 DEF Read, Written
  <2> QED BY <1>3, <2>1, <2>2 DEF Piece, Along, Side
<1>6. Together("server", "client")
  <2>1. SameItem("server", "client")
    BY <1>1, <1>2 DEF SameItem
  <2>2. Level /\ Due("client")
    BY <1>1, <1>2, <1>3 DEF Level, Due
  <2> QED BY <1>1, <1>3, <1>5, <2>1, <2>2 DEF Together, Side, Reading
<1> QED BY <1>1, <1>4, <1>6 DEF IInv, InSync

\* A step that changes nothing.
LEMMA StutterStep ==
  ASSUME IInv, UNCHANGED vars
  PROVE  IInv'
<1>1. /\ at' = at /\ buffer' = buffer /\ func' = func /\ data' = data /\ chan' = chan
      /\ cut' = cut /\ ok' = ok /\ accepted' = accepted /\ acked' = acked
  BY DEF vars
<1>2. Base'
  BY <1>1 DEF IInv, Base, TypeOK, Placed, PlacedAt, Sends, Receives, Finished, Fn, Filled,
       FilledAt, Wanted, Incoming, Load, Turned, Memory, Logged, Integrity, AckedIsAccepted
<1>3. ASSUME NEW x \in Side, NEW r \in Side
      PROVE  /\ (Sends(x) <=> Sends(x)') /\ (Receives(x) <=> Receives(x)')
             /\ (Finished(x) <=> Finished(x)') /\ Fn(x) = Fn(x)'
             /\ (SameItem(x, r) <=> SameItem(x, r)') /\ (ItemAfter(x, r) <=> ItemAfter(x, r)')
             /\ (AtLast(x) <=> AtLast(x)')
             /\ Wanted(x) = Wanted(x)' /\ Written(x) = Written(x)' /\ Read(x) = Read(x)'
             /\ Incoming(x) = Incoming(x)' /\ (Due(x) <=> Due(x)')
             /\ (AckPending(x) <=> AckPending(x)')
             /\ (\A f, p : LastIs(x, f, p) <=> LastIs(x, f, p)')
             /\ Frame(x, Fn(x), at[x].part) = Frame(x, Fn(x), at[x].part)'
  <2>1. /\ (Sends(x) <=> Sends(x)') /\ (Receives(x) <=> Receives(x)')
        /\ (Finished(x) <=> Finished(x)') /\ Fn(x) = Fn(x)' /\ Fn(r) = Fn(r)'
        /\ (Receives(r) <=> Receives(r)') /\ Fn(Peer(x)) = Fn(Peer(x))'
    BY <1>1 DEF Sends, Receives, Finished, Fn
  <2>2. /\ (SameItem(x, r) <=> SameItem(x, r)') /\ (ItemAfter(x, r) <=> ItemAfter(x, r)')
        /\ (AtLast(x) <=> AtLast(x)')
    BY <1>1, <2>1 DEF SameItem, ItemAfter, AtLast
  <2>3. Wanted(x) = Wanted(x)'
    BY <1>1, <2>1 DEF Wanted
  <2>4. Written(x) = Written(x)' /\ Read(x) = Read(x)'
    BY <1>1, <2>3 DEF Written, Read
  <2>5. /\ Incoming(x) = Incoming(x)'
        /\ Frame(x, Fn(x), at[x].part) = Frame(x, Fn(x), at[x].part)'
    BY <1>1, <2>1 DEF Incoming, Frame, Load
  <2>6. /\ (Due(x) <=> Due(x)') /\ (AckPending(x) <=> AckPending(x)')
        /\ (\A f, p : LastIs(x, f, p) <=> LastIs(x, f, p)')
    BY <1>1, <2>1 DEF Due, AckPending, LastIs
  <2> QED BY <2>1, <2>2, <2>3, <2>4, <2>5, <2>6
<1>7. (Level <=> Level') /\ (OneAhead <=> OneAhead')
  BY <1>1 DEF Level, OneAhead
<1>8. ASSUME NEW x \in Side, NEW r \in Side
      PROVE  /\ Together(x, r) => Together(x, r)'
             /\ Behind(x, r) => Behind(x, r)'
             /\ Ahead(x, r) => Ahead(x, r)'
  <2>2. Piece(x, chan[r], Read(r)) <=> Piece(x, chan[r], Read(r))'
    BY <1>1, <1>3 DEF Piece, Along
  <2>3. Piece(x, chan[r], 0) <=> Piece(x, chan[r], 0)'
    BY <1>1, <1>3 DEF Piece, Along
  <2>4. Together(x, r) => Together(x, r)'
    BY <1>1, <1>3, <1>7, <2>2 DEF Together
  <2>5. Behind(x, r) => Behind(x, r)'
    BY <1>1, <1>3, <1>7 DEF Behind
  <2>6. Ahead(x, r) => Ahead(x, r)'
    BY <1>1, <1>3, <1>7, <2>3 DEF Ahead
  <2> QED BY <2>4, <2>5, <2>6
<1>9. /\ ClientTurns => ClientTurns'
      /\ ServerTurns => ServerTurns'
      /\ (AllThrough => AllThrough') /\ (Held => Held')
  <2>1. "client" \in Side /\ "server" \in Side
    BY DEF Side
  <2>2. Piece("client", Tail(chan["server"]), 0) <=> Piece("client", Tail(chan["server"]), 0)'
    BY <1>1, <1>3, <2>1 DEF Piece, Along
  <2>3. ClientTurns => ClientTurns'
    BY <1>1, <1>3, <1>7, <2>1, <2>2 DEF ClientTurns
  <2>4. ServerTurns => ServerTurns'
    BY <1>1, <1>3, <1>7, <2>1 DEF ServerTurns
  <2>5. (AllThrough => AllThrough') /\ (Held => Held')
    BY <1>1, <1>3 DEF AllThrough, Held
  <2> QED BY <2>3, <2>4, <2>5
<1>10. InSync => InSync'
  BY <1>8, <1>9 DEF InSync, Side
<1>4. Derailed => Derailed'
  BY <1>1 DEF Derailed, Sends, OneAhead, LastIs, AtLast, Fn
<1>5. ASSUME NEW f \in Functions, Lost(f) PROVE Lost(f)'
  <2>1. "server" \in Side /\ (Up("server") <=> Up("server")')
        /\ Frame("server", f, 1) = Frame("server", f, 1)'
    BY <1>1 DEF Side, Up, Frame, Load
  <2>2. \A i : Along(chan["client"], Frame("server", f, 1), i, Written("server"), Up("server"))
          <=> Along(chan["client"], Frame("server", f, 1), i, Written("server"), Up("server"))'
    BY <1>1, <1>3, <2>1 DEF Along
  <2>3. /\ Written("server") = Written("server")' /\ (OneAhead <=> OneAhead')
        /\ (LastIs("client", f, 0) <=> LastIs("client", f, 0)')
    BY <1>3, <1>7, <2>1 DEF Side
  <2> QED BY <1>1, <1>5, <2>2, <2>3 DEF Lost
<1>6. Functions' = Functions
  BY DEF Functions
<1> QED BY <1>2, <1>10, <1>4, <1>5, <1>6 DEF IInv

\* The invariant is inductive.
LEMMA NextKeeps ==
  ASSUME IInv, [Next]_vars
  PROVE  IInv'
<1>1. CASE Cut
  BY <1>1, CutStep
<1>2. ASSUME NEW s \in Side, Step(s) PROVE IInv'
  <2>1. CASE sendFramedStream(s)
    BY <2>1, SendStep
  <2>2. CASE waitForAck(s)
    BY <2>2, WaitStep
  <2>3. CASE recStream(s)
    BY <2>3, RecStep
  <2>4. CASE sendAck(s)
    BY <2>4, AckStep
  <2>5. CASE Copy(s)
    BY <2>5, CopyStep
  <2>6. CASE WriteFails(s) \/ ReadFails(s)
    BY <2>6, QuitStep
  <2>7. CASE initFunc
    BY <2>7, InitFuncStep
  <2>8. CASE challenge_puf
    BY <2>8, PufStep
  <2> QED BY <1>2, <2>1, <2>2, <2>3, <2>4, <2>5, <2>6, <2>7, <2>8 DEF Step
<1>3. CASE Quiet \/ UNCHANGED vars
  BY <1>3, StutterStep DEF Quiet
<1> QED BY <1>1, <1>2, <1>3 DEF Next

\* The two sides are always in one of the arrangements of IInv: whatever the pattern,
\* whichever allocation of initFunc fails and wherever the connection breaks.
THEOREM Invariant == Spec => []IInv
<1>1. Init => IInv
  BY InitHolds
<1>2. IInv /\ [Next]_vars => IInv'
  BY NextKeeps
<1> QED BY <1>1, <1>2, PTL DEF Spec

(***************************************************************************)
(* What follows for the exchange.                                          *)
(***************************************************************************)
\* Every variable keeps its type: at any point of any run the calls, the buffers and
\* the queues of both sides are what challenge.c can have there.
THEOREM TypeCorrect == Spec => []TypeOK
<1>1. IInv => TypeOK
  BY DEF IInv, Base
<1> QED BY <1>1, Invariant, PTL

\* No buffer of recChallenge or recResponse ever holds parts of something else, although
\* a receiver that skipped a portion reads the frames of one call in another.
THEOREM NothingMixed == Spec => []Integrity
<1>1. IInv => Integrity
  BY DEF IInv, Base
<1> QED BY <1>1, Invariant, PTL

\* What waitForAck took for an acknowledgement is one of that very portion: sendAck of
\* another portion is never read for it.
THEOREM AcksAgree == Spec => []AckedIsAccepted
<1>1. IInv => AckedIsAccepted
  BY DEF IInv, Base
<1> QED BY <1>1, Invariant, PTL

\* A queue with start sequences at one place only.
LEMMA OneStart ==
  ASSUME NEW q \in Seq(Unit), NEW j \in Nat, \A k \in 1..Len(q) : q[k] = S => k = j
  PROVE  Cardinality({k \in 1..Len(q) : q[k] = S}) <= 1
<1>1. IsFiniteSet({j}) /\ Cardinality({j}) = 1
  BY FS_Singleton
<1>2. {k \in 1..Len(q) : q[k] = S} \subseteq {j}
  OBVIOUS
<1>3. Cardinality({k \in 1..Len(q) : q[k] = S}) <= Cardinality({j})
  BY <1>1, <1>2, FS_Subset
<1> QED BY <1>1, <1>3

\* In a piece of a frame that start sequence comes first.
LEMMA PieceStart ==
  ASSUME Base, Held, NEW x \in Side, Sends(x), NEW q \in Seq(Unit), NEW from \in Nat,
         Piece(x, q, from)
  PROVE  \A k \in 1..Len(q) : q[k] = S => k = 1
<1> DEFINE f == Fn(x)
           p == at[x].part
           n == Len(Frame(x, Fn(x), at[x].part))
<1>1. /\ f \in Functions /\ p \in {0} \cup PortionsOf(f) /\ n = Size(f, p) + 2
      /\ Size(f, p) \in Nat /\ Written(x) \in Nat
      /\ (x = "client" /\ p # 0) => data["client"][f][p] # NULL
  BY SenderHolds, SenderFrame
<1>2. Integrity
  BY DEF Base
<1>3. /\ Written(x) <= n /\ from + Len(q) <= Written(x)
      /\ \A k \in 1..Len(q) : q[k] = Frame(x, f, p)[from + k]
  BY DEF Piece, Along
<1>4. ASSUME NEW k \in 1..Len(q), q[k] = S PROVE k = 1
  <2> HIDE DEF n, f, p
  <2>1. k \in Nat /\ k >= 1 /\ k <= Len(q) /\ Len(q) \in Nat
    OBVIOUS
  <2>2. from + k \in 1..Size(f, p) + 2
    BY <1>1, <1>3, <2>1
  <2>3. Frame(x, f, p)[from + k] = S
    BY <1>3, <1>4
  <2>4. from + k = 1
    BY <1>1, <1>2, <2>2, <2>3, FrameNoAck
  <2> QED BY <2>1, <2>4
<1> QED BY <1>4

\* In step, there is something to read on one side at most, and one frame at most.
LEMMA SyncInStep ==
  ASSUME Base, InSync
  PROVE  /\ ~(Arrived("client") /\ Arrived("server"))
         /\ \A s \in Side : Cardinality({k \in 1..Len(chan[s]) : chan[s][k] = S}) <= 1
<1>1. /\ Held /\ TypeOK /\ Placed /\ \A s \in Side : chan[s] \in Seq(Unit)
      /\ "client" \in Side /\ "server" \in Side /\ ACK # S
  BY DEF InSync, Base, TypeOK, Side, ACK, S
<1>2. SUFFICES /\ ~(Arrived("client") /\ Arrived("server"))
               /\ \A s \in Side : \E j \in Nat : \A k \in 1..Len(chan[s]) :
                    chan[s][k] = S => k = j
  BY <1>1, OneStart
<1>3. \A s \in Side : chan[s] = <<>> \/ chan[s] = <<ACK>> =>
        \A k \in 1..Len(chan[s]) : chan[s][k] = S => k = 1
  BY <1>1
<1>4. ASSUME NEW x \in Side, NEW r \in Side, r = Peer(x),
             Together(x, r) \/ Behind(x, r) \/ Ahead(x, r)
      PROVE  /\ ~(Arrived(x) /\ Arrived(r))
             /\ \A s \in {x, r} : \A k \in 1..Len(chan[s]) : chan[s][k] = S => k = 1
  <2>1. CASE Together(x, r)
    <3>1. Sends(x) /\ (chan[x] # <<>> => at[r].pc = "copy")
      BY <2>1 DEF Together, SameItem
    <3>2. CASE at[r].pc \in Reading \cup {"initFunc"}
      <4>1. Piece(x, chan[r], Read(r)) /\ chan[x] = <<>>
        BY <2>1, <3>1, <3>2 DEF Together, Reading
      <4>2. Read(r) \in Nat
        <5>1. Receives(r)
          BY <2>1 DEF Together, SameItem
        <5>2. Wanted(r) \in Nat
          BY <1>1, <5>1, ItemOf, PatternFacts DEF Wanted
        <5>3. Len(buffer[r]) \in Nat
          BY <1>1 DEF TypeOK
        <5> QED BY <5>2, <5>3 DEF Read
      <4>3. \A k \in 1..Len(chan[r]) : chan[r][k] = S => k = 1
        BY <1>1, <3>1, <4>1, <4>2, PieceStart
      <4> QED BY <1>3, <4>1, <4>3 DEF Arrived
    <3>3. CASE at[r].pc \notin Reading \cup {"initFunc"}
      <4>1. chan[r] = <<>> /\ (chan[x] = <<>> \/ chan[x] = <<ACK>>)
        BY <2>1, <3>1, <3>3 DEF Together, AckPending
      <4> QED BY <1>3, <4>1 DEF Arrived
    <3> QED BY <3>2, <3>3
  <2>2. CASE Behind(x, r)
    <3>1. chan[r] = <<>> /\ (chan[x] = <<>> \/ chan[x] = <<ACK>>)
      BY <2>2 DEF Behind, AckPending
    <3> QED BY <1>3, <3>1 DEF Arrived
  <2>3. CASE Ahead(x, r)
    <3>1. chan[x] = <<>> /\ (chan[r] = <<>> \/ (Sends(x) /\ Piece(x, chan[r], 0)))
      BY <2>3 DEF Ahead
    <3>2. \A k \in 1..Len(chan[r]) : chan[r][k] = S => k = 1
      BY <1>1, <1>3, <3>1, PieceStart
    <3> QED BY <1>3, <3>1, <3>2 DEF Arrived
  <2> QED BY <1>4, <2>1, <2>2, <2>3
<1>5. CASE ClientTurns
  <2>1. chan["client"] = <<>>
    BY <1>5 DEF ClientTurns
  <2>2. CASE chan["server"] = <<>>
    BY <1>3, <2>1, <2>2 DEF Arrived, Side
  <2>3. CASE chan["server"] # <<>>
    <3> DEFINE q == chan["server"]
    <3>1. q \in Seq(Unit) /\ q # <<>> /\ Head(q) = ACK
      BY <1>1, <1>5, <2>3 DEF ClientTurns
    <3>2. /\ Tail(q) \in Seq(Unit) /\ Len(Tail(q)) = Len(q) - 1 /\ q[1] = Head(q)
          /\ \A k \in 1..Len(Tail(q)) : Tail(q)[k] = q[k + 1]
      BY <3>1, HeadTailProperties
    <3>3. \A k \in 1..Len(Tail(q)) : Tail(q)[k] = S => k = 1
      <4>1. CASE at["client"].call = N + 1
        <5> DEFINE t == Tail(q)
        <5>1. t = <<>>
          BY <1>5, <2>3, <4>1 DEF ClientTurns
        <5> HIDE DEF t
        <5>2. \A k \in 1..Len(t) : t[k] = S => k = 1
          BY <5>1
        <5> QED BY <5>2 DEF t
      <4>2. CASE at["client"].call # N + 1
        <5>1. Sends("client") /\ Piece("client", Tail(q), 0)
          BY <1>5, <2>3, <4>2, ClientTurnsFacts DEF ClientTurns
        <5> HIDE DEF q
        <5> QED BY <1>1, <3>2, <5>1, PieceStart
      <4> QED BY <4>1, <4>2
    <3>4. ASSUME NEW k \in 1..Len(q), q[k] = S PROVE k = 2
      <4> HIDE DEF q
      <4>1. k # 1 /\ k \in Nat /\ k >= 1 /\ k <= Len(q) /\ Len(q) \in Nat
        BY <1>1, <3>1, <3>2, <3>4
      <4>2. k - 1 \in 1..Len(Tail(q)) /\ (k - 1) + 1 = k
        BY <3>2, <4>1
      <4>3. Tail(q)[k - 1] = S
        BY <3>2, <3>4, <4>2
      <4>4. k - 1 = 1
        BY <3>3, <4>2, <4>3
      <4> QED BY <4>1, <4>4
    <3> QED BY <1>3, <2>1, <3>4 DEF Arrived, Side
  <2> QED BY <2>2, <2>3
<1>6. CASE ServerTurns \/ AllThrough
  <2>1. chan["client"] = <<>> /\ chan["server"] = <<>>
    BY <1>6 DEF ServerTurns, AllThrough, Side
  <2> QED BY <1>3, <2>1 DEF Arrived, Side
<1>7. CASE ~ClientTurns /\ ~ServerTurns /\ ~AllThrough
  <2>1. PICK x, r \in Side : r = Peer(x) /\ (Together(x, r) \/ Behind(x, r) \/ Ahead(x, r))
    BY <1>7, Arrangement
  <2>2. ~(Arrived(x) /\ Arrived(r))
        /\ \A s \in {x, r} : \A k \in 1..Len(chan[s]) : chan[s][k] = S => k = 1
    BY <1>4, <2>1
  <2>3. Side = {x, r}
    BY <2>1 DEF Side, Peer
  <2> QED BY <2>2, <2>3 DEF Side
<1> QED BY <1>5, <1>6, <1>7

\* While every malloc of initFunc succeeds, the two sides stay in step.
LEMMA LostIsUnlucky ==
  ASSUME Base, NEW f \in Functions, Lost(f)
  PROVE  Unlucky(f)
<1>1. 1 \in PortionsOf(f)
  BY LostFacts
<1> QED BY <1>1 DEF Lost, Unlucky

\* While every allocation of initFunc succeeds, never is there something to read on both
\* sides, and at most one frame is on its way.
THEOREM StayInStep == Spec => []InStep
<1>1. ASSUME IInv PROVE InStep
  <2>1. SUFFICES ASSUME \A f \in Functions : ~Unlucky(f)
                 PROVE  /\ ~(Arrived("client") /\ Arrived("server"))
                        /\ \A s \in Side :
                             Cardinality({k \in 1..Len(chan[s]) : chan[s][k] = S}) <= 1
    BY DEF InStep
  <2>2. Base /\ \A f \in Functions : ~Lost(f)
    BY <1>1, <2>1, LostIsUnlucky DEF IInv
  <2>3. CASE InSync
    BY <2>2, <2>3, SyncInStep
  <2>4. CASE Derailed
    <3>1. /\ chan["client"] = <<>> /\ (chan["server"] = <<>> \/ chan["server"] = <<ACK>>)
          /\ ACK # S /\ \A s \in Side : chan[s] \in Seq(Unit)
      BY <2>2, <2>4 DEF Derailed, ACK, S, Base, TypeOK
    <3>2. \A s \in Side : \A k \in 1..Len(chan[s]) : chan[s][k] = S => k = 1
      BY <3>1 DEF Side
    <3> QED BY <3>1, <3>2, OneStart DEF Arrived
  <2> QED BY <1>1, <2>2, <2>3, <2>4 DEF IInv
<1>2. IInv => InStep
  BY <1>1
<1> QED BY <1>2, Invariant, PTL

\* Nobody waits on both sides of a sound connection before an allocation failed.
LEMMA NoMutualWait ==
  ASSUME Base, InSync, ~cut
  PROVE  ~\A s \in Side : Waiting(s)
<1> SUFFICES ASSUME \A s \in Side : Waiting(s) PROVE FALSE
  OBVIOUS
<1>1. /\ Held /\ Placed /\ Filled /\ "client" \in Side /\ "server" \in Side
      /\ chan["client"] = <<>> /\ chan["server"] = <<>>
      /\ \A s \in Side : at[s].pc \in {"wAck", "rStart", "rData", "rStop"}
  BY DEF InSync, Base, Side, Waiting, Arrived
<1>2. ~ClientTurns /\ ~ServerTurns /\ ~AllThrough
  <2>1. ~AllThrough
    BY <1>1 DEF AllThrough, Placed, PlacedAt
  <2> QED BY <1>1, <2>1 DEF ClientTurns, ServerTurns, Placed, PlacedAt
<1>3. PICK x, r \in Side : r = Peer(x) /\ (Together(x, r) \/ Behind(x, r) \/ Ahead(x, r))
  BY <1>2, Arrangement
<1>4. ~Behind(x, r) /\ ~Ahead(x, r)
  <2>1. chan[x] = <<>> /\ <<>> # <<ACK>>
    BY <1>1 DEF Side
  <2>2. at[r].pc # "copy"
    BY <1>1
  <2> QED BY <2>1, <2>2 DEF Behind, Ahead, AckPending
<1>5. /\ SameItem(x, r) /\ Sends(x) /\ Receives(r) /\ at[x].pc = "wAck"
      /\ at[r].pc \in Reading /\ Piece(x, chan[r], Read(r))
  BY <1>1, <1>3, <1>4 DEF Together, SameItem, Placed, PlacedAt, Writing, Reading
<1>6. Wanted(x) = Wanted(r) /\ Wanted(x) \in Nat
  BY <1>3, <1>5, <1>1, SenderHolds, SenderFrame DEF SameItem, Wanted
<1>7. Written(x) = 2 + Wanted(x)
  BY <1>5 DEF Written
<1>8. Read(r) \in Nat /\ Read(r) <= 1 + Wanted(r)
  <2>1. Len(buffer[r]) \in Nat
    BY DEF Base, TypeOK
  <2>2. FilledAt(r)
    BY <1>1 DEF Filled
  <2> QED BY <1>5, <1>6, <2>1, <2>2 DEF Read, FilledAt
<1>9. Read(r) + Len(chan[r]) = Written(x)
  BY <1>5 DEF Piece, Along
<1>10. Len(chan[r]) = 0
  BY <1>1 DEF Side
<1> QED BY <1>6, <1>7, <1>8, <1>9, <1>10

\* waitForAck and recStream have no time limit, and yet they never wait for each other
\* on a sound connection unless initFunc failed to allocate.
THEOREM WaitsNeedLoss == Spec => []MutualWaitNeedsLoss
<1>1. ASSUME IInv, ~cut, \A s \in Side : Waiting(s) PROVE \E f \in Functions : Unlucky(f)
  <2>1. Base
    BY <1>1 DEF IInv
  <2>2. ~InSync
    BY <1>1, <2>1, NoMutualWait
  <2>3. ~Derailed
    BY <1>1 DEF Derailed
  <2> QED BY <1>1, <2>1, <2>2, <2>3, LostIsUnlucky DEF IInv
<1>2. IInv => MutualWaitNeedsLoss
  BY <1>1 DEF MutualWaitNeedsLoss
<1> QED BY <1>2, Invariant, PTL

\* What Handover appends is an item with its contents.
LEMMA AppendFourth ==
  ASSUME NEW a, NEW b, NEW c, NEW d
  PROVE  Append(<<a, b, c>>, d) = <<a, b, c, d>>
<1> DEFINE T == {a, b, c, d}
           q == Append(<<a, b, c>>, d)
           t == <<a, b, c, d>>
<1>1. <<a, b, c>> \in Seq(T) /\ Len(<<a, b, c>>) = 3 /\ d \in T
  OBVIOUS
<1>2. q \in Seq(T) /\ Len(q) = 4 /\ q[4] = d
  BY <1>1, AppendProperties
<1>3. q[1] = a /\ q[2] = b /\ q[3] = c
  BY <1>1
<1>4. t \in Seq(T) /\ Len(t) = 4 /\ t[1] = a /\ t[2] = b /\ t[3] = c /\ t[4] = d
  OBVIOUS
<1> HIDE DEF T, q, t
<1>5. \A k \in 1..4 : q[k] = t[k]
  <2>1. \A k \in 1..4 : k = 1 \/ k = 2 \/ k = 3 \/ k = 4
    OBVIOUS
  <2> QED BY <2>1, <1>2, <1>3, <1>4
<1>6. q = t
  BY <1>2, <1>4, <1>5, SeqEqual
<1> QED BY <1>6 DEF q, t

\* Every item recStream hands over is due, and is what its sender has for it.
LEMMA AcceptOffered ==
  ASSUME IInv, NEW s \in Side, recStream(s), accepted' # accepted
  PROVE  \E item \in ProtoOffers(accepted) : accepted' = Append(accepted, item)
<1>1. /\ at[s].pc = "rStop" /\ Arrived(s) /\ Head(chan[s]) = E /\ Go(s, "sAck")
      /\ accepted' = Append(accepted, <<s, Fn(s), at[s].part, buffer[s]>>)
      /\ UNCHANGED <<buffer, heap>>
  BY DEF recStream
<1>2. Base /\ Base' /\ TypeOK /\ N \in Nat \ {0}
  BY RecBase, PatternFacts DEF IInv, Base
<1>3. Held /\ Together(Peer(s), s)
  BY <1>1, AcceptMeans
<1>4. /\ SameItem(Peer(s), s) /\ Receives(s) /\ Sends(Peer(s)) /\ Due(s)
      /\ Peer(s) \in Side
  BY <1>1, <1>3 DEF Together, SameItem, Reading, Side, Peer
<1> DEFINE f == Fn(s)
           p == at[s].part
<1>5. f \in Functions /\ p \in {0} \cup PortionsOf(f) /\ Fn(Peer(s)) = f
  BY <1>2, <1>3, <1>4, SenderHolds, SenderFrame DEF SameItem
<1>6. buffer[s] = Incoming(s)
  <2>1. /\ at' = [at EXCEPT ![s].pc = "sAck"] /\ at \in [Side -> Place]
        /\ buffer' = buffer /\ data' = data
    BY <1>1, <1>2 DEF Go, TypeOK, heap
  <2>2. at'[s].pc = "sAck" /\ at'[s].call = at[s].call /\ at'[s].part = at[s].part
    BY <2>1 DEF Place
  <2>3. buffer'[s] = Incoming(s)'
    BY <1>2, <2>2 DEF Base, Filled, FilledAt
  <2>4. Incoming(s)' = Incoming(s)
    BY <2>1, <2>2 DEF Incoming, Load, Fn
  <2> QED BY <2>1, <2>3, <2>4
<1>7. buffer[s] \in Contents(<<s, f, p>>)
  <2>1. CASE p = 0
    BY <1>6, <2>1 DEF Incoming, Load, Contents
  <2>2. CASE p # 0 /\ s = "client"
    BY <1>6, <2>2 DEF Incoming, Load, Contents, Peer
  <2>3. CASE p # 0 /\ s = "server"
    <3>1. at["client"].call > N + 1
      BY <1>2, <1>3, <1>4, <2>3, SenderHolds DEF Peer
    <3>2. data["client"][f][p] \in {Challenge(f, p), Response(f, p)}
      BY <1>2, <1>3, <1>5, <2>3, <3>1, HeldResults
    <3>3. buffer[s] = data["client"][f][p]
      BY <1>6, <2>3 DEF Incoming, Load, Peer
    <3>4. Contents(<<s, f, p>>) = {Challenge(f, p)} \cup {Response(f, p)}
      BY <2>3 DEF Contents
    <3> QED BY <3>2, <3>3, <3>4
  <2> QED BY <2>1, <2>2, <2>3 DEF Side
<1> DEFINE turns == IF accepted = <<>> THEN {<<"client", 1, 0>>}
                    ELSE After(accepted[Len(accepted)])
<1>8. <<s, f, p>> \in turns
  BY <1>4 DEF Due
<1>9. Append(<<s, f, p>>, buffer[s]) = <<s, f, p, buffer[s]>>
  BY AppendFourth
<1>10. Append(<<s, f, p>>, buffer[s]) \in ProtoOffers(accepted)
  <2> DEFINE item == <<s, f, p>>
  <2>1. ProtoOffers(accepted) = UNION {{Append(t, c) : c \in Contents(t)} : t \in turns}
    BY DEF ProtoOffers
  <2>2. buffer[s] \in Contents(item) /\ item \in turns
    BY <1>7, <1>8
  <2> HIDE DEF item, turns
  <2>3. Append(item, buffer[s]) \in {Append(item, c) : c \in Contents(item)}
    BY <2>2
  <2>4. Append(item, buffer[s]) \in ProtoOffers(accepted)
    BY <2>1, <2>2, <2>3
  <2> QED BY <2>4 DEF item
<1> QED BY <1>1, <1>9, <1>10

\* Every step hands over the item that is due, or nothing.
LEMMA NextHandsOver ==
  ASSUME IInv, [Next]_vars
  PROVE  [Abstract!Next]_accepted
<1>1. CASE accepted' = accepted
  BY <1>1
<1>2. CASE accepted' # accepted
  <2>1. PICK s \in Side : recStream(s)
    BY <1>2 DEF Next, Step, Cut, Quiet, vars, history, sendFramedStream, waitForAck, sendAck,
         Copy, WriteFails, ReadFails, initFunc, challenge_puf
  <2> QED BY <1>2, <2>1, AcceptOffered DEF Abstract!Next
<1> QED BY <1>1, <1>2

\* challenge.c hands over what Handover promises: the identifiers and portions in the
\* agreed order, none skipped, repeated or changed, even after a failed malloc, a failed
\* PUF call or a broken connection.
THEOREM ImplementsHandover == Spec => HandoverSpec
<1>1. Init => Abstract!Init
  BY DEF Init, Abstract!Init
<1>2. IInv /\ [Next]_vars => [Abstract!Next]_accepted
  BY NextHandsOver
<1> QED BY <1>1, <1>2, Invariant, PTL DEF Spec, HandoverSpec, Abstract!Spec
=============================================================================
