--------------------------- MODULE UartEchoProofs ---------------------------
(***************************************************************************)
(* UartIInv is inductive for lines and queues of any length, the           *)
(* invariants of the echoing programs follow from it, and they implement   *)
(* LineQueue.                                                              *)
(***************************************************************************)
EXTENDS UartEchoInv, FiniteSetTheorems, WellFoundedInduction, TLAPS

(***************************************************************************)
(* Where a line begins.                                                    *)
(***************************************************************************)
\* Induction over the natural numbers, for a set instead of a predicate.
LEMMA Induction ==
  ASSUME NEW S \in SUBSET Nat, 0 \in S, \A n \in S : n + 1 \in S
  PROVE  S = Nat
<1> DEFINE R == OpToRel(<, Nat)
           T == Nat \ S
<1>1. SUFFICES ASSUME T # {} PROVE FALSE
  OBVIOUS
<1>2. IsWellFoundedOn(R, Nat)
  BY NatLessThanWellFounded
<1>3. PICK x \in T : \A y \in T : ~(<<y, x>> \in R)
  <2>1. T \subseteq Nat
    OBVIOUS
  <2> HIDE DEF R, T
  <2> QED BY <1>1, <1>2, <2>1, WFMin
<1>4. x # 0 /\ x \in Nat /\ x \notin S
  OBVIOUS
<1>5. x - 1 \in Nat /\ x - 1 < x /\ x - 1 + 1 = x
  BY <1>4
<1>6. x - 1 \in T
  BY <1>4, <1>5
<1>7. <<x - 1, x>> \in R
  BY <1>4, <1>5 DEF OpToRel
<1> QED BY <1>3, <1>6, <1>7

\* There is a function that follows the recursion for every sequence of characters.
LEMMA RecursionExists ==
  ASSUME NEW T, NEW s \in Seq(T), NEW d
  PROVE  \E f : Recursion(f, s, d)
<1> DEFINE Upto(f, n) == f = [e \in 0..n |->
                                IF e = 0 THEN 1
                                ELSE IF s[e] \in LineEnds /\ e >= f[e - 1] + d THEN e + 1
                                ELSE f[e - 1]]
           S == {n \in Nat : \E f : Upto(f, n)}
<1>1. 0 \in S
  <2>1. Upto([e \in 0..0 |-> 1], 0)
    OBVIOUS
  <2> QED BY <2>1
<1>2. ASSUME NEW n \in S
      PROVE  n + 1 \in S
  <2>1. PICK f : Upto(f, n)
    OBVIOUS
  <2> DEFINE v == IF s[n + 1] \in LineEnds /\ n + 1 >= f[n] + d THEN n + 2 ELSE f[n]
             g == [e \in 0..(n + 1) |-> IF e = n + 1 THEN v ELSE f[e]]
  <2>2. n \in Nat /\ n + 1 \in Nat /\ n + 1 # 0 /\ n + 1 - 1 = n /\ n \in 0..n + 1 /\ n # n + 1
    OBVIOUS
  <2>3. ASSUME NEW e \in 0..(n + 1)
        PROVE  g[e] = IF e = 0 THEN 1
                      ELSE IF s[e] \in LineEnds /\ e >= g[e - 1] + d THEN e + 1
                      ELSE g[e - 1]
    <3>1. CASE e = n + 1
      <4>1. g[e] = v /\ g[e - 1] = f[n] /\ e # 0 /\ e + 1 = n + 2
        BY <3>1, <2>2
      <4> QED BY <3>1, <4>1
    <3>2. CASE e # n + 1
      <4>1. e \in 0..n
        BY <3>2
      <4>2. g[e] = f[e] /\ (e # 0 => g[e - 1] = f[e - 1])
        BY <3>2, <4>1
      <4>3. f[e] = IF e = 0 THEN 1
                   ELSE IF s[e] \in LineEnds /\ e >= f[e - 1] + d THEN e + 1
                   ELSE f[e - 1]
        BY <2>1, <4>1
      <4> HIDE DEF g
      <4> QED BY <4>2, <4>3
    <3> QED BY <3>1, <3>2
  <2>4. Upto(g, n + 1)
    <3>1. g = [e \in 0..(n + 1) |-> g[e]]
      OBVIOUS
    <3> HIDE DEF g
    <3> QED BY <2>3, <3>1
  <2> HIDE DEF Upto, g
  <2> QED BY <2>2, <2>4
<1>3. Len(s) \in S
  <2>1. S \subseteq Nat /\ Len(s) \in Nat
    OBVIOUS
  <2> HIDE DEF S
  <2> QED BY <1>1, <1>2, <2>1, Induction
<1> QED BY <1>3 DEF Recursion

\* It depends on the characters up to its argument only.
LEMMA RecursionPrefix ==
  ASSUME NEW T, NEW s \in Seq(T), NEW t \in Seq(T), NEW d, NEW f, NEW g,
         Recursion(f, s, d), Recursion(g, t, d), Len(s) <= Len(t),
         \A i \in 1..Len(s) : s[i] = t[i]
  PROVE  \A e \in 0..Len(s) : f[e] = g[e]
<1> DEFINE S == {n \in Nat : n <= Len(s) => f[n] = g[n]}
<1>1. 0 \in S
  BY DEF Recursion
<1>2. ASSUME NEW n \in S
      PROVE  n + 1 \in S
  <2>1. CASE n + 1 <= Len(s)
    <3>1. /\ n + 1 \in 0..Len(s) /\ n + 1 \in 0..Len(t) /\ n + 1 # 0 /\ n + 1 - 1 = n
          /\ n <= Len(s) /\ n + 1 \in 1..Len(s)
      BY <2>1
    <3>2. f[n + 1] = IF s[n + 1] \in LineEnds /\ n + 1 >= f[n] + d THEN n + 2 ELSE f[n]
      BY <3>1 DEF Recursion
    <3>3. g[n + 1] = IF t[n + 1] \in LineEnds /\ n + 1 >= g[n] + d THEN n + 2 ELSE g[n]
      BY <3>1 DEF Recursion
    <3> QED BY <3>1, <3>2, <3>3
  <2> QED BY <2>1
<1>3. S = Nat
  <2>1. S \subseteq Nat
    OBVIOUS
  <2> HIDE DEF S
  <2> QED BY <1>1, <1>2, <2>1, Induction
<1> QED BY <1>3

\* A line begins at a character that was typed, or is about to begin, and lines begin
\* one after the other.
LEMMA RecursionRange ==
  ASSUME NEW T, NEW s \in Seq(T), NEW d \in {0, 1}, NEW f, Recursion(f, s, d)
  PROVE  /\ \A e \in 0..Len(s) : f[e] \in 1..(e + 1)
         /\ \A e \in 0..Len(s) : \A c \in 0..e : f[c] <= f[e]
<1>0. ASSUME NEW n \in Nat, n + 1 <= Len(s)
      PROVE  f[n + 1] = IF s[n + 1] \in LineEnds /\ n + 1 >= f[n] + d THEN n + 2 ELSE f[n]
  <2>1. n + 1 \in 0..Len(s) /\ n + 1 # 0 /\ n + 1 - 1 = n
    BY <1>0
  <2> QED BY <2>1 DEF Recursion
<1> DEFINE S == {n \in Nat : n <= Len(s) => f[n] \in 1..(n + 1) /\ \A c \in 0..n : f[c] \in Nat /\ f[c] <= f[n]}
<1>1. 0 \in S
  <2>1. f[0] = 1
    BY DEF Recursion
  <2> QED BY <2>1
<1>2. ASSUME NEW n \in S
      PROVE  n + 1 \in S
  <2>1. CASE n + 1 <= Len(s)
    <3>1. f[n] \in 1..(n + 1) /\ \A c \in 0..n : f[c] \in Nat /\ f[c] <= f[n]
      BY <2>1
    <3>2. f[n + 1] \in 1..(n + 2) /\ f[n] <= f[n + 1]
      BY <1>0, <2>1, <3>1
    <3>3. \A c \in 0..(n + 1) : c \in 0..n \/ c = n + 1
      OBVIOUS
    <3> QED BY <3>1, <3>2, <3>3
  <2> QED BY <2>1
<1>3. S = Nat
  <2>1. S \subseteq Nat
    OBVIOUS
  <2> HIDE DEF S
  <2> QED BY <1>1, <1>2, <2>1, Induction
<1> QED BY <1>3

\* Begun follows its recursion.
LEMMA BegunIs ==
  ASSUME NEW T, typed \in Seq(T)
  PROVE  Recursion(Begun, typed, First)
<1>1. \E f : Recursion(f, typed, First)
  BY RecursionExists
<1>2. Recursion(CHOOSE f : Recursion(f, typed, First), typed, First)
  BY <1>1
<1>3. Begun = CHOOSE f : Recursion(f, typed, First)
  BY DEF Begun, Promise!Begun, Recursion, First
<1> QED BY <1>2, <1>3

\* So it does after a step.
LEMMA BegunIsNext ==
  ASSUME NEW T, typed' \in Seq(T)
  PROVE  Recursion(Begun', typed', First')
<1>1. \E f : Recursion(f, typed', First')
  BY RecursionExists
<1>2. Recursion(CHOOSE f : Recursion(f, typed', First'), typed', First')
  BY <1>1
<1>3. Begun' = CHOOSE f : Recursion(f, typed', First')
  BY DEF Begun, Promise!Begun, Recursion, First
<1> QED BY <1>2, <1>3

\* What is typed later changes nothing about the lines before.
LEMMA BegunKept ==
  ASSUME NEW T, typed \in Seq(T), typed' \in Seq(T), bot' = bot, Len(typed) <= Len(typed'),
         \A i \in 1..Len(typed) : typed'[i] = typed[i]
  PROVE  /\ \A e \in 0..Len(typed) : Begun'[e] = Begun[e]
         /\ \A n \in 0..Len(typed) : StartsOf(Begun', n) = StartsOf(Begun, n)
<1>1. Recursion(Begun, typed, First)
  BY BegunIs
<1>2. Recursion(Begun', typed', First)
  BY BegunIsNext DEF First
<1>3. \A e \in 0..Len(typed) : Begun[e] = Begun'[e]
  BY <1>1, <1>2, RecursionPrefix
<1>4. ASSUME NEW n \in 0..Len(typed)
      PROVE  StartsOf(Begun', n) = StartsOf(Begun, n)
  <2>1. \A e \in 0..n : e \in 0..Len(typed)
    OBVIOUS
  <2>2. StartsOf(Begun, n) = {Begun[e] : e \in 0..n} \ {Begun[n]}
    BY DEF StartsOf
  <2>3. StartsOf(Begun', n) = {Begun'[e] : e \in 0..n} \ {Begun'[n]}
    BY DEF StartsOf
  <2> QED BY <1>3, <2>1, <2>2, <2>3
<1> QED BY <1>3, <1>4

\* The lines that ended after n characters began before the one that has not.
LEMMA StartsBefore ==
  ASSUME NEW T, typed \in Seq(T), NEW n \in 0..Len(typed)
  PROVE  /\ Begun[n] \in 1..(n + 1) /\ Begun[n] \notin StartsOf(Begun, n)
         /\ \A s \in StartsOf(Begun, n) : s \in Nat \ {0} /\ s < Begun[n]
         /\ IsFiniteSet(StartsOf(Begun, n)) /\ Begun[0] = 1
<1>1. Recursion(Begun, typed, First) /\ First \in {0, 1}
  BY BegunIs DEF First
<1>2. /\ \A e \in 0..Len(typed) : Begun[e] \in 1..(e + 1)
      /\ \A e \in 0..Len(typed) : \A c \in 0..e : Begun[c] <= Begun[e]
  BY <1>1, RecursionRange
<1>3. StartsOf(Begun, n) = {Begun[e] : e \in 0..n} \ {Begun[n]}
  BY DEF StartsOf
<1>4. ASSUME NEW s \in StartsOf(Begun, n)
      PROVE  s \in Nat \ {0} /\ s < Begun[n]
  <2>1. PICK e \in 0..n : s = Begun[e] /\ s # Begun[n]
    BY <1>3
  <2>2. Begun[e] \in 1..(e + 1) /\ Begun[n] \in 1..(n + 1) /\ Begun[e] <= Begun[n]
    BY <1>2
  <2> QED BY <2>1, <2>2
<1>5. IsFiniteSet(StartsOf(Begun, n))
  <2>1. IsFiniteSet(1..(n + 1))
    BY FS_Interval
  <2>2. StartsOf(Begun, n) \subseteq 1..(n + 1)
    <3>1. ASSUME NEW e \in 0..n PROVE Begun[e] \in 1..(n + 1)
      BY <1>2
    <3> QED BY <1>3, <3>1
  <2> QED BY <2>1, <2>2, FS_Subset
<1>6. Begun[0] = 1
  BY <1>1 DEF Recursion
<1> QED BY <1>2, <1>3, <1>4, <1>5, <1>6

\* The next character ends the line, or does not.
LEMMA StartsGrow ==
  ASSUME NEW T, typed \in Seq(T), NEW n \in Nat, n + 1 <= Len(typed)
  PROVE  /\ IsEnd(n + 1) /\ n + 1 >= Begun[n] + First =>
              Begun[n + 1] = n + 2 /\ StartsOf(Begun, n + 1) = StartsOf(Begun, n) \cup {Begun[n]}
         /\ ~(IsEnd(n + 1) /\ n + 1 >= Begun[n] + First) =>
              Begun[n + 1] = Begun[n] /\ StartsOf(Begun, n + 1) = StartsOf(Begun, n)
<1>1. Recursion(Begun, typed, First) /\ First \in {0, 1}
  BY BegunIs DEF First
<1>2. Begun[n + 1] = IF typed[n + 1] \in LineEnds /\ n + 1 >= Begun[n] + First
                     THEN n + 2 ELSE Begun[n]
  <2>1. n + 1 \in 0..Len(typed) /\ n + 1 # 0 /\ n + 1 - 1 = n
    OBVIOUS
  <2> QED BY <1>1, <2>1 DEF Recursion
<1>3. /\ StartsOf(Begun, n) = {Begun[e] : e \in 0..n} \ {Begun[n]}
      /\ StartsOf(Begun, n + 1) = {Begun[e] : e \in 0..(n + 1)} \ {Begun[n + 1]}
  BY DEF StartsOf
<1>4. {Begun[e] : e \in 0..(n + 1)} = {Begun[e] : e \in 0..n} \cup {Begun[n + 1]}
  <2>1. \A e : e \in 0..(n + 1) <=> e \in 0..n \/ e = n + 1
    OBVIOUS
  <2> QED BY <2>1, Zenon
<1>5. Begun[n] \in {Begun[e] : e \in 0..n}
  BY n \in 0..n
<1>6. \A e \in 0..n : Begun[e] \in 1..(e + 1)
  BY <1>1, RecursionRange
<1>7. CASE IsEnd(n + 1) /\ n + 1 >= Begun[n] + First
  <2>1. Begun[n + 1] = n + 2
    BY <1>2, <1>7 DEF IsEnd
  <2>2. Begun[n + 1] \notin {Begun[e] : e \in 0..n}
    BY <1>6, <2>1
  <2> QED BY <1>3, <1>4, <1>5, <1>7, <2>1, <2>2
<1>8. CASE ~(IsEnd(n + 1) /\ n + 1 >= Begun[n] + First)
  <2>1. Begun[n + 1] = Begun[n]
    BY <1>2, <1>8 DEF IsEnd
  <2> QED BY <1>3, <1>4, <1>5, <1>8, <2>1
<1> QED BY <1>7, <1>8

(***************************************************************************)
(* Lines.                                                                  *)
(***************************************************************************)
\* A line is counted once more, shown or dropped.
LEMMA CountsGrow ==
  ASSUME NEW lines \in Seq(Seq(Nat)), NEW drop, NEW starts, IsFiniteSet(starts),
         NEW b, b \notin starts, NEW text \in Seq(Nat), text[1] = b,
         Counts(lines, drop, starts)
  PROVE  /\ Counts(Append(lines, text), drop, starts \cup {b})
         /\ Counts(lines, drop \cup {b}, starts \cup {b})
<1>0. Firsts(lines) \cup drop = starts /\ Len(lines) + Cardinality(drop) = Cardinality(starts)
  BY DEF Counts
<1>1. IsFiniteSet(drop) /\ b \notin drop
  <2>1. drop \subseteq starts
    BY <1>0
  <2> QED BY <2>1, FS_Subset
<1>2. /\ Cardinality(starts \cup {b}) = Cardinality(starts) + 1
      /\ Cardinality(drop \cup {b}) = Cardinality(drop) + 1
      /\ Cardinality(starts) \in Nat /\ Cardinality(drop) \in Nat /\ Len(lines) \in Nat
  <2>1. Cardinality(starts \cup {b}) = Cardinality(starts) + 1
    BY FS_AddElement
  <2>2. Cardinality(drop \cup {b}) = Cardinality(drop) + 1
    BY <1>1, FS_AddElement
  <2>3. Cardinality(starts) \in Nat /\ Cardinality(drop) \in Nat
    BY <1>1, FS_CardinalityType
  <2> QED BY <2>1, <2>2, <2>3
<1>3. Counts(Append(lines, text), drop, starts \cup {b})
  <2> DEFINE more == Append(lines, text)
  <2>1. /\ Len(more) = Len(lines) + 1 /\ more[Len(lines) + 1] = text
        /\ \A k \in 1..Len(lines) : more[k] = lines[k]
        /\ \A k : k \in 1..Len(more) <=> k \in 1..Len(lines) \/ k = Len(lines) + 1
    OBVIOUS
  <2> HIDE DEF more
  <2>2. Firsts(more) = Firsts(lines) \cup {b}
    <3>1. ASSUME NEW k \in 1..Len(more)
          PROVE  more[k][1] \in Firsts(lines) \cup {b}
      BY <2>1 DEF Firsts
    <3>2. ASSUME NEW k \in 1..Len(lines)
          PROVE  lines[k][1] \in Firsts(more)
      BY <2>1 DEF Firsts
    <3>3. b \in Firsts(more)
      BY <2>1 DEF Firsts
    <3>4. Firsts(more) \subseteq Firsts(lines) \cup {b}
      BY <3>1 DEF Firsts
    <3>5. Firsts(lines) \subseteq Firsts(more)
      BY <3>2 DEF Firsts
    <3> QED BY <3>3, <3>4, <3>5
  <2>3. Len(more) + Cardinality(drop) = Cardinality(starts \cup {b})
    BY <1>0, <1>2, <2>1
  <2>4. Firsts(more) \cup drop = starts \cup {b}
    BY <1>0, <2>2
  <2> QED BY <2>3, <2>4 DEF Counts, more
<1>4. Counts(lines, drop \cup {b}, starts \cup {b})
  BY <1>0, <1>2 DEF Counts
<1> QED BY <1>3, <1>4

\* A line that goes on stays what was typed, cut to the room of rx_buf.
LEMMA StoreLine ==
  ASSUME NEW h \in Nat, NEW b \in 1..(h + 1), rx_buf \in Seq(Nat),
         Len(rx_buf) = Smaller(h + 1 - b, MSG_SIZE - 1),
         \A i \in 1..Len(rx_buf) : rx_buf[i] = (b + i) - 1
  PROVE  /\ Store(h + 1) \in Seq(Nat) /\ Store(h + 1) # Nothing /\ Store(h + 1)[1] = b
         /\ Len(Store(h + 1)) = Smaller(h + 2 - b, MSG_SIZE - 1)
         /\ \A i \in 1..Len(Store(h + 1)) : Store(h + 1)[i] = (b + i) - 1
<1>0. MSG_SIZE \in Nat /\ MSG_SIZE > 1
  BY SizeAssumption
<1>1. CASE Len(rx_buf) < MSG_SIZE - 1
  <2>1. Len(rx_buf) = h + 1 - b
    BY <1>0, <1>1 DEF Smaller
  <2>2. Store(h + 1) = Append(rx_buf, h + 1)
    BY <1>1 DEF Store
  <2>3. /\ Append(rx_buf, h + 1) \in Seq(Nat) /\ Len(Append(rx_buf, h + 1)) = h + 2 - b
        /\ Append(rx_buf, h + 1)[h + 2 - b] = h + 1
        /\ \A i \in 1..Len(rx_buf) : Append(rx_buf, h + 1)[i] = (b + i) - 1
    BY <2>1
  <2>4. \A i \in 1..(h + 2 - b) : i \in 1..Len(rx_buf) \/ i = h + 2 - b
    BY <2>1
  <2>5. (b + (h + 2 - b)) - 1 = h + 1 /\ (b + 1) - 1 = b /\ 1 \in 1..(h + 2 - b)
    OBVIOUS
  <2>6. h + 2 - b = Smaller(h + 2 - b, MSG_SIZE - 1)
    BY <1>0, <1>1, <2>1 DEF Smaller
  <2>7. \A i \in 1..(h + 2 - b) : Append(rx_buf, h + 1)[i] = (b + i) - 1
    BY <2>3, <2>4, <2>5
  <2>8. Append(rx_buf, h + 1)[1] = b /\ Append(rx_buf, h + 1) # Nothing
    <3>1. Append(rx_buf, h + 1)[1] = (b + 1) - 1 /\ Len(Append(rx_buf, h + 1)) # 0
      BY <2>3, <2>5, <2>7
    <3>2. \A s : Len(s) # 0 => s # Nothing
      BY DEF Nothing
    <3> QED BY <2>5, <3>1, <3>2, Zenon
  <2> QED BY <2>2, <2>3, <2>6, <2>7, <2>8
<1>2. CASE ~(Len(rx_buf) < MSG_SIZE - 1)
  <2>1. Store(h + 1) = rx_buf /\ Len(rx_buf) = MSG_SIZE - 1 /\ h + 1 - b >= MSG_SIZE - 1
    BY <1>0, <1>2 DEF Store, Smaller
  <2>2. Smaller(h + 2 - b, MSG_SIZE - 1) = MSG_SIZE - 1
    BY <1>0, <2>1 DEF Smaller
  <2>3. rx_buf[1] = b /\ rx_buf # Nothing
    <3>1. 1 \in 1..Len(rx_buf) /\ (b + 1) - 1 = b
      BY <1>0, <2>1
    <3>2. rx_buf[1] = (b + 1) - 1
      BY <3>1
    <3> QED BY <3>1, <3>2 DEF Nothing
  <2> QED BY <2>1, <2>2, <2>3
<1> QED BY <1>1, <1>2

\* The lines that wait come after those on the screen.
LEMMA LinesAre ==
  ASSUME Queued
  PROVE  Taken \in Seq(Seq(Nat)) /\ Lines \in Seq(Seq(Nat))
         /\ Len(Lines) = Len(echoed) + Len(Taken)
         /\ \A k \in 1..Len(echoed) : Lines[k] = echoed[k]
<1>1. Taken \in Seq(Seq(Nat))
  <2>1. <<tx_buf>> \o msgq \in Seq(Seq(Nat)) /\ msgq \in Seq(Seq(Nat))
    BY DEF Queued
  <2> QED BY <2>1 DEF Taken
<1> HIDE DEF Taken
<1> QED BY <1>1 DEF Lines, Queued

\* A line that waits, or is shown where none waits, is the last of all lines.
LEMMA LinesGrow ==
  ASSUME NEW shown \in Seq(Seq(Nat)), NEW waiting \in Seq(Seq(Nat)), NEW text \in Seq(Nat)
  PROVE  /\ shown \o Append(waiting, text) = Append(shown \o waiting, text)
         /\ waiting = <<>> => Append(shown, text) \o waiting = Append(shown \o waiting, text)
         /\ waiting # <<>> => Append(shown, Head(waiting)) \o Tail(waiting) = shown \o waiting
<1>1. shown \o Append(waiting, text) = Append(shown \o waiting, text)
  OBVIOUS
<1>2. waiting = <<>> => Append(shown, text) \o waiting = Append(shown \o waiting, text)
  OBVIOUS
<1>3. waiting # <<>> => Append(shown, Head(waiting)) \o Tail(waiting) = shown \o waiting
  OBVIOUS
<1> QED BY <1>1, <1>2, <1>3

(***************************************************************************)
(* The steps.                                                              *)
(***************************************************************************)
\* The handler takes the next character, which ends the line or does not.
LEMMA NextCharacter ==
  ASSUME Typed, Partial, fifo # <<>>, fifo' = Tail(fifo), UNCHANGED <<bot, host, typed>>
  PROVE  /\ Head(fifo) = Seen + 1 /\ Seen' = Seen + 1 /\ Seen \in Nat
         /\ Seen + 1 <= Len(typed) /\ Typed'
         /\ Begun[Seen] \in 1..(Seen + 1)
         /\ \A e \in 0..Len(typed) : Begun'[e] = Begun[e]
         /\ IsEnd(Seen + 1) /\ Seen + 1 >= Begun[Seen] + First =>
              /\ Begun'[Seen'] = Seen + 2
              /\ StartsOf(Begun', Seen') = StartsOf(Begun, Seen) \cup {Begun[Seen]}
              /\ rx_buf' = <<>> => Partial'
         /\ ~(IsEnd(Seen + 1) /\ Seen + 1 >= Begun[Seen] + First) =>
              /\ Begun'[Seen'] = Begun[Seen]
              /\ StartsOf(Begun', Seen') = StartsOf(Begun, Seen)
              /\ rx_buf' = Store(Seen + 1) => Partial'
<1>1. /\ typed \in Seq(Letters \cup LineEnds) /\ Seen \in Nat /\ fifo \in Seq(Nat)
      /\ \A i \in 1..Len(fifo) : fifo[i] = Seen + i
      /\ Len(fifo) \in Nat \ {0} /\ Len(typed) \in Nat /\ Seen = Len(typed) - Len(fifo)
  BY DEF Typed, Seen
<1>2. /\ fifo' \in Seq(Nat) /\ Len(fifo') = Len(fifo) - 1 /\ Head(fifo) = fifo[1]
      /\ \A i \in 1..Len(fifo') : fifo'[i] = fifo[i + 1]
  BY <1>1
<1>3. /\ Head(fifo) = Seen + 1 /\ Seen' = Seen + 1 /\ Seen + 1 <= Len(typed)
      /\ Seen + 1 \in Nat /\ Seen + 1 + 1 = Seen + 2
  <2>1. Head(fifo) = Seen + 1
    BY <1>1, <1>2
  <2>2. Seen' = Len(typed) - Len(fifo')
    BY DEF Seen
  <2> QED BY <1>1, <1>2, <2>1, <2>2
<1>4. Typed'
  <2>1. ASSUME NEW i \in 1..Len(fifo')
        PROVE  fifo'[i] = Seen' + i
    <3>1. i + 1 \in 1..Len(fifo) /\ Seen + (i + 1) = (Seen + 1) + i
      BY <1>1, <1>2
    <3>2. fifo'[i] = fifo[i + 1] /\ fifo[i + 1] = Seen + (i + 1)
      BY <1>1, <1>2, <3>1
    <3> QED BY <1>3, <3>1, <3>2
  <2> QED BY <1>1, <1>2, <1>3, <2>1 DEF Typed
<1>5. /\ \A e \in 0..Len(typed) : Begun'[e] = Begun[e]
      /\ \A n \in 0..Len(typed) : StartsOf(Begun', n) = StartsOf(Begun, n)
  BY <1>1, BegunKept
<1>6. Seen \in 0..Len(typed) /\ Seen + 1 \in 0..Len(typed)
  BY <1>1, <1>3
<1>7. Begun[Seen] \in 1..(Seen + 1)
  BY <1>1, <1>6, StartsBefore
<1>8. ASSUME IsEnd(Seen + 1) /\ Seen + 1 >= Begun[Seen] + First
      PROVE  /\ Begun'[Seen'] = Seen + 2
             /\ StartsOf(Begun', Seen') = StartsOf(Begun, Seen) \cup {Begun[Seen]}
             /\ rx_buf' = <<>> => Partial'
  <2>1. Begun[Seen + 1] = Seen + 2
        /\ StartsOf(Begun, Seen + 1) = StartsOf(Begun, Seen) \cup {Begun[Seen]}
    BY <1>1, <1>3, <1>8, StartsGrow
  <2>2. Begun'[Seen'] = Seen + 2
    BY <1>3, <1>5, <1>6, <2>1
  <2>3. StartsOf(Begun', Seen') = StartsOf(Begun, Seen) \cup {Begun[Seen]}
    BY <1>3, <1>5, <1>6, <2>1
  <2>4. ASSUME rx_buf' = <<>>
        PROVE  Partial'
    <3>1. Smaller(Seen' + 1 - Begun'[Seen'], MSG_SIZE - 1) = 0
      BY <1>1, <1>3, <2>2, SizeAssumption DEF Smaller
    <3> QED BY <2>4, <3>1 DEF Partial
  <2> QED BY <2>2, <2>3, <2>4
<1>9. ASSUME ~(IsEnd(Seen + 1) /\ Seen + 1 >= Begun[Seen] + First)
      PROVE  /\ Begun'[Seen'] = Begun[Seen]
             /\ StartsOf(Begun', Seen') = StartsOf(Begun, Seen)
             /\ rx_buf' = Store(Seen + 1) => Partial'
  <2>1. Begun[Seen + 1] = Begun[Seen]
        /\ StartsOf(Begun, Seen + 1) = StartsOf(Begun, Seen)
    BY <1>1, <1>3, <1>9, StartsGrow
  <2>2. Begun'[Seen'] = Begun[Seen]
    BY <1>3, <1>5, <1>6, <2>1
  <2>3. StartsOf(Begun', Seen') = StartsOf(Begun, Seen)
    BY <1>3, <1>5, <1>6, <2>1
  <2>4. ASSUME rx_buf' = Store(Seen + 1)
        PROVE  Partial'
    <3>1. /\ Store(Seen + 1) \in Seq(Nat)
          /\ Len(Store(Seen + 1)) = Smaller(Seen + 2 - Begun[Seen], MSG_SIZE - 1)
          /\ \A i \in 1..Len(Store(Seen + 1)) : Store(Seen + 1)[i] = (Begun[Seen] + i) - 1
      BY <1>1, <1>7, StoreLine DEF Partial
    <3>2. Seen' + 1 = Seen + 2
      BY <1>1, <1>3
    <3>3. /\ rx_buf' \in Seq(Nat)
          /\ Len(rx_buf') = Smaller(Seen' + 1 - Begun'[Seen'], MSG_SIZE - 1)
          /\ \A i \in 1..Len(rx_buf') : rx_buf'[i] = (Begun'[Seen'] + i) - 1
      <4>1. Seen' + 1 - Begun'[Seen'] = Seen + 2 - Begun[Seen]
        <5>1. PICK h \in Nat : h = Seen
          BY <1>1
        <5>2. PICK b \in 1..(h + 1) : b = Begun[Seen]
          BY <1>7, <5>1
        <5>3. h + 1 + 1 - b = h + 2 - b
          OBVIOUS
        <5> QED BY <1>3, <2>2, <5>1, <5>2, <5>3
      <4>2. rx_buf' \in Seq(Nat) /\ Len(rx_buf') = Len(Store(Seen + 1))
        BY <2>4, <3>1
      <4>3. \A i \in 1..Len(rx_buf') : rx_buf'[i] = (Begun[Seen] + i) - 1
        BY <2>4, <3>1
      <4> QED BY <2>2, <3>1, <4>1, <4>2, <4>3
    <3> QED BY <3>3 DEF Partial
  <2> QED BY <2>2, <2>3, <2>4
<1> QED BY <1>1, <1>3, <1>4, <1>5, <1>7, <1>8, <1>9

\* A line that ends goes to the thread, or into the queue, or nowhere.
LEMMA PutMoves ==
  ASSUME Threads, Queued, bot # "hello_at", NEW message \in Seq(Nat),
         Len(message) \in 1..(MSG_SIZE - 1), Put(message), UNCHANGED <<bot, echoed>>
  PROVE  /\ Threads' /\ (dropped' \subseteq Nat => Queued')
         /\ \/ /\ Taken' = Append(Taken, message) /\ Len(Taken) <= QueueLen
               /\ dropped' = dropped
            \/ /\ Taken' = Taken /\ Len(msgq) = QueueLen
               /\ dropped' = dropped \cup {message[1]}
<1>1. /\ msgq \in Seq(Seq(Nat)) /\ tx_buf \in Seq(Nat) /\ Len(msgq) <= QueueLen
      /\ message # Nothing /\ QueueLen \in Nat \ {0} /\ Len(msgq) \in Nat
  <2>1. \A s : Len(s) \in 1..(MSG_SIZE - 1) => s # Nothing
    BY SizeAssumption DEF Nothing
  <2> QED BY <2>1, SizeAssumption DEF Queued
<1>2. CASE /\ pc = "pending"
           /\ tx_buf' = message /\ pc' = "print" /\ UNCHANGED <<msgq, dropped>>
  <2>1. msgq = <<>> /\ tx_buf = Nothing
    BY <1>2 DEF Threads
  <2>2. Taken = <<>> /\ Taken' = <<message>> \o <<>>
    BY <1>1, <1>2, <2>1 DEF Taken
  <2>3. Taken' = Append(Taken, message)
    BY <2>2
  <2>4. Threads'
    BY <1>1, <1>2, <2>1 DEF Threads
  <2>5. Queued'
    BY <1>2 DEF Queued
  <2>6. Len(Taken) <= QueueLen
    BY <1>1, <2>2
  <2> QED BY <1>2, <2>3, <2>4, <2>5, <2>6
<1>3. CASE /\ pc # "pending" /\ Len(msgq) < QueueLen
           /\ msgq' = Append(msgq, message) /\ UNCHANGED <<pc, tx_buf, dropped>>
  <2>1. Taken' = Append(Taken, message)
    <3>1. CASE tx_buf = Nothing
      BY <1>3, <3>1 DEF Taken
    <3>2. CASE tx_buf # Nothing
      <4>1. <<tx_buf>> \in Seq(Seq(Nat))
        BY <1>1
      <4>2. <<tx_buf>> \o Append(msgq, message) = Append(<<tx_buf>> \o msgq, message)
        BY <1>1, <4>1, LinesGrow
      <4> QED BY <1>3, <3>2, <4>2 DEF Taken
    <3> QED BY <3>1, <3>2
  <2>2. Len(Taken) <= QueueLen
    BY <1>1, <1>3 DEF Taken
  <2>3. Threads'
    BY <1>3 DEF Threads
  <2>4. Queued'
    <3>1. /\ msgq' \in Seq(Seq(Nat)) /\ Len(msgq') = Len(msgq) + 1
          /\ msgq'[Len(msgq) + 1] = message /\ \A k \in 1..Len(msgq) : msgq'[k] = msgq[k]
      BY <1>1, <1>3
    <3>2. ASSUME NEW k \in 1..Len(msgq')
          PROVE  Len(msgq'[k]) \in 1..(MSG_SIZE - 1)
      <4>1. k \in 1..Len(msgq) \/ k = Len(msgq) + 1
        BY <1>1, <3>1
      <4> QED BY <3>1, <4>1 DEF Queued
    <3>3. Len(msgq') <= QueueLen
      BY <1>1, <1>3, <3>1
    <3> QED BY <1>3, <3>1, <3>2, <3>3 DEF Queued
  <2> QED BY <1>3, <2>1, <2>2, <2>3, <2>4
<1>4. CASE /\ pc # "pending" /\ Len(msgq) = QueueLen
           /\ dropped' = dropped \cup {message[1]} /\ UNCHANGED <<pc, tx_buf, msgq>>
  <2>1. Threads'
    BY <1>4 DEF Threads
  <2>2. dropped' \subseteq Nat => Queued'
    BY <1>4 DEF Queued
  <2>3. Taken' = Taken
    BY <1>4 DEF Taken
  <2> QED BY <1>4, <2>1, <2>2, <2>3
<1> QED BY <1>2, <1>3, <1>4 DEF Put

\* The line that ended is counted, shown or dropped.
LEMMA LineCounted ==
  ASSUME Typed, Queued, Counted, NEW b, b \notin StartsOf(Begun, Seen),
         NEW text \in Seq(Nat), text[1] = b,
         StartsOf(Begun', Seen') = StartsOf(Begun, Seen) \cup {b},
         \/ Lines' = Append(Lines, text) /\ dropped' = dropped
         \/ Lines' = Lines /\ dropped' = dropped \cup {b}
  PROVE  Counted'
<1>1. IsFiniteSet(StartsOf(Begun, Seen))
  <2>1. typed \in Seq(Letters \cup LineEnds) /\ Seen \in 0..Len(typed)
    BY DEF Typed, Seen
  <2> QED BY <2>1, StartsBefore
<1>2. Lines \in Seq(Seq(Nat))
  BY LinesAre
<1>3. PICK lines, drop, starts :
        /\ lines \in Seq(Seq(Nat)) /\ lines = Lines
        /\ drop = dropped /\ starts = StartsOf(Begun, Seen)
  BY <1>2
<1>4. /\ lines \in Seq(Seq(Nat)) /\ IsFiniteSet(starts) /\ b \notin starts
      /\ Counts(lines, drop, starts)
  BY <1>1, <1>3 DEF Counted
<1>5. /\ Counts(Append(lines, text), drop, starts \cup {b})
      /\ Counts(lines, drop \cup {b}, starts \cup {b})
  BY <1>4, CountsGrow
<1>6. Counts(Lines', dropped', starts \cup {b})
  BY <1>3, <1>5
<1>7. StartsOf(Begun', Seen') = starts \cup {b}
  BY <1>3
<1> QED BY <1>6, <1>7 DEF Counted

(***************************************************************************)
(* Whole messages.                                                         *)
(***************************************************************************)
\* More messages are more characters.
LEMMA Multiples ==
  ASSUME NEW m \in Nat \ {0}, NEW p \in Int, NEW q \in Int, p < q
  PROVE  m * p + m <= m * q
<1>1. q - p - 1 >= 0
  OBVIOUS
<1>2. m * (q - p - 1) >= 0
  BY <1>1
<1>3. m * (q - p - 1) = m * q - (m * p + m)
  OBVIOUS
<1>4. m * p \in Int /\ m * q \in Int
  OBVIOUS
<1> QED BY <1>2, <1>3, <1>4

\* Quotient and remainder.
LEMMA Quotient ==
  ASSUME NEW m \in Nat \ {0}, NEW q \in Nat, NEW r \in 0..(m - 1)
  PROVE  (m * q + r) \div m = q /\ (m * q + r) % m = r
<1> DEFINE n == m * q + r
           d == n \div m
           e == n % m
<1>1. n \in Nat /\ m * q \in Nat
  <2>1. m * q >= 0 /\ m * q \in Int
    OBVIOUS
  <2> QED BY <2>1
<1>2. d \in Int /\ e \in 0..(m - 1) /\ n = m * d + e
  <2> HIDE DEF n
  <2> QED BY <1>1
<1> HIDE DEF d, e
<1>3. ~(d < q)
  <2>1. d < q => m * d + m <= m * q
    BY <1>2, Multiples
  <2>2. m * d \in Int
    BY <1>2
  <2> QED BY <1>1, <1>2, <2>1, <2>2
<1>4. ~(q < d)
  <2>1. q < d => m * q + m <= m * d
    BY <1>2, Multiples
  <2>2. m * d \in Int
    BY <1>2
  <2> QED BY <1>1, <1>2, <2>1, <2>2
<1>5. d = q
  BY <1>2, <1>3, <1>4
<1>6. e = r
  BY <1>1, <1>2, <1>5
<1> QED BY <1>5, <1>6 DEF d, e

\* The characters of the message after n messages, and which of them is the last.
LEMMA EndOfMessage ==
  ASSUME NEW n \in Nat, NEW c \in (MSG_SIZE * n + 1)..(MSG_SIZE * n + MSG_SIZE)
  PROVE  /\ MSG_SIZE * n \in Nat /\ MSG_SIZE * (n + 1) = MSG_SIZE * n + MSG_SIZE
         /\ c \in Nat /\ (c % MSG_SIZE = 0 <=> c = MSG_SIZE * n + MSG_SIZE)
<1>0. MSG_SIZE \in Nat \ {0} /\ MSG_SIZE > 1
  BY SizeAssumption
<1>1. MSG_SIZE * n \in Nat
  <2>1. MSG_SIZE * n >= 0 /\ MSG_SIZE * n \in Int
    BY <1>0
  <2> QED BY <2>1
<1>2. MSG_SIZE * (n + 1) = MSG_SIZE * n + MSG_SIZE
  BY <1>0
<1>3. CASE c = MSG_SIZE * n + MSG_SIZE
  <2>1. (MSG_SIZE * (n + 1) + 0) % MSG_SIZE = 0
    BY <1>0, Quotient
  <2>2. MSG_SIZE * (n + 1) + 0 = c
    BY <1>0, <1>1, <1>2, <1>3
  <2> QED BY <1>1, <1>2, <1>3, <2>1, <2>2
<1>4. CASE c # MSG_SIZE * n + MSG_SIZE
  <2>1. PICK r \in 1..(MSG_SIZE - 1) : c = MSG_SIZE * n + r
    <3>1. c - MSG_SIZE * n \in 1..(MSG_SIZE - 1) /\ c = MSG_SIZE * n + (c - MSG_SIZE * n)
      BY <1>0, <1>1, <1>4
    <3> QED BY <3>1
  <2>2. c % MSG_SIZE = r
    <3>1. r \in 0..(MSG_SIZE - 1)
      BY <1>0
    <3> QED BY <1>0, <2>1, <3>1, Quotient
  <2> QED BY <1>0, <1>1, <1>2, <1>4, <2>1, <2>2
<1> QED BY <1>3, <1>4

\* What rx_buf holds at the end of a line.
LEMMA Collected ==
  ASSUME Typed, Partial
  PROVE  /\ Seen \in Nat /\ Begun[Seen] \in 1..(Seen + 1)
         /\ rx_buf # <<>> <=> Seen + 1 >= Begun[Seen] + 1
         /\ rx_buf # <<>> => Len(rx_buf) \in 1..(MSG_SIZE - 1) /\ rx_buf[1] = Begun[Seen]
<1>1. typed \in Seq(Letters \cup LineEnds) /\ Seen \in Nat /\ Seen \in 0..Len(typed)
      /\ MSG_SIZE \in Nat /\ MSG_SIZE > 1
  BY SizeAssumption DEF Typed, Seen
<1>2. PICK h \in Nat : h = Seen
  BY <1>1
<1>3. PICK b \in 1..(h + 1) : b = Begun[Seen]
  BY <1>1, <1>2, StartsBefore
<1>4. /\ rx_buf \in Seq(Nat) /\ Len(rx_buf) = Smaller(h + 1 - b, MSG_SIZE - 1)
      /\ \A i \in 1..Len(rx_buf) : rx_buf[i] = (b + i) - 1
  BY <1>2, <1>3 DEF Partial
<1>5. rx_buf # <<>> <=> Len(rx_buf) \in Nat \ {0}
  BY <1>4
<1>6. Len(rx_buf) \in Nat \ {0} <=> h + 1 >= b + 1
  BY <1>1, <1>4 DEF Smaller
<1>7. Len(rx_buf) \in Nat \ {0} => Len(rx_buf) \in 1..(MSG_SIZE - 1) /\ rx_buf[1] = b
  <2>1. Len(rx_buf) <= MSG_SIZE - 1
    BY <1>1, <1>4 DEF Smaller
  <2>2. Len(rx_buf) \in Nat \ {0} => 1 \in 1..Len(rx_buf) /\ (b + 1) - 1 = b
    OBVIOUS
  <2> QED BY <1>1, <1>4, <2>1, <2>2
<1>8. h + 1 >= b + 1 <=> Seen + 1 >= Begun[Seen] + 1
  BY <1>2, <1>3
<1> QED BY <1>2, <1>3, <1>5, <1>6, <1>7, <1>8

\* A line that ends at check_echo.py's line feed is the message, and no message is
\* dropped while all answers come in time.
LEMMA AnswerNext ==
  ASSUME Typed, Partial, Queued, Answered, Asking, host = "check_echo",
         Seen + 1 <= Len(typed), got \in Seq(Seq(Nat))
  PROVE  /\ Len(Lines) \in Nat
         /\ IsEnd(Seen + 1) => rx_buf = Message(Len(Lines) + 1) /\ rx_buf # <<>>
         /\ IsEnd(Seen + 1) => Len(msgq) # QueueLen
         /\ IsEnd(Seen + 1) => Seen + 1 = MSG_SIZE * (Len(Lines) + 1)
         /\ ~IsEnd(Seen + 1) => Seen + 1 < MSG_SIZE * Len(Lines) + MSG_SIZE
<1>0. MSG_SIZE \in Nat \ {0} /\ MSG_SIZE > 1 /\ QueueLen \in Nat /\ QueueLen > 1
  BY SizeAssumption
<1>1. /\ Len(Lines) \in Nat /\ Len(echoed) \in Nat /\ Len(Taken) \in Nat
      /\ Len(Lines) = Len(echoed) + Len(Taken)
  BY LinesAre DEF Queued
<1>2. PICK n \in Nat : n = Len(Lines)
  BY <1>1
<1>3. PICK h \in Nat : h = Seen
  BY DEF Typed
<1>4. MSG_SIZE * n <= h /\ h < MSG_SIZE * n + MSG_SIZE /\ Begun[Seen] = MSG_SIZE * n + 1
  BY <1>2, <1>3 DEF Answered
<1>5. MSG_SIZE * n \in Nat
  BY <1>0
<1>6. h + 1 \in (MSG_SIZE * n + 1)..(MSG_SIZE * n + MSG_SIZE)
  BY <1>0, <1>4, <1>5
<1>7. IsEnd(h + 1) <=> h + 1 = MSG_SIZE * n + MSG_SIZE
  <2>1. typed[h + 1] \in LineEnds <=> (h + 1) % MSG_SIZE = 0
    <3>1. h + 1 \in 1..Len(typed)
      BY <1>3 DEF Typed
    <3> QED BY <3>1 DEF Asking
  <2>2. (h + 1) % MSG_SIZE = 0 <=> h + 1 = MSG_SIZE * n + MSG_SIZE
    BY <1>6, EndOfMessage
  <2> QED BY <2>1, <2>2 DEF IsEnd
<1>8. MSG_SIZE * (n + 1) = MSG_SIZE * n + MSG_SIZE
  BY <1>6, EndOfMessage
<1>9. ASSUME IsEnd(h + 1)
      PROVE  rx_buf = Message(n + 1) /\ rx_buf # <<>> /\ Len(msgq) # QueueLen
  <2>1. PICK b \in Nat : b = MSG_SIZE * n + 1 /\ b = Begun[Seen]
    BY <1>4, <1>5
  <2>2. h + 1 - b = MSG_SIZE - 1
    BY <1>0, <1>5, <1>7, <1>9, <2>1
  <2>3. /\ rx_buf \in Seq(Nat) /\ Len(rx_buf) = MSG_SIZE - 1
        /\ \A i \in 1..Len(rx_buf) : rx_buf[i] = (b + i) - 1
    <3>1. Smaller(h + 1 - b, MSG_SIZE - 1) = MSG_SIZE - 1
      BY <1>0, <2>2 DEF Smaller
    <3> QED BY <1>3, <2>1, <3>1 DEF Partial
  <2>4. \A i \in 1..(MSG_SIZE - 1) : (b + i) - 1 = ((n + 1 - 1) * MSG_SIZE) + i
    <3>1. (n + 1 - 1) * MSG_SIZE = MSG_SIZE * n
      BY <1>0
    <3> QED BY <1>0, <1>5, <2>1, <3>1
  <2>5. rx_buf = [i \in 1..(MSG_SIZE - 1) |-> rx_buf[i]]
    BY <2>3
  <2>6. rx_buf = Message(n + 1)
    BY <2>3, <2>4, <2>5 DEF Message
  <2>7. rx_buf # <<>>
    BY <1>0, <2>3
  <2>8. Len(msgq) # QueueLen
    <3>1. PICK g \in Nat : g = Len(got) /\ g - 1 <= Len(echoed)
                           /\ Len(typed) <= MSG_SIZE * g + MSG_SIZE
      <4>1. Len(typed) \in (MSG_SIZE * Len(got))..(MSG_SIZE * Len(got) + MSG_SIZE)
            /\ Len(got) - Behind <= Len(echoed)
        BY DEF Answered
      <4>2. Len(got) \in Nat /\ Behind \in {0, 1}
        BY DEF Behind
      <4> QED BY <1>1, <4>1, <4>2
    <3>2. MSG_SIZE * n <= MSG_SIZE * g
      BY <1>0, <1>3, <1>5, <1>7, <1>9, <3>1 DEF Typed
    <3>3. n <= g
      <4>1. g < n => MSG_SIZE * g + MSG_SIZE <= MSG_SIZE * n
        BY <1>0, Multiples
      <4>2. MSG_SIZE * g \in Int
        BY <1>0
      <4> QED BY <1>0, <1>5, <3>2, <4>1, <4>2
    <3>4. Len(Taken) <= 1
      BY <1>1, <1>2, <3>1, <3>3
    <3>5. Len(msgq) <= Len(Taken)
      <4>1. Len(<<tx_buf>> \o msgq) = 1 + Len(msgq) /\ Len(msgq) \in Nat
        BY DEF Queued
      <4> QED BY <4>1 DEF Taken
    <3> QED BY <1>0, <3>4, <3>5 DEF Queued
  <2> QED BY <2>6, <2>7, <2>8
<1>10. ~IsEnd(h + 1) => h + 1 < MSG_SIZE * n + MSG_SIZE
  BY <1>0, <1>5, <1>6, <1>7
<1> QED BY <1>1, <1>2, <1>3, <1>7, <1>8, <1>9, <1>10

\* What the handler of the echo bots does to check_echo.py's messages.
LEMMA SerialExpected ==
  ASSUME UartIInv, UNCHANGED <<host, got, greeting, typed, echoed>>, Lines' \in Seq(Seq(Nat)),
         fifo # <<>>, fifo' = Tail(fifo), bot' = bot, bot # "hello_at",
         pc' \in {pc, "print"},
         \/ /\ IsEnd(Seen + 1) /\ rx_buf # <<>>
            /\ \/ Lines' = Append(Lines, rx_buf)
               \/ Lines' = Lines /\ Len(msgq) = QueueLen
         \/ ~(IsEnd(Seen + 1) /\ rx_buf # <<>>) /\ Lines' = Lines
  PROVE  Expected'
<1>1. Typed /\ Partial /\ Queued /\ Expected /\ Lines \in Seq(Seq(Nat))
  BY LinesAre DEF UartIInv
<1>2. /\ Seen' = Seen + 1 /\ Seen \in Nat /\ Seen + 1 <= Len(typed)
      /\ IsEnd(Seen + 1) /\ Seen + 1 >= Begun[Seen] + First => Begun'[Seen'] = Seen + 2
      /\ ~(IsEnd(Seen + 1) /\ Seen + 1 >= Begun[Seen] + First) =>
           Begun'[Seen'] = Begun[Seen]
  BY <1>1, NextCharacter
<1>3. First = 1 /\ (rx_buf # <<>> <=> Seen + 1 >= Begun[Seen] + 1)
  BY <1>1, Collected DEF First
<1>4. ASSUME host = "check_echo", InTime
      PROVE  Answered'
  <2>1. Asking /\ Answered /\ got \in Seq(Seq(Nat))
    BY <1>1, <1>4 DEF Expected
  <2>2. /\ Len(Lines) \in Nat
        /\ IsEnd(Seen + 1) => rx_buf = Message(Len(Lines) + 1) /\ rx_buf # <<>>
        /\ IsEnd(Seen + 1) => Len(msgq) # QueueLen
        /\ IsEnd(Seen + 1) => Seen + 1 = MSG_SIZE * (Len(Lines) + 1)
        /\ ~IsEnd(Seen + 1) => Seen + 1 < MSG_SIZE * Len(Lines) + MSG_SIZE
    BY <1>1, <1>2, <1>4, <2>1, AnswerNext
  <2>3. /\ MSG_SIZE * Len(Lines) <= Seen /\ Begun[Seen] = MSG_SIZE * Len(Lines) + 1
        /\ \A k \in 1..Len(Lines) : Lines[k] = Message(k)
    BY <2>1 DEF Answered
  <2>4. MSG_SIZE * Len(Lines) \in Nat /\ MSG_SIZE \in Nat \ {0} /\ MSG_SIZE > 1
    BY <2>2, SizeAssumption
  <2>5. PICK n \in Nat, h \in Nat : n = Len(Lines) /\ h = Seen
    BY <1>2, <2>2
  <2>6. /\ MSG_SIZE * Len(Lines') <= Seen' /\ Seen' < MSG_SIZE * Len(Lines') + MSG_SIZE
        /\ Begun'[Seen'] = MSG_SIZE * Len(Lines') + 1
        /\ \A k \in 1..Len(Lines') : Lines'[k] = Message(k)
    <3>1. CASE IsEnd(Seen + 1)
      <4>1. Lines' = Append(Lines, Message(Len(Lines) + 1))
        BY <2>2, <3>1
      <4>2. /\ Len(Lines') = n + 1 /\ Lines'[n + 1] = Message(n + 1)
            /\ \A k \in 1..n : Lines'[k] = Lines[k]
        BY <1>1, <2>5, <4>1
      <4>3. \A k \in 1..(n + 1) : k \in 1..n \/ k = n + 1
        OBVIOUS
      <4>4. \A k \in 1..Len(Lines') : Lines'[k] = Message(k)
        BY <2>3, <2>5, <4>2, <4>3
      <4>5. h + 1 = MSG_SIZE * (n + 1) /\ Seen' = h + 1 /\ Begun'[Seen'] = h + 2
        BY <1>2, <1>3, <2>2, <2>5, <3>1
      <4> QED BY <2>4, <4>2, <4>4, <4>5
    <3>2. CASE ~IsEnd(Seen + 1)
      <4>1. Lines' = Lines /\ Begun'[Seen'] = Begun[Seen]
        BY <1>2, <3>2
      <4>2. MSG_SIZE * n \in Nat /\ MSG_SIZE * n <= h /\ h + 1 < MSG_SIZE * n + MSG_SIZE
            /\ Seen' = h + 1
        BY <1>2, <2>2, <2>3, <2>4, <2>5, <3>2
      <4> QED BY <2>3, <2>5, <4>1, <4>2
    <3> QED BY <3>1, <3>2
  <2>7. pc' \in {"start", "greet"} => pc \in {"start", "greet"}
    OBVIOUS
  <2> QED BY <2>1, <2>6, <2>7 DEF Answered, Message, Behind
<1>5. Asking => Asking'
  BY DEF Asking
<1>6. InTime' => InTime
  BY DEF InTime
<1> QED BY <1>1, <1>4, <1>5, <1>6 DEF Expected

\* The handler of the echo bots.
LEMMA SerialStep ==
  ASSUME UartIInv, serial_cb
  PROVE  UartIInv'
<1>1. /\ Typed /\ Threads /\ Partial /\ Queued /\ Expected /\ Counted
      /\ Lines \in Seq(Seq(Nat)) /\ Taken \in Seq(Seq(Nat))
      /\ echoed \in Seq(Seq(Nat)) /\ dropped \subseteq Nat /\ rx_buf \in Seq(Nat)
  BY LinesAre DEF UartIInv, Queued, Partial
<1>2. /\ bot # "hello_at" /\ fifo # <<>> /\ fifo' = Tail(fifo)
      /\ UNCHANGED <<bot, host, typed, echoed, got, greeting>> /\ First = 1
  BY DEF serial_cb, First, script
<1>3. /\ Head(fifo) = Seen + 1 /\ Typed' /\ Begun[Seen] \in 1..(Seen + 1)
      /\ IsEnd(Seen + 1) /\ Seen + 1 >= Begun[Seen] + 1 =>
           /\ StartsOf(Begun', Seen') = StartsOf(Begun, Seen) \cup {Begun[Seen]}
           /\ rx_buf' = <<>> => Partial'
      /\ ~(IsEnd(Seen + 1) /\ Seen + 1 >= Begun[Seen] + 1) =>
           /\ StartsOf(Begun', Seen') = StartsOf(Begun, Seen)
           /\ rx_buf' = Store(Seen + 1) => Partial'
  BY <1>1, <1>2, NextCharacter
<1>4. /\ rx_buf # <<>> <=> Seen + 1 >= Begun[Seen] + 1
      /\ rx_buf # <<>> => Len(rx_buf) \in 1..(MSG_SIZE - 1) /\ rx_buf[1] = Begun[Seen]
  BY <1>1, Collected
<1>5. CASE IsEnd(Seen + 1) /\ rx_buf # <<>>
  <2>1. Put(rx_buf) /\ rx_buf' = <<>>
    BY <1>3, <1>5 DEF serial_cb
  <2>2. /\ Threads' /\ (dropped' \subseteq Nat => Queued')
        /\ \/ /\ Taken' = Append(Taken, rx_buf) /\ Len(Taken) <= QueueLen
              /\ dropped' = dropped
           \/ /\ Taken' = Taken /\ Len(msgq) = QueueLen
              /\ dropped' = dropped \cup {rx_buf[1]}
    BY <1>1, <1>2, <1>4, <1>5, <2>1, PutMoves
  <2>3. dropped' \subseteq Nat
    <3>1. rx_buf[1] \in Nat
      <4>1. \A i \in 1..(Seen + 1) : i \in Nat
        OBVIOUS
      <4> QED BY <1>3, <1>4, <1>5, <4>1
    <3>2. dropped \cup {rx_buf[1]} \subseteq Nat
      BY <1>1, <3>1
    <3> QED BY <1>1, <2>2, <3>2
  <2>4. \/ Lines' = Append(Lines, rx_buf) /\ dropped' = dropped
        \/ Lines' = Lines /\ Len(msgq) = QueueLen /\ dropped' = dropped \cup {Begun[Seen]}
    <3>1. Lines' = echoed \o Taken'
      BY <1>2 DEF Lines
    <3>2. echoed \o Append(Taken, rx_buf) = Append(echoed \o Taken, rx_buf)
      BY <1>1, LinesGrow
    <3> QED BY <1>4, <1>5, <2>2, <3>1, <3>2 DEF Lines
  <2>5. Counted'
    <3>1. Begun[Seen] \notin StartsOf(Begun, Seen)
      BY DEF StartsOf
    <3> QED BY <1>1, <1>3, <1>4, <1>5, <2>4, <3>1, LineCounted
  <2>6. Lines' \in Seq(Seq(Nat))
    <3>1. Append(Lines, rx_buf) \in Seq(Seq(Nat))
      BY <1>1
    <3> QED BY <1>1, <2>4, <3>1
  <2>7. Expected'
    <3>1. pc' \in {pc, "print"}
      BY <2>1 DEF Put
    <3> QED BY <1>2, <1>5, <2>4, <2>6, <3>1, SerialExpected
  <2> QED BY <1>3, <1>4, <1>5, <2>1, <2>2, <2>3, <2>5, <2>7 DEF UartIInv
<1>6. CASE ~(IsEnd(Seen + 1) /\ rx_buf # <<>>)
  <2>1. rx_buf' = Store(Seen + 1) /\ UNCHANGED <<pc, msgq, tx_buf, dropped>>
    BY <1>3, <1>6 DEF serial_cb
  <2>2. Threads' /\ Queued'
    BY <1>1, <1>2, <2>1 DEF Threads, Queued
  <2>3. Lines' = Lines
    BY <1>2, <2>1 DEF Lines, Taken
  <2>4. Counted'
    BY <1>1, <1>3, <1>4, <1>6, <2>1, <2>3 DEF Counted
  <2>5. Expected'
    BY <1>1, <1>2, <1>6, <2>1, <2>3, SerialExpected
  <2> QED BY <1>3, <1>4, <1>6, <2>1, <2>2, <2>4, <2>5 DEF UartIInv
<1> QED BY <1>5, <1>6

\* The handler of hello_at, which shows the line itself.
LEMMA AtStep ==
  ASSUME UartIInv, uart_cb
  PROVE  UartIInv'
<1>1. /\ Typed /\ Threads /\ Partial /\ Queued /\ Expected /\ Counted
      /\ echoed \in Seq(Seq(Nat)) /\ Lines \in Seq(Seq(Nat)) /\ Taken \in Seq(Seq(Nat))
  BY LinesAre DEF UartIInv, Queued
<1>2. /\ bot = "hello_at" /\ fifo # <<>> /\ fifo' = Tail(fifo) /\ First = 0
      /\ UNCHANGED <<bot, host, pc, typed, msgq, tx_buf, dropped, got, greeting>>
  BY DEF uart_cb, First, script
<1>3. /\ Head(fifo) = Seen + 1 /\ Typed' /\ Seen \in Nat /\ Begun[Seen] \in 1..(Seen + 1)
      /\ IsEnd(Seen + 1) /\ Seen + 1 >= Begun[Seen] + First =>
           /\ StartsOf(Begun', Seen') = StartsOf(Begun, Seen) \cup {Begun[Seen]}
           /\ rx_buf' = <<>> => Partial'
      /\ ~(IsEnd(Seen + 1) /\ Seen + 1 >= Begun[Seen] + First) =>
           /\ StartsOf(Begun', Seen') = StartsOf(Begun, Seen)
           /\ rx_buf' = Store(Seen + 1) => Partial'
  BY <1>1, <1>2, NextCharacter
<1>4. Seen + 1 >= Begun[Seen] + First
  BY <1>2, <1>3
<1>5. Store(Seen + 1) \in Seq(Nat) /\ Store(Seen + 1)[1] = Begun[Seen]
  BY <1>1, <1>3, StoreLine DEF Partial
<1>6. Taken = <<>> /\ Taken' = <<>>
  BY <1>1, <1>2 DEF Threads, Taken, Nothing
<1>7. Threads' /\ Expected'
  <2>1. host = "keyboard" /\ host' = "keyboard"
    BY <1>1, <1>2 DEF Typed
  <2> QED BY <1>1, <1>2, <2>1 DEF Threads, Expected
<1>8. CASE IsEnd(Seen + 1)
  <2>1. echoed' = Append(echoed, Store(Seen + 1)) /\ rx_buf' = <<>>
    BY <1>3, <1>8 DEF uart_cb
  <2>2. Lines' = Append(Lines, Store(Seen + 1))
    <3>1. Append(echoed, Store(Seen + 1)) \o <<>> = Append(echoed \o <<>>, Store(Seen + 1))
      BY <1>1, <1>5
    <3> QED BY <1>6, <2>1, <3>1 DEF Lines
  <2>3. Queued'
    <3>1. Append(echoed, Store(Seen + 1)) \in Seq(Seq(Nat))
      BY <1>1, <1>5
    <3> QED BY <1>1, <1>2, <2>1, <3>1 DEF Queued
  <2>4. Counted'
    <3>1. Begun[Seen] \notin StartsOf(Begun, Seen)
      BY DEF StartsOf
    <3> QED BY <1>1, <1>2, <1>3, <1>4, <1>5, <1>8, <2>2, <3>1, LineCounted
  <2> QED BY <1>3, <1>4, <1>7, <1>8, <2>1, <2>3, <2>4 DEF UartIInv
<1>9. CASE ~IsEnd(Seen + 1)
  <2>1. rx_buf' = Store(Seen + 1) /\ echoed' = echoed
    BY <1>3, <1>9 DEF uart_cb
  <2>2. Lines' = Lines
    BY <1>6, <2>1 DEF Lines
  <2>3. Queued'
    BY <1>1, <1>2, <2>1 DEF Queued
  <2>4. Counted'
    BY <1>1, <1>2, <1>3, <1>9, <2>2 DEF Counted
  <2> QED BY <1>3, <1>7, <1>9, <2>1, <2>3, <2>4 DEF UartIInv
<1> QED BY <1>8, <1>9

\* A step that takes no character and leaves the lines in their order.
LEMMA LinesKept ==
  ASSUME UartIInv, UNCHANGED <<bot, host, typed, fifo, rx_buf, dropped, got>>,
         Lines' = Lines, echoed' \in Seq(Seq(Nat)), Len(echoed) <= Len(echoed'),
         \/ /\ greeting' = greeting
            /\ pc' \in {"start", "greet"} =>
                 pc \in {"start", "greet"} /\ echoed' = echoed
         \/ /\ pc = "greet" /\ pc' \notin {"start", "greet"}
            /\ greeting' \in BOOLEAN /\ (host = "keyboard" => ~greeting')
  PROVE  Typed' /\ Partial' /\ Counted' /\ Expected'
<1>1. Typed /\ Partial /\ Counted /\ Expected /\ typed \in Seq(Letters \cup LineEnds)
  BY DEF UartIInv, Typed
<1>2. Seen' = Seen /\ Seen \in 0..Len(typed)
  BY <1>1 DEF Seen, Typed
<1>3. /\ \A e \in 0..Len(typed) : Begun'[e] = Begun[e]
      /\ \A n \in 0..Len(typed) : StartsOf(Begun', n) = StartsOf(Begun, n)
  BY <1>1, BegunKept
<1>4. Begun'[Seen'] = Begun[Seen] /\ StartsOf(Begun', Seen') = StartsOf(Begun, Seen)
  BY <1>2, <1>3
<1>5. Typed'
  BY <1>1, <1>2 DEF Typed
<1>6. Partial'
  BY <1>1, <1>2, <1>4 DEF Partial
<1>7. Counted'
  BY <1>1, <1>4 DEF Counted
<1>8. Answered => Answered'
  <2>1. Len(got) - Behind <= Len(echoed) => Len(got') - Behind' <= Len(echoed')
    <3>1. Len(got) \in Int /\ Len(echoed) \in Int /\ Len(echoed') \in Int
      <4>1. got \in Seq(Seq(Nat)) /\ echoed \in Seq(Seq(Nat))
        BY DEF UartIInv, Expected, Queued
      <4> QED BY <4>1
    <3>2. Behind \in Int /\ Behind' = Behind
      BY DEF Behind
    <3>3. \A n, m, k \in Int : n <= m /\ m <= k => n <= k
      OBVIOUS
    <3>4. Len(got) - Behind \in Int
      BY <3>1, <3>2
    <3> QED BY <3>1, <3>2, <3>3, <3>4
  <2>2. ASSUME Answered
        PROVE  /\ pc' \in {"start", "greet"} => ~greeting' /\ echoed' = <<>>
               /\ pc' \in {"start", "greet"} \/ greeting' => got' = <<>>
    BY <2>2 DEF Answered
  <2> QED BY <1>2, <1>4, <2>1, <2>2 DEF Answered, Message, Behind
<1>9. Expected'
  <2>1. greeting' \in BOOLEAN
    BY <1>1 DEF Expected
  <2>2. host = "keyboard" => got' = <<>> /\ ~greeting'
    BY <1>1 DEF Expected
  <2> QED BY <1>1, <1>8, <2>1, <2>2 DEF Expected, Asking, InTime
<1> QED BY <1>5, <1>6, <1>7, <1>9

\* The thread enables input, or is over at once.
LEMMA StartStep ==
  ASSUME UartIInv, start
  PROVE  UartIInv'
<1>1. /\ Threads /\ Queued /\ pc = "start" /\ echoed \in Seq(Seq(Nat))
      /\ pc' \in {"over", "greet"}
      /\ UNCHANGED <<bot, host, typed, fifo, rx_buf, msgq, tx_buf, echoed, dropped, got, greeting>>
  BY DEF UartIInv, start, line, script, Queued
<1>2. Lines' = Lines /\ Len(echoed) <= Len(echoed')
  BY <1>1 DEF Lines, Taken
<1>3. Threads' /\ Queued'
  BY <1>1 DEF Threads, Queued
<1> QED BY <1>1, <1>2, <1>3, LinesKept DEF UartIInv

\* The greeting is printed, and the script may get it.
LEMMA GreetStep ==
  ASSUME UartIInv, greet
  PROVE  UartIInv'
<1>1. /\ Threads /\ Queued /\ pc = "greet" /\ echoed \in Seq(Seq(Nat))
      /\ pc' = IF bot = "hello_at" THEN "sleep" ELSE "get"
      /\ greeting' \in BOOLEAN /\ (host = "keyboard" => ~greeting')
      /\ UNCHANGED <<bot, host, typed, fifo, rx_buf, msgq, tx_buf, echoed, dropped, got>>
  <2>1. ASSUME host = "keyboard"
        PROVE  greeting' = FALSE
    BY <2>1 DEF greet
  <2> QED BY <2>1 DEF UartIInv, greet, line, Queued
<1>2. Lines' = Lines /\ Len(echoed) <= Len(echoed')
  BY <1>1 DEF Lines, Taken
<1>3. Threads' /\ Queued'
  BY <1>1 DEF Threads, Queued
<1>4. pc' \notin {"start", "greet"}
  BY <1>1
<1> QED BY <1>1, <1>2, <1>3, <1>4, LinesKept DEF UartIInv

\* The thread takes the oldest line that waits.
LEMMA ReceiveStep ==
  ASSUME UartIInv, Receive, pc = "get", msgq # <<>>,
         UNCHANGED <<bot, host, typed, fifo, rx_buf, echoed, dropped, got, greeting>>
  PROVE  UartIInv'
<1>1. /\ Threads /\ Queued /\ msgq \in Seq(Seq(Nat)) /\ echoed \in Seq(Seq(Nat))
      /\ tx_buf = Nothing /\ bot # "hello_at"
      /\ tx_buf' = Head(msgq) /\ msgq' = Tail(msgq) /\ pc' = "print"
  BY DEF UartIInv, Receive, Threads, Queued
<1>2. /\ Head(msgq) \in Seq(Nat) /\ Tail(msgq) \in Seq(Seq(Nat))
      /\ Head(msgq) = msgq[1] /\ 1 \in 1..Len(msgq)
      /\ Len(Tail(msgq)) = Len(msgq) - 1 /\ Len(msgq) \in Nat
      /\ \A k \in 1..Len(Tail(msgq)) : k + 1 \in 1..Len(msgq) /\ Tail(msgq)[k] = msgq[k + 1]
  BY <1>1
<1>3. Head(msgq) # Nothing
  <2>1. \A s : Len(s) \in 1..(MSG_SIZE - 1) => s # Nothing
    BY SizeAssumption DEF Nothing
  <2> QED BY <1>1, <1>2, <2>1 DEF Queued
<1>4. Taken' = Taken
  <2>1. <<Head(msgq)>> \o Tail(msgq) = msgq
    BY <1>1
  <2> QED BY <1>1, <1>3, <2>1 DEF Taken
<1>5. Threads'
  BY <1>1, <1>3 DEF Threads
<1>6. Queued'
  <2>1. Len(Tail(msgq)) <= QueueLen
    BY <1>1, <1>2, SizeAssumption DEF Queued
  <2>2. \A k \in 1..Len(Tail(msgq)) : Len(Tail(msgq)[k]) \in 1..(MSG_SIZE - 1)
    BY <1>1, <1>2 DEF Queued
  <2> QED BY <1>1, <1>2, <2>1, <2>2 DEF Queued
<1>7. Lines' = Lines /\ Len(echoed) <= Len(echoed')
  BY <1>1, <1>4 DEF Lines
<1> QED BY <1>1, <1>5, <1>6, <1>7, LinesKept DEF UartIInv

\* echo_bot sleeps until there is a line.
LEMMA GetStep ==
  ASSUME UartIInv, get
  PROVE  UartIInv'
<1>1. /\ Threads /\ Queued /\ bot = "echo_bot" /\ pc = "get" /\ echoed \in Seq(Seq(Nat))
      /\ UNCHANGED <<bot, host, typed, fifo, rx_buf, echoed, dropped, got, greeting>>
  BY DEF UartIInv, get, Queued, script
<1>2. CASE msgq # <<>>
  BY <1>1, <1>2, ReceiveStep DEF get
<1>3. CASE msgq = <<>>
  <2>1. pc' = "pending" /\ UNCHANGED <<msgq, tx_buf>>
    BY <1>3 DEF get
  <2>2. Lines' = Lines /\ Len(echoed) <= Len(echoed')
    BY <1>1, <2>1 DEF Lines, Taken
  <2>3. Threads' /\ Queued'
    BY <1>1, <1>3, <2>1 DEF Threads, Queued
  <2> QED BY <1>1, <2>1, <2>2, <2>3, LinesKept DEF UartIInv
<1> QED BY <1>2, <1>3

\* echo_bot_two_uarts looks again.
LEMMA PollStep ==
  ASSUME UartIInv, poll
  PROVE  UartIInv'
<1>1. /\ Threads /\ Queued /\ bot = "echo_bot_two_uarts" /\ pc = "get"
      /\ echoed \in Seq(Seq(Nat))
      /\ UNCHANGED <<bot, host, typed, fifo, rx_buf, echoed, dropped, got, greeting>>
  BY DEF UartIInv, poll, Queued, script
<1>2. CASE msgq # <<>>
  BY <1>1, <1>2, ReceiveStep DEF poll
<1>3. CASE msgq = <<>>
  <2>1. UNCHANGED <<pc, msgq, tx_buf>>
    BY <1>3 DEF poll
  <2>2. Lines' = Lines /\ Len(echoed) <= Len(echoed')
    BY <1>1, <2>1 DEF Lines, Taken
  <2>3. Threads' /\ Queued'
    BY <1>1, <2>1 DEF Threads, Queued
  <2> QED BY <1>1, <2>1, <2>2, <2>3, LinesKept DEF UartIInv
<1> QED BY <1>2, <1>3

\* What the thread has taken comes on the screen.
LEMMA PrintStep ==
  ASSUME UartIInv, print_uart
  PROVE  UartIInv'
<1>1. /\ Threads /\ Queued /\ pc = "print" /\ tx_buf # Nothing /\ tx_buf \in Seq(Nat)
      /\ msgq \in Seq(Seq(Nat)) /\ echoed \in Seq(Seq(Nat)) /\ bot # "hello_at"
      /\ echoed' = Append(echoed, tx_buf) /\ tx_buf' = Nothing /\ pc' = "get"
      /\ UNCHANGED <<bot, host, typed, fifo, rx_buf, msgq, dropped, got, greeting>>
  BY DEF UartIInv, print_uart, Threads, Queued, script
<1>2. /\ Append(echoed, tx_buf) \in Seq(Seq(Nat))
      /\ Len(Append(echoed, tx_buf)) = Len(echoed) + 1 /\ Len(echoed) \in Nat
  BY <1>1
<1>3. Lines' = Lines
  <2>1. echoed \o (<<tx_buf>> \o msgq) = Append(echoed, tx_buf) \o msgq
    BY <1>1
  <2> QED BY <1>1, <2>1 DEF Lines, Taken
<1>4. Threads' /\ Queued'
  BY <1>1, <1>2 DEF Threads, Queued, Nothing
<1>5. Len(echoed) <= Len(echoed')
  BY <1>1, <1>2
<1> QED BY <1>1, <1>2, <1>3, <1>4, <1>5, LinesKept DEF UartIInv

\* A character more in the UART is not seen yet.
LEMMA TypeStep ==
  ASSUME UartIInv, NEW c \in Letters \cup LineEnds, Type(c)
  PROVE  /\ Typed' /\ Threads' /\ Partial' /\ Queued' /\ Counted'
         /\ Len(typed') = Len(typed) + 1 /\ typed'[Len(typed) + 1] = c
         /\ \A k \in 1..Len(typed) : typed'[k] = typed[k]
         /\ Seen' = Seen /\ Begun'[Seen'] = Begun[Seen] /\ Lines' = Lines
         /\ UNCHANGED <<bot, host, rx_buf, msgq, tx_buf, echoed, dropped, got, greeting>>
<1>1. /\ Typed /\ Threads /\ Partial /\ Queued /\ Counted
      /\ typed \in Seq(Letters \cup LineEnds) /\ fifo \in Seq(Nat)
      /\ Len(typed) < MaxTyped /\ typed' = Append(typed, c)
      /\ fifo' = Append(fifo, Len(typed) + 1)
      /\ UNCHANGED <<bot, host, pc, rx_buf, msgq, tx_buf, echoed, dropped, got, greeting>>
      /\ Len(typed) \in Nat /\ Len(fifo) \in Nat
  BY DEF UartIInv, Type, line, script, Typed
<1>2. /\ typed' \in Seq(Letters \cup LineEnds) /\ Len(typed') = Len(typed) + 1
      /\ typed'[Len(typed) + 1] = c /\ \A k \in 1..Len(typed) : typed'[k] = typed[k]
  BY <1>1
<1>3. /\ fifo' \in Seq(Nat) /\ Len(fifo') = Len(fifo) + 1
      /\ fifo'[Len(fifo) + 1] = Len(typed) + 1 /\ \A i \in 1..Len(fifo) : fifo'[i] = fifo[i]
  BY <1>1
<1>4. Seen' = Seen /\ Seen \in Nat /\ Seen + Len(fifo) = Len(typed) /\ Seen \in 0..Len(typed)
  BY <1>1, <1>2, <1>3 DEF Seen, Typed
<1>5. Typed'
  <2>1. ASSUME NEW i \in 1..Len(fifo')
        PROVE  fifo'[i] = Seen' + i
    <3>1. i \in 1..Len(fifo) \/ i = Len(fifo) + 1
      BY <1>1, <1>3
    <3>2. CASE i \in 1..Len(fifo)
      BY <1>1, <1>3, <1>4, <3>2 DEF Typed
    <3>3. CASE i = Len(fifo) + 1
      <4>1. Seen + (Len(fifo) + 1) = Len(typed) + 1
        <5>1. PICK h \in Nat, m \in Nat : h = Seen /\ m = Len(fifo)
          BY <1>1, <1>4
        <5>2. h + m = Len(typed) /\ h + (m + 1) = (h + m) + 1
          BY <1>4, <5>1
        <5> QED BY <5>1, <5>2
      <4> QED BY <1>3, <1>4, <3>3, <4>1
    <3> QED BY <3>1, <3>2, <3>3
  <2>2. Len(typed') <= MaxTyped
    BY <1>1, <1>2, SizeAssumption
  <2> QED BY <1>1, <1>2, <1>3, <1>4, <2>1, <2>2 DEF Typed
<1>6. /\ \A e \in 0..Len(typed) : Begun'[e] = Begun[e]
      /\ \A n \in 0..Len(typed) : StartsOf(Begun', n) = StartsOf(Begun, n)
  <2>1. Len(typed) <= Len(typed')
    BY <1>1, <1>2
  <2> QED BY <1>1, <1>2, <2>1, BegunKept
<1>7. Begun'[Seen'] = Begun[Seen] /\ StartsOf(Begun', Seen') = StartsOf(Begun, Seen)
  BY <1>4, <1>6
<1>8. Lines' = Lines
  BY <1>1 DEF Lines, Taken
<1>9. Threads' /\ Queued'
  BY <1>1 DEF Threads, Queued
<1>10. Partial' /\ Counted'
  BY <1>1, <1>4, <1>7, <1>8 DEF Partial, Counted
<1> QED BY <1>1, <1>2, <1>4, <1>5, <1>7, <1>8, <1>9, <1>10

\* Somebody at a terminal expects nothing.
LEMMA KeyboardStep ==
  ASSUME UartIInv, Keyboard
  PROVE  UartIInv'
<1>1. PICK c \in Letters \cup LineEnds : Type(c)
  BY DEF Keyboard
<1>2. host = "keyboard" /\ got = <<>> /\ ~greeting /\ greeting \in BOOLEAN
      /\ UNCHANGED <<host, got, greeting>>
  BY <1>1, TypeStep DEF Keyboard, UartIInv, Expected
<1>3. Expected'
  BY <1>2 DEF Expected
<1> QED BY <1>1, <1>3, TypeStep DEF UartIInv

\* Where a message of check_echo.py ends.
LEMMA LastOfMessage ==
  ASSUME NEW n \in Nat
  PROVE  n % MSG_SIZE = MSG_SIZE - 1 <=> (n + 1) % MSG_SIZE = 0
<1>0. MSG_SIZE \in Nat \ {0} /\ MSG_SIZE > 1
  BY SizeAssumption
<1>1. PICK q \in Int, r \in 0..(MSG_SIZE - 1) :
        n = MSG_SIZE * q + r /\ r = n % MSG_SIZE
  BY <1>0
<1>2. q \in Nat
  <2>1. q < 0 => MSG_SIZE * q + MSG_SIZE <= MSG_SIZE * 0
    BY <1>0, Multiples
  <2>2. MSG_SIZE * q \in Int /\ MSG_SIZE * 0 = 0
    BY <1>0
  <2> QED BY <1>0, <1>1, <2>1, <2>2
<1>3. MSG_SIZE * q \in Nat
  <2>1. MSG_SIZE * q >= 0 /\ MSG_SIZE * q \in Int
    BY <1>0, <1>2
  <2> QED BY <2>1
<1>4. n + 1 \in (MSG_SIZE * q + 1)..(MSG_SIZE * q + MSG_SIZE)
  BY <1>0, <1>1, <1>3
<1>5. (n + 1) % MSG_SIZE = 0 <=> n + 1 = MSG_SIZE * q + MSG_SIZE
  BY <1>2, <1>4, EndOfMessage
<1> QED BY <1>0, <1>1, <1>3, <1>5

\* How far check_echo.py is, given what it has asked.
LEMMA AskedIs ==
  ASSUME NEW g \in Nat, typed \in Seq(Letters \cup LineEnds),
         Len(typed) \in (MSG_SIZE * g)..(MSG_SIZE * g + MSG_SIZE)
  PROVE  /\ Len(typed) = MSG_SIZE * g + MSG_SIZE => ~Midway /\ Asked = g + 1
         /\ Len(typed) # MSG_SIZE * g + MSG_SIZE => Asked = g
         /\ MSG_SIZE * g \in Nat /\ MSG_SIZE * (g + 1) = MSG_SIZE * g + MSG_SIZE
<1>0. MSG_SIZE \in Nat \ {0} /\ MSG_SIZE > 1
  BY SizeAssumption
<1>1. MSG_SIZE * g \in Nat
  <2>1. MSG_SIZE * g >= 0 /\ MSG_SIZE * g \in Int
    BY <1>0
  <2> QED BY <2>1
<1>2. MSG_SIZE * (g + 1) = MSG_SIZE * g + MSG_SIZE
  BY <1>0
<1>3. CASE Len(typed) = MSG_SIZE * g + MSG_SIZE
  <2>1. /\ (MSG_SIZE * (g + 1) + 0) \div MSG_SIZE = g + 1
        /\ (MSG_SIZE * (g + 1) + 0) % MSG_SIZE = 0
    <3>1. g + 1 \in Nat /\ 0 \in 0..(MSG_SIZE - 1)
      BY <1>0
    <3> QED BY <1>0, <3>1, Quotient
  <2>2. MSG_SIZE * (g + 1) + 0 = Len(typed)
    BY <1>0, <1>1, <1>2, <1>3
  <2> QED BY <1>1, <1>2, <1>3, <2>1, <2>2 DEF Midway, Asked
<1>4. CASE Len(typed) # MSG_SIZE * g + MSG_SIZE
  <2>1. PICK r \in 0..(MSG_SIZE - 1) : Len(typed) = MSG_SIZE * g + r
    <3>1. Len(typed) - MSG_SIZE * g \in 0..(MSG_SIZE - 1)
          /\ Len(typed) = MSG_SIZE * g + (Len(typed) - MSG_SIZE * g)
      BY <1>0, <1>1, <1>4
    <3> QED BY <3>1
  <2>2. (MSG_SIZE * g + r) \div MSG_SIZE = g
    BY <1>0, Quotient
  <2> QED BY <1>1, <1>2, <1>4, <2>1, <2>2 DEF Asked
<1> QED BY <1>3, <1>4

\* check_echo.py types the next character of its message.
LEMMA WriteStep ==
  ASSUME UartIInv, write
  PROVE  UartIInv'
<1>1. PICK c \in Letters \cup {LF} :
        Type(c) /\ ((c = LF) = (Len(typed) % MSG_SIZE = MSG_SIZE - 1))
  BY DEF write
<1>2. c \in Letters \cup LineEnds /\ (c \in LineEnds <=> c = LF)
  BY SizeAssumption
<1>3. host = "check_echo" /\ (Midway \/ Asked = Len(got))
  BY DEF write
<1>4. /\ Typed' /\ Threads' /\ Partial' /\ Queued' /\ Counted'
      /\ Len(typed') = Len(typed) + 1 /\ typed'[Len(typed) + 1] = c
      /\ \A k \in 1..Len(typed) : typed'[k] = typed[k]
      /\ Seen' = Seen /\ Begun'[Seen'] = Begun[Seen] /\ Lines' = Lines
      /\ UNCHANGED <<bot, host, rx_buf, msgq, tx_buf, echoed, dropped, got, greeting>>
  BY <1>1, <1>2, TypeStep
<1>5. /\ Asking /\ (InTime => Answered) /\ got \in Seq(Seq(Nat)) /\ Len(got) \in Nat
      /\ typed \in Seq(Letters \cup LineEnds) /\ Len(typed) \in Nat
  BY <1>3 DEF UartIInv, Expected, Typed
<1>6. Asking'
  <2>1. ASSUME NEW k \in 1..Len(typed')
        PROVE  typed'[k] \in LineEnds <=> k % MSG_SIZE = 0
    <3>1. CASE k \in 1..Len(typed)
      BY <1>4, <1>5, <3>1 DEF Asking
    <3>2. CASE k = Len(typed) + 1
      <4>1. Len(typed) % MSG_SIZE = MSG_SIZE - 1 <=> (Len(typed) + 1) % MSG_SIZE = 0
        BY <1>5, LastOfMessage
      <4> QED BY <1>1, <1>2, <1>4, <3>2, <4>1
    <3> QED BY <1>4, <1>5, <3>1, <3>2
  <2> QED BY <2>1 DEF Asking
<1>7. ASSUME InTime
      PROVE  Answered'
  <2>1. Answered
    BY <1>5, <1>7
  <2>2. Len(typed) \in (MSG_SIZE * Len(got))..(MSG_SIZE * Len(got) + MSG_SIZE)
    BY <2>1 DEF Answered
  <2>3. Len(typed) # MSG_SIZE * Len(got) + MSG_SIZE /\ MSG_SIZE * Len(got) \in Nat
    <3>1. PICK g \in Nat : g = Len(got)
      BY <1>5
    <3>2. /\ Len(typed) = MSG_SIZE * g + MSG_SIZE => ~Midway /\ Asked = g + 1
          /\ MSG_SIZE * g \in Nat
      BY <1>5, <2>2, <3>1, AskedIs
    <3>3. g + 1 # g
      OBVIOUS
    <3> QED BY <1>3, <3>1, <3>2, <3>3
  <2>4. Len(typed') \in (MSG_SIZE * Len(got))..(MSG_SIZE * Len(got) + MSG_SIZE)
    <3>1. PICK g \in Nat, n \in Nat : g = MSG_SIZE * Len(got) /\ n = Len(typed)
      BY <1>5, <2>3
    <3>2. n + 1 \in g..(g + MSG_SIZE)
      BY <2>2, <2>3, <3>1, SizeAssumption
    <3> QED BY <1>4, <3>1, <3>2
  <2>5. pc' = pc
    BY <1>1 DEF Type
  <2> QED BY <1>4, <2>1, <2>4, <2>5 DEF Answered, Message, Behind
<1>8. Expected'
  BY <1>3, <1>4, <1>5, <1>6, <1>7 DEF Expected, InTime, UartIInv
<1> QED BY <1>4, <1>8 DEF UartIInv

\* No message is the greeting.
LEMMA NotGreeting ==
  ASSUME NEW k \in Nat \ {0}
  PROVE  Message(k) # Greeting
<1>1. 1 \in 1..(MSG_SIZE - 1) /\ (k - 1) * MSG_SIZE \in Nat
  BY SizeAssumption
<1>2. Message(k)[1] = (k - 1) * MSG_SIZE + 1
  BY <1>1 DEF Message
<1>3. Message(k)[1] # 0
  BY <1>1, <1>2
<1> QED BY <1>3 DEF Greeting

\* Every answer but the greeting was read from the bot.
LEMMA ReadIs ==
  ASSUME got \in Seq(Seq(Nat))
  PROVE  Read \in Nat /\ (InTime /\ Answered => Read = Len(got) - Behind)
<1>1. PICK g \in Nat : g = Len(got)
  OBVIOUS
<1>2. PICK b \in {0, 1} : b = Behind /\ b <= g
                          /\ (b = 1 => got[1] = Greeting) /\ 1 + b \in Int /\ g \in Int
  <2>1. got # <<>> => g >= 1
    BY <1>1
  <2> QED BY <1>1, <2>1 DEF Behind
<1> DEFINE read == {k \in 1..g : got[k] \notin {Nothing, Greeting}}
<1>3. Read \in Nat
  <2>1. IsFiniteSet(1..g)
    BY <1>1, FS_Interval
  <2>2. IsFiniteSet(read)
    BY <2>1, FS_Subset
  <2> QED BY <1>1, <2>2, FS_CardinalityType DEF Read
<1>4. ASSUME InTime, Answered
      PROVE  Read = g - b
  <2>1. ASSUME NEW k \in (1 + b)..g
        PROVE  k \in 1..g /\ got[k] # Nothing /\ got[k] # Greeting
    <3>1. k \in 1..g /\ k - b \in Nat \ {0}
      BY <1>2
    <3>2. got[k] = Message(k - b)
      BY <1>1, <1>2, <1>4 DEF Answered
    <3> QED BY <1>1, <1>4, <3>1, <3>2, NotGreeting DEF InTime
  <2>2. ASSUME NEW k \in 1..g, k \notin (1 + b)..g
        PROVE  got[k] = Greeting
    <3>1. k = 1 /\ b = 1
      BY <1>2, <2>2
    <3> QED BY <1>2, <3>1
  <2>3. read = (1 + b)..g
    BY <2>1, <2>2
  <2>4. Cardinality((1 + b)..g) = IF 1 + b > g THEN 0 ELSE g - (1 + b) + 1
    BY <1>2, FS_Interval
  <2>5. (IF 1 + b > g THEN 0 ELSE g - (1 + b) + 1) = g - b
    BY <1>2
  <2> QED BY <1>1, <2>3, <2>4, <2>5 DEF Read
<1> QED BY <1>1, <1>2, <1>3, <1>4

\* check_echo.py takes the next line, or what there is when none comes in time.
LEMMA ReadStep ==
  ASSUME UartIInv, readline
  PROVE  UartIInv'
<1>1. /\ host = "check_echo" /\ ~Midway /\ Len(got) < Asked
      /\ got' = Append(got, NextLine) /\ greeting' = FALSE
      /\ UNCHANGED <<bot, host, pc, typed, fifo, rx_buf, msgq, tx_buf, echoed, dropped>>
  BY DEF readline, line
<1>2. /\ Typed /\ Threads /\ Partial /\ Queued /\ Counted /\ Expected
      /\ typed \in Seq(Letters \cup LineEnds) /\ got \in Seq(Seq(Nat)) /\ Len(got) \in Nat
      /\ echoed \in Seq(Seq(Nat)) /\ Len(echoed) \in Nat
  BY DEF UartIInv, Typed, Expected, Queued
<1>3. Seen' = Seen /\ Lines' = Lines /\ Seen \in 0..Len(typed)
  BY <1>1, <1>2 DEF Seen, Lines, Taken, Typed
<1>4. Begun'[Seen'] = Begun[Seen] /\ StartsOf(Begun', Seen') = StartsOf(Begun, Seen)
  <2>1. /\ \A e \in 0..Len(typed) : Begun'[e] = Begun[e]
        /\ \A n \in 0..Len(typed) : StartsOf(Begun', n) = StartsOf(Begun, n)
    BY <1>1, <1>2, BegunKept
  <2> QED BY <1>3, <2>1
<1>5. Typed' /\ Threads' /\ Queued' /\ Partial' /\ Counted'
  <2>1. Typed' /\ Threads' /\ Queued'
    BY <1>1, <1>2, <1>3 DEF Typed, Threads, Queued
  <2>2. Partial' /\ Counted'
    BY <1>1, <1>2, <1>3, <1>4 DEF Partial, Counted
  <2> QED BY <2>1, <2>2
<1>6. Read \in Nat /\ (InTime /\ Answered => Read = Len(got) - Behind)
  BY <1>2, ReadIs
<1>7. NextLine \in Seq(Nat)
  <2>1. Read < Len(echoed) => Read + 1 \in 1..Len(echoed)
    BY <1>2, <1>6
  <2>2. Nothing \in Seq(Nat) /\ Greeting \in Seq(Nat)
    BY DEF Nothing, Greeting
  <2> QED BY <1>2, <2>1, <2>2 DEF NextLine
<1>8. /\ got' \in Seq(Seq(Nat)) /\ Len(got') = Len(got) + 1
      /\ got'[Len(got) + 1] = NextLine
      /\ \A k \in 1..Len(got) : got'[k] = got[k]
      /\ \A k \in 1..Len(got') : k \in 1..Len(got) \/ k = Len(got) + 1
      /\ \A k \in 1..Len(got) : k \in 1..Len(got')
      /\ Len(got) + 1 \in 1..Len(got')
  BY <1>1, <1>2, <1>7
<1>9. ASSUME InTime'
      PROVE  Answered'
  <2>1. InTime /\ NextLine # Nothing
    BY <1>8, <1>9 DEF InTime
  <2>2. Answered /\ Read = Len(got) - Behind
    BY <1>1, <1>2, <1>6, <2>1 DEF Expected
  <2>3. Len(typed) \in (MSG_SIZE * Len(got'))..(MSG_SIZE * Len(got') + MSG_SIZE)
    <3>1. PICK g \in Nat : g = Len(got)
      BY <1>2
    <3>2. Len(typed) \in (MSG_SIZE * g)..(MSG_SIZE * g + MSG_SIZE)
      BY <2>2, <3>1 DEF Answered
    <3>3. /\ Len(typed) # MSG_SIZE * g + MSG_SIZE => Asked = g
          /\ MSG_SIZE * g \in Nat /\ MSG_SIZE * (g + 1) = MSG_SIZE * g + MSG_SIZE
      BY <1>2, <3>2, AskedIs
    <3>4. Len(typed) = MSG_SIZE * (g + 1)
      <4>1. Asked # g
        BY <1>1, <3>1
      <4> QED BY <3>3, <4>1
    <3>5. \A n \in Nat : n \in n..(n + MSG_SIZE)
      BY SizeAssumption
    <3>6. MSG_SIZE * (g + 1) \in Nat
      BY <3>3, SizeAssumption
    <3> QED BY <1>8, <3>1, <3>4, <3>5, <3>6
  <2>4. /\ Len(got') - Behind' <= Len(echoed)
        /\ \A k \in (1 + Behind')..Len(got') : got'[k] = Message(k - Behind')
        /\ pc \notin {"start", "greet"}
    <3>1. CASE greeting
      <4>1. got = <<>> /\ pc \notin {"start", "greet"}
        BY <2>2, <3>1 DEF Answered
      <4>2. Len(got') = 1 /\ got'[1] = Greeting /\ got' # <<>>
        <5>1. Len(got) + 1 = 1
          BY <4>1
        <5>2. NextLine = Greeting
          BY <3>1 DEF NextLine
        <5>3. Len(got') = 1 /\ got'[1] = NextLine
          BY <1>8, <5>1
        <5> QED BY <5>2, <5>3
      <4>3. Behind' = 1
        BY <4>2 DEF Behind
      <4> QED BY <1>2, <4>1, <4>2, <4>3
    <3>2. CASE ~greeting
      <4>1. Read < Len(echoed) /\ NextLine = echoed[Read + 1]
        BY <2>1, <3>2 DEF NextLine
      <4>2. PICK r \in Nat : r = Read
        BY <1>6
      <4>3. r + 1 \in 1..Len(echoed) /\ r + 1 \in 1..Len(Lines) /\ r + 1 \in Nat \ {0}
        BY <1>2, <4>1, <4>2, LinesAre
      <4>4. NextLine = Message(r + 1)
        <5>1. Lines[r + 1] = echoed[r + 1]
          BY <1>2, <4>3, LinesAre
        <5> QED BY <2>2, <4>1, <4>2, <4>3, <5>1 DEF Answered
      <4>5. PICK b \in {0, 1} : b = Behind /\ Len(got) = r + b /\ (got = <<>> => b = 0)
        BY <1>2, <2>2, <4>2 DEF Behind
      <4>6. Behind' = b
        <5>1. got' # <<>>
          BY <1>2, <1>8
        <5>2. CASE got = <<>>
          <6>1. got'[1] = Message(r + 1)
            BY <1>8, <4>4, <5>2
          <6>2. got'[1] # Greeting
            BY <4>3, <6>1, NotGreeting
          <6> QED BY <4>5, <5>2, <6>2 DEF Behind
        <5>3. CASE got # <<>>
          <6>1. 1 \in 1..Len(got)
            BY <1>2, <5>3
          <6>2. got'[1] = got[1]
            BY <1>8, <6>1
          <6> QED BY <4>5, <5>1, <5>3, <6>2 DEF Behind
        <5> QED BY <5>2, <5>3
      <4>7. ASSUME NEW k \in (1 + b)..Len(got')
            PROVE  got'[k] = Message(k - b)
        <5>1. k \in (1 + b)..Len(got) \/ k = Len(got) + 1
          BY <1>2, <1>8, <4>5
        <5>2. CASE k \in (1 + b)..Len(got)
          <6>1. k \in 1..Len(got) /\ got[k] = Message(k - b)
            BY <1>2, <2>2, <4>5, <5>2 DEF Answered
          <6> QED BY <1>8, <6>1
        <5>3. CASE k = Len(got) + 1
          <6>1. k - b = r + 1
            BY <4>5, <5>3
          <6> QED BY <1>8, <4>4, <5>3, <6>1
        <5> QED BY <5>1, <5>2, <5>3
      <4>8. Len(got') - b <= Len(echoed)
        <5>1. Len(got') - b = r + 1
          BY <1>8, <4>5
        <5> QED BY <1>2, <4>3, <5>1
      <4>9. pc \notin {"start", "greet"}
        BY <1>2, <2>2, <4>3 DEF Answered
      <4> QED BY <4>6, <4>7, <4>8, <4>9
    <3> QED BY <3>1, <3>2
  <2> QED BY <1>1, <1>3, <1>4, <2>2, <2>3, <2>4 DEF Answered, Message
<1>10. Expected'
  <2>1. Asking'
    BY <1>1, <1>2 DEF Expected, Asking
  <2> QED BY <1>1, <1>8, <1>9, <2>1 DEF Expected
<1> QED BY <1>5, <1>10 DEF UartIInv

(***************************************************************************)
(* The invariant.                                                          *)
(***************************************************************************)
\* Nothing is typed at first, and nothing counted.
LEMMA InitUart ==
  ASSUME Init
  PROVE  UartIInv
<1>1. /\ bot \in {"echo_bot", "echo_bot_two_uarts", "hello_at"}
      /\ host \in {"keyboard", "check_echo"}
      /\ host = "check_echo" => bot = "echo_bot_two_uarts"
      /\ pc = "start" /\ typed = <<>> /\ fifo = <<>> /\ rx_buf = <<>> /\ msgq = <<>>
      /\ tx_buf = Nothing /\ echoed = <<>> /\ dropped = {} /\ got = <<>>
      /\ greeting = FALSE
  BY DEF Init
<1>2. /\ MSG_SIZE \in Nat /\ MSG_SIZE > 1 /\ QueueLen \in Nat /\ MaxTyped \in Nat
      /\ MSG_SIZE * 0 = 0
  BY SizeAssumption
<1>3. typed \in Seq(Letters \cup LineEnds) /\ Len(typed) = 0 /\ Seen = 0
  BY <1>1 DEF Seen
<1>4. Begun[0] = 1 /\ Begun[Seen] = 1
  BY <1>3, StartsBefore
<1>5. StartsOf(Begun, Seen) = {}
  <2>1. {Begun[e] : e \in 0..0} = {Begun[0]}
    OBVIOUS
  <2> QED BY <1>3, <2>1 DEF StartsOf
<1>6. Lines = <<>> /\ Len(Lines) = 0
  BY <1>1 DEF Lines, Taken
<1>7. Typed
  BY <1>1, <1>2, <1>3 DEF Typed
<1>8. Threads
  BY <1>1 DEF Threads
<1>9. Partial
  BY <1>1, <1>2, <1>3, <1>4 DEF Partial, Smaller
<1>10. Queued
  BY <1>1, <1>2 DEF Queued, Nothing
<1>11. Expected
  <2>1. Len(got) = 0 /\ Behind = 0 /\ got \in Seq(Seq(Nat)) /\ Len(echoed) = 0
    BY <1>1 DEF Behind
  <2>2. Answered
    BY <1>1, <1>2, <1>3, <1>4, <1>6, <2>1 DEF Answered
  <2>3. Asking
    BY <1>3 DEF Asking
  <2> QED BY <1>1, <2>1, <2>2, <2>3 DEF Expected
<1>12. Counted
  <2>1. Firsts(Lines) = {}
    BY <1>6 DEF Firsts
  <2>2. Cardinality({}) = 0
    BY FS_EmptySet
  <2> QED BY <1>1, <1>5, <1>6, <2>1, <2>2 DEF Counted, Counts
<1> QED BY <1>7, <1>8, <1>9, <1>10, <1>11, <1>12 DEF UartIInv

\* Every step keeps the invariant.
LEMMA NextUart ==
  ASSUME UartIInv, [Next]_vars
  PROVE  UartIInv'
<1>1. CASE UNCHANGED vars
  <2>1. /\ UNCHANGED <<bot, host, pc, typed, fifo, rx_buf, msgq, tx_buf, echoed, dropped, got, greeting>>
        /\ Threads /\ Queued /\ echoed \in Seq(Seq(Nat))
    BY <1>1 DEF vars, UartIInv, Queued
  <2>2. Lines' = Lines /\ Len(echoed) <= Len(echoed')
    BY <2>1 DEF Lines, Taken
  <2>3. Threads' /\ Queued'
    BY <2>1 DEF Threads, Queued
  <2> QED BY <2>1, <2>2, <2>3, LinesKept DEF UartIInv
<1>2. CASE Handler
  BY <1>2, SerialStep, AtStep DEF Handler
<1>3. CASE Thread
  BY <1>3, StartStep, GreetStep, GetStep, PollStep, PrintStep DEF Thread
<1>4. CASE Host
  BY <1>4, KeyboardStep, WriteStep, ReadStep DEF Host
<1>5. CASE Quiet
  BY <1>1, <1>5 DEF Quiet
<1> QED BY <1>1, <1>2, <1>3, <1>4, <1>5 DEF Next

\* What rx_buf, the queue and the screen hold of the lines that were typed, for lines
\* and queues of any length.
THEOREM UartInvariant == Spec => []UartIInv
<1>1. Init => UartIInv
  BY InitUart
<1>2. UartIInv /\ [Next]_vars => UartIInv'
  BY NextUart
<1> QED BY <1>1, <1>2, PTL DEF Spec

\* Every variable keeps its type: rx_buf has room for the terminator, no message in
\* the queue is empty or longer than rx_buf, and the queue holds no more than it can.
THEOREM UartTypeCorrect == Spec => []TypeOK
<1>1. ASSUME UartIInv
      PROVE  TypeOK
  <2>1. Typed /\ Threads /\ Partial /\ Queued
    BY <1>1 DEF UartIInv
  <2>2. fifo \in Seq(1..MaxTyped)
    <3>1. /\ fifo \in Seq(Nat) /\ Seen \in Nat /\ Len(typed) \in Nat /\ Len(fifo) \in Nat
          /\ Seen = Len(typed) - Len(fifo) /\ Len(typed) <= MaxTyped /\ MaxTyped \in Nat
      BY <2>1, SizeAssumption DEF Typed, Seen
    <3>2. ASSUME NEW i \in 1..Len(fifo)
          PROVE  fifo[i] \in 1..MaxTyped
      BY <2>1, <3>1 DEF Typed
    <3>3. fifo = [i \in 1..Len(fifo) |-> fifo[i]]
      BY <3>1
    <3>4. [i \in 1..Len(fifo) |-> fifo[i]] \in [1..Len(fifo) -> 1..MaxTyped]
      BY <3>2
    <3> QED BY <3>1, <3>3, <3>4
  <2>3. Len(rx_buf) <= MSG_SIZE - 1
    <3>1. PICK h \in Nat : h = Seen
      BY <2>1 DEF Typed
    <3>2. PICK b \in 1..(h + 1) : b = Begun[Seen]
      BY <2>1, <3>1, Collected
    <3>3. Len(rx_buf) = Smaller(h + 1 - b, MSG_SIZE - 1)
      BY <2>1, <3>1, <3>2 DEF Partial
    <3> QED BY <3>3, SizeAssumption DEF Smaller
  <2> QED BY <2>1, <2>2, <2>3 DEF TypeOK, Threads, Queued
<1> QED BY <1>1, UartInvariant, PTL

\* Nobody loses a line unnoticed: each that was read to its end is on the screen,
\* waits to be, or met a full queue, and only one of these.
THEOREM LinesAccounted == Spec => []Accounted
<1>1. ASSUME UartIInv
      PROVE  Accounted
  <2> DEFINE From(lines) == [k \in 1..Len(lines) |-> lines[k][1]]
             all == From(echoed) \o From(Taken)
  <2>1. /\ Counted /\ echoed \in Seq(Seq(Nat)) /\ Taken \in Seq(Seq(Nat))
        /\ Lines \in Seq(Seq(Nat)) /\ Lines = echoed \o Taken
    BY <1>1, LinesAre DEF UartIInv, Queued, Lines
  <2>2. Promise!Starts(Len(typed) - Len(fifo)) = StartsOf(Begun, Seen)
    BY DEF Promise!Starts, Begun, StartsOf, Seen
  <2>3. /\ Len(all) = Len(Lines)
        /\ \A k \in 1..Len(Lines) : all[k] = Lines[k][1]
    <3>1. PICK e, t : e = echoed /\ t = Taken /\ e \in Seq(Seq(Nat)) /\ t \in Seq(Seq(Nat))
      BY <2>1
    <3>2. /\ From(e) = [k \in 1..Len(e) |-> e[k][1]] /\ Len(e) \in Nat
          /\ From(t) = [k \in 1..Len(t) |-> t[k][1]] /\ Len(t) \in Nat
      BY <3>1
    <3> HIDE DEF From
    <3>3. PICK C : C = {e[k][1] : k \in 1..Len(e)} \cup {t[k][1] : k \in 1..Len(t)}
      OBVIOUS
    <3>4. /\ \A k \in 1..Len(e) : From(e)[k] = e[k][1]
          /\ \A k \in 1..Len(t) : From(t)[k] = t[k][1]
          /\ From(e) \in [1..Len(e) -> C] /\ From(t) \in [1..Len(t) -> C]
      BY <3>2, <3>3
    <3>5. /\ From(e) \in Seq(C) /\ Len(From(e)) = Len(e)
          /\ From(t) \in Seq(C) /\ Len(From(t)) = Len(t)
      BY <3>2, <3>4
    <3>6. /\ Len(From(e) \o From(t)) = Len(e) + Len(t) /\ Len(e \o t) = Len(e) + Len(t)
          /\ \A k \in 1..(Len(e) + Len(t)) :
               /\ (From(e) \o From(t))[k] =
                    IF k <= Len(e) THEN From(e)[k] ELSE From(t)[k - Len(e)]
               /\ (e \o t)[k] = IF k <= Len(e) THEN e[k] ELSE t[k - Len(e)]
      BY <3>1, <3>2, <3>5
    <3>7. ASSUME NEW k \in 1..(Len(e) + Len(t))
          PROVE  (From(e) \o From(t))[k] = (e \o t)[k][1]
      <4>1. k <= Len(e) => k \in 1..Len(e)
        BY <3>2
      <4>2. ~(k <= Len(e)) => k - Len(e) \in 1..Len(t)
        BY <3>2
      <4> QED BY <3>4, <3>6, <4>1, <4>2
    <3>8. /\ Len(From(e) \o From(t)) = Len(e \o t)
          /\ \A k \in 1..Len(e \o t) : (From(e) \o From(t))[k] = (e \o t)[k][1]
      BY <3>6, <3>7
    <3>9. all = From(e) \o From(t) /\ Lines = e \o t
      BY <2>1, <3>1 DEF From
    <3> HIDE DEF all
    <3> QED BY <3>8, <3>9
  <2>4. {all[k] : k \in 1..Len(all)} = Firsts(Lines)
    <3> HIDE DEF all
    <3> QED BY <2>3 DEF Firsts
  <2> HIDE DEF all
  <2>5. /\ {all[k] : k \in 1..Len(all)} \cup dropped = StartsOf(Begun, Seen)
        /\ Len(all) + Cardinality(dropped) = Cardinality(StartsOf(Begun, Seen))
    BY <2>1, <2>3, <2>4 DEF Counted, Counts
  <2> QED BY <2>2, <2>5 DEF Accounted, all, From
<1> QED BY <1>1, UartInvariant, PTL

\* As long as no answer came late, check_echo.py gets the message it asked for, or,
\* after the greeting, the message before.
THEOREM EchoExpected == Spec => []ExpectedResponse
<1>1. ASSUME UartIInv
      PROVE  ExpectedResponse
  <2>1. Expected /\ host \in {"keyboard", "check_echo"}
    BY <1>1 DEF UartIInv, Typed
  <2>2. CASE host = "keyboard"
    BY <2>1, <2>2 DEF Expected, ExpectedResponse, Behind
  <2>3. CASE host = "check_echo"
    BY <2>1, <2>3 DEF Expected, Answered, ExpectedResponse
  <2> QED BY <2>1, <2>2, <2>3
<1> QED BY <1>1, UartInvariant, PTL

(***************************************************************************)
(* The promise.                                                            *)
(***************************************************************************)
\* The line that ends with the next character is one of those that were typed, and
\* begins after all that wait or are shown.
LEMMA FinishedLine ==
  ASSUME UartIInv, NEW h \in Nat, h = Seen, h + 1 <= Len(typed),
         NEW b, b = Begun[h], IsEnd(h + 1), h + 1 >= b + First,
         NEW text \in Seq(Nat), Len(text) = Smaller(h + 1 + 1 - First - b, MSG_SIZE - 1),
         text # <<>>, \A i \in 1..Len(text) : text[i] = (b + i) - 1
  PROVE  text \in Promise!Lines /\ Promise!Later(text)
<1>1. /\ typed \in Seq(Letters \cup LineEnds) /\ Len(typed) \in Nat /\ First \in {0, 1}
      /\ MSG_SIZE \in Nat /\ MSG_SIZE > 1 /\ Lines \in Seq(Seq(Nat)) /\ Counted
  BY SizeAssumption, LinesAre DEF UartIInv, Typed, First
<1>2. Recursion(Begun, typed, First)
  BY <1>1, BegunIs
<1>3. /\ \A e \in 0..Len(typed) : Begun[e] \in 1..(e + 1)
      /\ \A e \in 0..Len(typed) : \A c \in 0..e : Begun[c] <= Begun[e]
  BY <1>1, <1>2, RecursionRange
<1>4. h \in 0..Len(typed) /\ h + 1 \in 0..Len(typed)
  OBVIOUS
<1>5. b \in 1..(h + 1) /\ Begun[h + 1] = h + 2
  BY <1>1, <1>3, <1>4, StartsGrow
<1>6. ASSUME NEW e \in (h + 1)..Len(typed)
      PROVE  Begun[e] >= h + 2 /\ Begun[e] # b
  <2>1. e \in 0..Len(typed) /\ h + 1 \in 0..e
    OBVIOUS
  <2>2. Begun[h + 1] <= Begun[e] /\ Begun[e] \in 1..(e + 1)
    BY <1>3, <2>1
  <2> QED BY <1>5, <2>2
<1>7. b \in Promise!Starts(Len(typed))
  <2>1. Promise!Starts(Len(typed)) = {Begun[e] : e \in 0..Len(typed)} \ {Begun[Len(typed)]}
    BY DEF Promise!Starts, Begun
  <2>2. Begun[Len(typed)] # b
    BY <1>1, <1>4, <1>6
  <2> QED BY <1>4, <2>1, <2>2
<1>8. Promise!Line(b) = text
  <2> DEFINE ends == {n \in b..Len(typed) : Begun[n - 1] = b}
  <2>1. h + 1 \in ends
    <3>1. h + 1 \in b..Len(typed) /\ h + 1 - 1 = h
      BY <1>1, <1>5
    <3> QED BY <3>1
  <2>2. ASSUME NEW n \in ends
        PROVE  n \in Int /\ n <= h + 1
    <3>1. n \in b..Len(typed) /\ Begun[n - 1] = b /\ n \in Int
      BY <1>1, <1>5
    <3>2. ~(n <= h + 1) => n - 1 \in (h + 1)..Len(typed)
      BY <1>1, <1>5, <3>1
    <3> QED BY <1>6, <3>1, <3>2
  <2>3. Promise!Max(ends) = h + 1
    <3>1. Promise!Max(ends) = CHOOSE x \in ends : \A y \in ends : x >= y
      BY DEF Promise!Max
    <3> HIDE DEF ends
    <3>2. h + 1 \in ends /\ \A y \in ends : h + 1 >= y
      BY <2>1, <2>2
    <3>3. \A x \in ends : (\A y \in ends : x >= y) => x = h + 1
      BY <2>1, <2>2
    <3> QED BY <3>1, <3>2, <3>3
  <2>4. PICK m \in Int : m = h + 1 + 1 - First - b
    BY <1>1, <1>5
  <2>5. Promise!Min({m, MSG_SIZE - 1}) = Smaller(m, MSG_SIZE - 1)
    <3> DEFINE two == {m, MSG_SIZE - 1}
    <3>1. Promise!Min(two) = CHOOSE x \in two : \A y \in two : x <= y
      BY DEF Promise!Min
    <3>2. /\ Smaller(m, MSG_SIZE - 1) \in two
          /\ \A y \in two : Smaller(m, MSG_SIZE - 1) <= y
          /\ \A x \in two : (\A y \in two : x <= y) => x = Smaller(m, MSG_SIZE - 1)
      BY <1>1, <2>4 DEF Smaller
    <3>3. Promise!Min(two) = Smaller(m, MSG_SIZE - 1)
      <4> HIDE DEF two
      <4> QED BY <3>1, <3>2
    <3> QED BY <3>3
  <2>6. Promise!Line(b) =
          LET e == Promise!Max(ends)
          IN  [i \in 1..Promise!Min({e + 1 - First - b, MSG_SIZE - 1}) |-> (b + i) - 1]
    BY DEF Promise!Line, Begun, First
  <2>7. h + 1 + 1 - First - b = m
    BY <2>4
  <2>8. Promise!Line(b) = [i \in 1..Smaller(m, MSG_SIZE - 1) |-> (b + i) - 1]
    <3> HIDE DEF ends
    <3> QED BY <2>3, <2>5, <2>6, <2>7
  <2>9. text = [i \in 1..Len(text) |-> (b + i) - 1]
    OBVIOUS
  <2> QED BY <2>4, <2>8, <2>9
<1>9. text \in Promise!Lines
  BY <1>7, <1>8 DEF Promise!Lines
<1>10. Promise!Later(text)
  <2>1. text[1] = b
    <3>1. 1 \in 1..Len(text)
      OBVIOUS
    <3> QED BY <1>5, <3>1
  <2>2. ASSUME NEW k \in 1..Len(Lines)
        PROVE  Lines[k][1] < b
    <3>1. Lines[k][1] \in StartsOf(Begun, h)
      BY <1>1 DEF Counted, Counts, Firsts
    <3> QED BY <1>1, <1>4, <3>1, StartsBefore
  <2> QED BY <2>1, <2>2 DEF Promise!Later, Lines
<1> QED BY <1>9, <1>10

Promised == <<typed, IF bot = "hello_at" THEN 0 ELSE 1, Taken, echoed>>

\* The handler of the echo bots finishes a line, or does nothing that can be seen.
LEMMA SerialPromised ==
  ASSUME UartIInv, serial_cb
  PROVE  Promise!Finish \/ UNCHANGED Promised
<1>1. /\ Typed /\ Threads /\ Partial /\ Queued /\ rx_buf \in Seq(Nat)
      /\ MSG_SIZE \in Nat /\ QueueLen \in Nat /\ Taken \in Seq(Seq(Nat))
  BY LinesAre, SizeAssumption DEF UartIInv, Partial
<1>2. /\ bot # "hello_at" /\ fifo # <<>> /\ fifo' = Tail(fifo)
      /\ UNCHANGED <<bot, host, typed, echoed, got, greeting>> /\ First = 1
  BY DEF serial_cb, First, script
<1>3. /\ Head(fifo) = Seen + 1 /\ Seen \in Nat /\ Seen + 1 <= Len(typed)
      /\ Begun[Seen] \in 1..(Seen + 1)
  BY <1>1, <1>2, NextCharacter
<1>4. CASE IsEnd(Seen + 1) /\ rx_buf # <<>>
  <2>1. Put(rx_buf)
    BY <1>3, <1>4 DEF serial_cb
  <2>2. Len(rx_buf) \in 1..(MSG_SIZE - 1) /\ Seen + 1 >= Begun[Seen] + 1
    BY <1>1, <1>4, Collected
  <2>3. \/ Taken' = Append(Taken, rx_buf) /\ Len(Taken) <= QueueLen
        \/ Taken' = Taken
    BY <1>1, <1>2, <2>1, <2>2, PutMoves
  <2>4. rx_buf \in Promise!Lines /\ Promise!Later(rx_buf)
    <3>0. PICK h \in Nat : h = Seen
      BY <1>3
    <3>1. PICK b \in 1..(h + 1) : h = Seen /\ b = Begun[h]
      BY <1>3, <3>0
    <3>2. /\ Len(rx_buf) = Smaller(h + 1 - b, MSG_SIZE - 1)
          /\ \A i \in 1..Len(rx_buf) : rx_buf[i] = (b + i) - 1
      BY <3>1 DEF UartIInv, Partial
    <3>3. h + 1 + 1 - First - b = h + 1 - b
      BY <1>2
    <3>4. h + 1 >= b + First
      BY <1>2, <2>2, <3>1
    <3>5. /\ Len(rx_buf) = Smaller(h + 1 + 1 - First - b, MSG_SIZE - 1)
          /\ h + 1 <= Len(typed) /\ IsEnd(h + 1) /\ rx_buf # <<>> /\ rx_buf \in Seq(Nat)
      BY <1>1, <1>3, <1>4, <3>1, <3>2, <3>3
    <3> QED BY <3>1, <3>2, <3>4, <3>5, FinishedLine
  <2>5. CASE Taken' = Append(Taken, rx_buf) /\ Len(Taken) <= QueueLen
    <3>1. Len(Taken) < QueueLen + 1
      BY <1>1, <2>5
    <3> QED BY <1>2, <2>4, <2>5, <3>1 DEF Promise!Finish
  <2>6. CASE Taken' = Taken
    BY <1>2, <2>6 DEF Promised
  <2> QED BY <2>3, <2>5, <2>6
<1>5. CASE ~(IsEnd(Seen + 1) /\ rx_buf # <<>>)
  <2>1. UNCHANGED <<msgq, tx_buf>>
    BY <1>3, <1>5 DEF serial_cb
  <2> QED BY <1>2, <2>1 DEF Promised, Taken
<1> QED BY <1>4, <1>5

\* So does the handler of hello_at, where no line waits.
LEMMA AtPromised ==
  ASSUME UartIInv, uart_cb
  PROVE  Promise!Finish \/ UNCHANGED Promised
<1>1. Typed /\ Threads /\ Partial
  BY DEF UartIInv
<1>2. /\ bot = "hello_at" /\ fifo # <<>> /\ fifo' = Tail(fifo) /\ First = 0
      /\ UNCHANGED <<bot, host, pc, typed, msgq, tx_buf, dropped, got, greeting>>
  BY DEF uart_cb, First, script
<1>3. /\ Head(fifo) = Seen + 1 /\ Seen \in Nat /\ Seen + 1 <= Len(typed)
      /\ Begun[Seen] \in 1..(Seen + 1)
  BY <1>1, <1>2, NextCharacter
<1>4. Taken = <<>> /\ Taken' = <<>>
  BY <1>1, <1>2 DEF Threads, Taken, Nothing
<1>5. CASE IsEnd(Seen + 1)
  <2>1. echoed' = Append(echoed, Store(Seen + 1))
    BY <1>3, <1>5 DEF uart_cb
  <2>0. PICK h \in Nat : h = Seen
    BY <1>3
  <2>2. PICK b \in 1..(h + 1) : h = Seen /\ b = Begun[h]
    BY <1>3, <2>0
  <2>3. /\ Store(h + 1) \in Seq(Nat) /\ Store(h + 1) # Nothing
        /\ Len(Store(h + 1)) = Smaller(h + 2 - b, MSG_SIZE - 1)
        /\ \A i \in 1..Len(Store(h + 1)) : Store(h + 1)[i] = (b + i) - 1
    BY <1>1, <2>2, StoreLine DEF Partial
  <2>4. h + 1 + 1 - First - b = h + 2 - b
    BY <1>2
  <2>5. h + 1 >= b + First
    BY <1>2
  <2>6. Store(h + 1) \in Promise!Lines /\ Promise!Later(Store(h + 1))
    BY <1>3, <1>5, <2>2, <2>3, <2>4, <2>5, FinishedLine DEF Nothing
  <2> QED BY <1>2, <1>4, <2>1, <2>2, <2>6 DEF Promise!Finish
<1>6. CASE ~IsEnd(Seen + 1)
  <2>1. echoed' = echoed
    BY <1>3, <1>6 DEF uart_cb
  <2> QED BY <1>2, <1>4, <2>1 DEF Promised
<1> QED BY <1>5, <1>6

\* What the thread takes from the queue is still to be shown.
LEMMA ReceivePromised ==
  ASSUME UartIInv, pc = "get", msgq # <<>>, Receive
  PROVE  Taken' = Taken
<1>1. /\ Threads /\ msgq \in Seq(Seq(Nat)) /\ tx_buf = Nothing
      /\ tx_buf' = Head(msgq) /\ msgq' = Tail(msgq)
      /\ \A k \in 1..Len(msgq) : Len(msgq[k]) \in 1..(MSG_SIZE - 1)
  BY DEF UartIInv, Threads, Queued, Receive
<1>2. Head(msgq) # Nothing
  <2>1. \A s : Len(s) \in 1..(MSG_SIZE - 1) => s # Nothing
    BY SizeAssumption DEF Nothing
  <2>2. 1 \in 1..Len(msgq) /\ Head(msgq) = msgq[1]
    BY <1>1
  <2> QED BY <1>1, <2>1, <2>2
<1>3. <<Head(msgq)>> \o Tail(msgq) = msgq
  BY <1>1
<1> QED BY <1>1, <1>2, <1>3 DEF Taken

\* The threads show the lines that wait.
LEMMA ThreadPromised ==
  ASSUME UartIInv, Thread
  PROVE  Promise!Show \/ UNCHANGED Promised
<1>1. /\ Threads /\ echoed \in Seq(Seq(Nat)) /\ msgq \in Seq(Seq(Nat)) /\ tx_buf \in Seq(Nat)
  BY DEF UartIInv, Queued
<1>2. CASE start
  BY <1>2 DEF start, line, Promised, Taken
<1>6. CASE greet
  BY <1>6 DEF greet, line, Promised, Taken
<1>3. CASE get
  <2>1. CASE msgq # <<>>
    BY <1>3, <2>1, ReceivePromised DEF get, Promised
  <2>2. CASE msgq = <<>>
    BY <1>3, <2>2 DEF get, Promised, Taken
  <2> QED BY <2>1, <2>2
<1>4. CASE poll
  <2>1. CASE msgq # <<>>
    BY <1>4, <2>1, ReceivePromised DEF poll, Promised
  <2>2. CASE msgq = <<>>
    BY <1>4, <2>2 DEF poll, Promised, Taken
  <2> QED BY <2>1, <2>2
<1>5. CASE print_uart
  <2>1. /\ tx_buf # Nothing /\ tx_buf' = Nothing /\ msgq' = msgq
        /\ echoed' = Append(echoed, tx_buf) /\ UNCHANGED <<bot, typed>>
    BY <1>1, <1>5 DEF print_uart, Threads
  <2>2. Taken = <<tx_buf>> \o msgq /\ Taken' = msgq
    BY <2>1 DEF Taken
  <2>3. /\ <<tx_buf>> \o msgq # <<>> /\ Head(<<tx_buf>> \o msgq) = tx_buf
        /\ Tail(<<tx_buf>> \o msgq) = msgq
    BY <1>1
  <2> QED BY <2>1, <2>2, <2>3 DEF Promise!Show
<1> QED BY <1>2, <1>3, <1>4, <1>5, <1>6 DEF Thread

\* The lines come back in the order in which they were typed, each at most once, as
\* typed and cut to the room of rx_buf, or are dropped whole: the programs implement
\* LineQueue with room for one line more than the queue has.
THEOREM EchoImplementsLineQueue == Spec => LineQueueSpec
<1>1. ASSUME Init
      PROVE  Promise!Init
  BY <1>1 DEF Init, Promise!Init, Taken
<1>2. ASSUME UartIInv, [Next]_vars
      PROVE  [Promise!Next]_Promised
  <2>1. CASE UNCHANGED vars
    BY <2>1 DEF vars, Promised, Taken
  <2>2. CASE Handler
    BY <1>2, <2>2, SerialPromised, AtPromised DEF Handler, Promise!Next
  <2>3. CASE Thread
    BY <1>2, <2>3, ThreadPromised DEF Promise!Next
  <2>4. CASE Host
    <3>1. CASE Keyboard
      <4>1. PICK c \in Letters \cup LineEnds : Type(c)
        BY <3>1 DEF Keyboard
      <4>2. Promise!Type
        BY <4>1 DEF Type, Promise!Type, line, Taken
      <4> QED BY <4>2 DEF Promise!Next
    <3>2. CASE write
      <4>1. PICK c \in Letters \cup {LF} : Type(c)
        BY <3>2 DEF write
      <4>2. c \in Letters \cup LineEnds
        BY SizeAssumption
      <4>3. Promise!Type
        BY <4>1, <4>2 DEF Type, Promise!Type, line, Taken
      <4> QED BY <4>3 DEF Promise!Next
    <3>3. CASE readline
      BY <3>3 DEF readline, line, Promised, Taken
    <3> QED BY <2>4, <3>1, <3>2, <3>3 DEF Host
  <2>5. CASE Quiet
    BY <2>1, <2>5 DEF Quiet
  <2> QED BY <1>2, <2>1, <2>2, <2>3, <2>4, <2>5 DEF Next
<1>3. Promise!Init /\ [][Promise!Next]_Promised => LineQueueSpec
  BY DEF LineQueueSpec, Promise!Spec, Promised
<1> QED BY <1>1, <1>2, <1>3, UartInvariant, PTL DEF Spec
=============================================================================
