---------------------------- MODULE UartEchoInv ----------------------------
(***************************************************************************)
(* The inductive invariant behind the safety properties of UartEcho: what  *)
(* rx_buf holds of the line that is being read, which lines are in the     *)
(* queue and on the screen, and how far check_echo.py and the bot are      *)
(* apart as long as no answer came late.                                   *)
(***************************************************************************)
EXTENDS UartEcho

\* Where the line begins that the first e characters are at the end of.
Begun == Promise!Begun
StartsOf(f, n) == {f[e] : e \in 0..n} \ {f[n]}
First == IF bot = "hello_at" THEN 0 ELSE 1
Recursion(f, s, d) ==
  f = [e \in 0..Len(s) |->
         IF e = 0 THEN 1
         ELSE IF s[e] \in LineEnds /\ e >= f[e - 1] + d THEN e + 1
         ELSE f[e - 1]]
Smaller(m, n) == IF m <= n THEN m ELSE n
Seen == Len(typed) - Len(fifo)     \* by the interrupt handler
Lines == echoed \o Taken

\* The UART holds what was typed and not seen.
Typed ==
  /\ bot \in {"echo_bot", "echo_bot_two_uarts", "hello_at"}
  /\ host \in {"keyboard", "check_echo"}
  /\ host = "check_echo" => bot = "echo_bot_two_uarts"
  /\ typed \in Seq(Letters \cup LineEnds) /\ Len(typed) <= MaxTyped
  /\ Seen \in Nat /\ fifo \in Seq(Nat) /\ \A i \in 1..Len(fifo) : fifo[i] = Seen + i

\* A thread that waits for a message left none; hello_at has neither.
Threads ==
  /\ pc \in {"start", "greet", "get", "pending", "print", "sleep", "over"}
  /\ pc = "print" <=> tx_buf # Nothing
  /\ pc = "pending" => msgq = <<>> /\ bot = "echo_bot"
  /\ bot = "hello_at" =>
       pc \in {"start", "greet", "sleep", "over"} /\ msgq = <<>> /\ dropped = {}

\* rx_buf is the line so far, cut to its room.
Partial ==
  /\ rx_buf \in Seq(Nat) /\ Len(rx_buf) = Smaller(Seen + 1 - Begun[Seen], MSG_SIZE - 1)
  /\ \A i \in 1..Len(rx_buf) : rx_buf[i] = (Begun[Seen] + i) - 1

\* The lines that wait; none is empty.
Queued ==
  /\ msgq \in Seq(Seq(Nat)) /\ echoed \in Seq(Seq(Nat)) /\ tx_buf \in Seq(Nat)
  /\ \A k \in 1..Len(msgq) : Len(msgq[k]) \in 1..(MSG_SIZE - 1)
  /\ Len(msgq) <= QueueLen /\ dropped \subseteq Nat

\* check_echo.py ends every message of MSG_SIZE characters, and no line in between.
Asking == \A k \in 1..Len(typed) : typed[k] \in LineEnds <=> k % MSG_SIZE = 0

\* As long as all answers came in time there is one message on its way: the bot has
\* all of the ones before, each answered with itself; the answer that the greeting was
\* taken for is still to be read.
Answered ==
  /\ Len(typed) \in (MSG_SIZE * Len(got))..(MSG_SIZE * Len(got) + MSG_SIZE)
  /\ MSG_SIZE * Len(Lines) <= Seen /\ Seen < MSG_SIZE * Len(Lines) + MSG_SIZE
  /\ Begun[Seen] = MSG_SIZE * Len(Lines) + 1
  /\ \A k \in 1..Len(Lines) : Lines[k] = Message(k)
  /\ Len(got) - Behind <= Len(echoed)
  /\ \A k \in (1 + Behind)..Len(got) : got[k] = Message(k - Behind)
  /\ pc \in {"start", "greet"} => ~greeting /\ echoed = <<>>
  /\ pc \in {"start", "greet"} \/ greeting => got = <<>>

Expected ==
  /\ got \in Seq(Seq(Nat)) /\ greeting \in BOOLEAN
  /\ host = "check_echo" => Asking /\ (InTime => Answered)
  /\ host = "keyboard" => got = <<>> /\ ~greeting

\* Accounted, of the lines in the order in which they are shown.
Firsts(lines) == {lines[k][1] : k \in 1..Len(lines)}
Counts(lines, drop, starts) ==
  /\ Firsts(lines) \cup drop = starts
  /\ Len(lines) + Cardinality(drop) = Cardinality(starts)
Counted == Counts(Lines, dropped, StartsOf(Begun, Seen))

UartIInv == Typed /\ Threads /\ Partial /\ Queued /\ Expected /\ Counted
=============================================================================
