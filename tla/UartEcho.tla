------------------------------ MODULE UartEcho ------------------------------
(***************************************************************************)
(* The programs that answer on a UART: echo_bot, echo_bot_two_uarts and    *)
(* hello_at.  The interrupt handler collects characters into rx_buf and    *)
(* hands each line to a thread over a bounded queue (the echo bots) or     *)
(* prints it itself (hello_at).  The other end is somebody at a terminal,  *)
(* a modem, or the script check_echo.py, which waits for each answer.      *)
(*                                                                         *)
(* A character is its position in typed.  The handler's loop takes one     *)
(* character a step: what the thread does in between it could do between   *)
(* two interrupts.  Characters that the UART itself loses, and NUL, are    *)
(* not modelled; of the two UARTs only uart1 is ever enabled for input.    *)
(***************************************************************************)
EXTENDS Integers, Sequences, FiniteSets

CONSTANTS
  MSG_SIZE,   \* of a message and of rx_buf
  QueueLen,   \* messages the queue holds
  Letters, LineEnds, LF,  \* LF \in LineEnds
  FifoSize,   \* bound: characters in the UART
  MaxTyped    \* bound: characters typed

ASSUME SizeAssumption ==
  /\ MSG_SIZE \in Nat \ {0, 1} /\ QueueLen \in Nat \ {0, 1}
  /\ LF \in LineEnds /\ Letters \cap LineEnds = {} /\ MaxTyped \in Nat

VARIABLES
  bot,      \* the program
  host,     \* who is at the other end
  pc,       \* the bot's thread
  typed,    \* the characters sent to the bot
  fifo, rx_buf, msgq, tx_buf,
  echoed,   \* the lines that came back
  dropped,  \* history: the first character of every line the queue had no room for
  got,      \* what check_echo.py took for the answers so far
  greeting  \* the end of the greeting came to it and it has not read it

vars ==
  <<bot, host, pc, typed, fifo, rx_buf, msgq, tx_buf, echoed, dropped, got, greeting>>
line == <<rx_buf, msgq, tx_buf, echoed, dropped>>
script == <<got, greeting>>

IsEnd(c) == typed[c] \in LineEnds
Nothing == <<>>
Greeting == <<0>>   \* no line that was typed

Init ==
  /\ bot \in {"echo_bot", "echo_bot_two_uarts", "hello_at"}
  /\ host \in {"keyboard"} \cup (IF bot = "echo_bot_two_uarts" THEN {"check_echo"} ELSE {})
  /\ pc = "start"
  /\ typed = <<>> /\ fifo = <<>> /\ rx_buf = <<>> /\ msgq = <<>> /\ tx_buf = Nothing
  /\ echoed = <<>> /\ dropped = {} /\ got = <<>>
  /\ greeting = FALSE

(***************************************************************************)
(* The other end.                                                          *)
(***************************************************************************)
\* At any time: until input is enabled the UART keeps the characters.
Type(c) ==
  /\ Len(fifo) < FifoSize /\ Len(typed) < MaxTyped
  /\ typed' = Append(typed, c)
  /\ fifo' = Append(fifo, Len(typed) + 1)
  /\ UNCHANGED <<bot, host, pc, line, script>>

Keyboard == host = "keyboard" /\ \E c \in Letters \cup LineEnds : Type(c)

\* A random message as long as a line may be, and LF; then a line is read, the greeting
\* if it is before the answers, or no whole line comes in time, and what there is of it
\* is taken for the answer.
Asked == Len(typed) \div MSG_SIZE
Midway == Len(typed) % MSG_SIZE # 0
Message(k) == [i \in 1..(MSG_SIZE - 1) |-> ((k - 1) * MSG_SIZE) + i]
write ==
  /\ host = "check_echo" /\ (Midway \/ Asked = Len(got))
  /\ \E c \in Letters \cup {LF} :
       (c = LF) = (Len(typed) % MSG_SIZE = MSG_SIZE - 1) /\ Type(c)
Read == Cardinality({k \in 1..Len(got) : got[k] \notin {Nothing, Greeting}})
NextLine ==
  IF greeting THEN Greeting
  ELSE IF Read < Len(echoed) THEN echoed[Read + 1] ELSE Nothing
readline ==
  /\ host = "check_echo" /\ ~Midway /\ Len(got) < Asked
  /\ got' = Append(got, NextLine) /\ greeting' = FALSE
  /\ UNCHANGED <<bot, host, pc, typed, fifo, line>>

(***************************************************************************)
(* The interrupt handlers, which run once input is enabled.                *)
(***************************************************************************)
Enabled == pc \notin {"start", "over"}

\* The oldest message makes room.
Put_oldest(message) ==
  /\ IF pc = "pending" THEN tx_buf' = message /\ pc' = "print" /\ UNCHANGED msgq
     ELSE /\ msgq' = Append(IF Len(msgq) < QueueLen THEN msgq ELSE Tail(msgq), message)
          /\ UNCHANGED <<pc, tx_buf>>
  /\ UNCHANGED dropped
\* k_msgq_put with K_NO_WAIT: to the thread that waits, else into the queue, else
\* nowhere.
Put(message) ==
  \/ /\ pc = "pending"
     /\ tx_buf' = message /\ pc' = "print" /\ UNCHANGED <<msgq, dropped>>
  \/ /\ pc # "pending" /\ Len(msgq) < QueueLen
     /\ msgq' = Append(msgq, message) /\ UNCHANGED <<pc, tx_buf, dropped>>
  \/ /\ pc # "pending" /\ Len(msgq) = QueueLen
     /\ dropped' = dropped \cup {message[1]} /\ UNCHANGED <<pc, tx_buf, msgq>>

Store_full(c) == IF Len(rx_buf) < MSG_SIZE THEN Append(rx_buf, c) ELSE rx_buf
Store_short(c) == IF Len(rx_buf) < MSG_SIZE - 2 THEN Append(rx_buf, c) ELSE rx_buf
\* Room is kept for the terminator; the characters beyond are dropped.
Store(c) == IF Len(rx_buf) < MSG_SIZE - 1 THEN Append(rx_buf, c) ELSE rx_buf

\* rx_buf_pos is not reset.
serial_cb_kept ==
  /\ bot # "hello_at" /\ Enabled /\ fifo # <<>>
  /\ fifo' = Tail(fifo)
  /\ LET c == Head(fifo)
     IN  IF IsEnd(c) /\ rx_buf # <<>>
         THEN Put(rx_buf) /\ UNCHANGED rx_buf
         ELSE rx_buf' = Store(c) /\ UNCHANGED <<pc, msgq, tx_buf, dropped>>
  /\ UNCHANGED <<bot, host, typed, echoed, script>>
\* A line end is stored too when nothing was collected before it.
serial_cb ==
  /\ bot # "hello_at" /\ Enabled /\ fifo # <<>>
  /\ fifo' = Tail(fifo)
  /\ LET c == Head(fifo)
     IN  IF IsEnd(c) /\ rx_buf # <<>>
         THEN Put(rx_buf) /\ rx_buf' = <<>>
         ELSE rx_buf' = Store(c) /\ UNCHANGED <<pc, msgq, tx_buf, dropped>>
  /\ UNCHANGED <<bot, host, typed, echoed, script>>

uart_cb ==
  /\ bot = "hello_at" /\ Enabled /\ fifo # <<>>
  /\ fifo' = Tail(fifo)
  /\ LET c == Head(fifo)
     IN  IF IsEnd(c) THEN echoed' = Append(echoed, Store(c)) /\ rx_buf' = <<>>
                     ELSE rx_buf' = Store(c) /\ UNCHANGED echoed
  /\ UNCHANGED <<bot, host, pc, typed, msgq, tx_buf, dropped, script>>

(***************************************************************************)
(* The threads.                                                            *)
(***************************************************************************)

\* A device that is not ready, or a callback it does not take, ends main before it
\* enables input; echo_bot_two_uarts and hello_at do not look at the second.
start ==
  /\ pc = "start"
  /\ pc' \in {"over", "greet"}
  /\ UNCHANGED <<bot, host, typed, fifo, line, script>>

\* The greeting is printed with input enabled.  The script gets it, or the end of it, if
\* it has the port open by then, as it has when it has written.
greet ==
  /\ pc = "greet"
  /\ pc' = IF bot = "hello_at" THEN "sleep" ELSE "get"
  /\ greeting' \in IF host # "check_echo" THEN {FALSE}
                   ELSE IF typed # <<>> THEN {TRUE} ELSE BOOLEAN
  /\ UNCHANGED <<bot, host, typed, fifo, line, got>>

Receive == tx_buf' = Head(msgq) /\ msgq' = Tail(msgq) /\ pc' = "print"

\* K_NO_WAIT: main ends, its handler stays.
get_once ==
  /\ bot = "echo_bot" /\ pc = "get"
  /\ IF msgq # <<>> THEN Receive ELSE pc' = "sleep" /\ UNCHANGED <<msgq, tx_buf>>
  /\ UNCHANGED <<bot, host, typed, fifo, rx_buf, echoed, dropped, script>>
\* K_FOREVER.
get ==
  /\ bot = "echo_bot" /\ pc = "get"
  /\ IF msgq # <<>> THEN Receive ELSE pc' = "pending" /\ UNCHANGED <<msgq, tx_buf>>
  /\ UNCHANGED <<bot, host, typed, fifo, rx_buf, echoed, dropped, script>>

\* K_NO_WAIT: with nothing there the loop goes round, writing to uart0.
poll ==
  /\ bot = "echo_bot_two_uarts" /\ pc = "get"
  /\ IF msgq # <<>> THEN Receive ELSE UNCHANGED <<pc, msgq, tx_buf>>
  /\ UNCHANGED <<bot, host, typed, fifo, rx_buf, echoed, dropped, script>>

print_uart ==
  /\ pc = "print"
  /\ echoed' = Append(echoed, tx_buf)
  /\ tx_buf' = Nothing /\ pc' = "get"
  /\ UNCHANGED <<bot, host, typed, fifo, rx_buf, msgq, dropped, script>>

Handler == serial_cb \/ uart_cb
Thread == start \/ greet \/ get \/ poll \/ print_uart
Host == Keyboard \/ write \/ readline
\* Nothing is left to type, or nobody to read it.
Quiet == (Len(typed) = MaxTyped \/ pc = "over") /\ UNCHANGED vars

Next == Handler \/ Thread \/ Host \/ Quiet
Spec == Init /\ [][Next]_vars /\ WF_vars(Handler) /\ WF_vars(Thread)

(***************************************************************************)
(* Correctness.                                                            *)
(***************************************************************************)

\* Every variable keeps its type; the terminator is written inside rx_buf.
TypeOK ==
  /\ pc \in {"start", "greet", "get", "pending", "print", "sleep", "over"}
  /\ fifo \in Seq(1..MaxTyped) /\ Len(rx_buf) <= MSG_SIZE - 1
  /\ \A k \in 1..Len(msgq) : Len(msgq[k]) \in 1..(MSG_SIZE - 1)
  /\ Len(msgq) <= QueueLen /\ (pc = "print") = (tx_buf # Nothing)

\* The lines come back in order, each once and as typed, or are dropped whole: the
\* handler overwrites rx_buf, and the queue fills up, while the thread prints.
Taken == IF tx_buf = Nothing THEN msgq ELSE <<tx_buf>> \o msgq
Promise ==
  INSTANCE LineQueue WITH Size <- MSG_SIZE - 1, Capacity <- QueueLen + 1,
    first <- IF bot = "hello_at" THEN 0 ELSE 1, waiting <- Taken, shown <- echoed
LineQueueSpec == Promise!Spec

\* No line disappears without a trace: each that was read to its end is shown,
\* waits to be, or met a full queue, and is only one of these.
Accounted ==
  LET From(lines) == [k \in 1..Len(lines) |-> lines[k][1]]
      all == From(echoed) \o From(Taken)
  IN  /\ {all[k] : k \in 1..Len(all)} \cup dropped = Promise!Starts(Len(typed) - Len(fifo))
      /\ Len(all) + Cardinality(dropped) = Cardinality(Promise!Starts(Len(typed) - Len(fifo)))

\* A message in the queue is shown, whether the thread sleeps in k_msgq_get or polls.
Echoed ==
  \A s \in 1..MaxTyped :
    (\E k \in 1..Len(msgq) : msgq[k][1] = s) ~> (\E k \in 1..Len(echoed) : echoed[k][1] = s)

\* What check_echo.py expects: as long as no answer came late, every answer is the
\* message it asked for; or the first is the greeting, and then every one is the answer
\* to the message before (the queue has room for both), and none is the expected one.
InTime == \A k \in 1..Len(got) : got[k] # Nothing
Behind == IF got # <<>> /\ got[1] = Greeting THEN 1 ELSE 0
ExpectedResponse ==
  InTime => \A k \in (1 + Behind)..Len(got) : got[k] = Message(k - Behind)

\* A message is what was read until a line end was detected.
UntilLineEnd ==
  bot # "hello_at" =>
    \A k \in 1..Len(echoed) : \A i \in 1..Len(echoed[k]) : ~IsEnd(echoed[k][i])
=============================================================================
