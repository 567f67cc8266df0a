----------------------------- MODULE TlsClient -----------------------------
(***************************************************************************)
(* tls_client from main to its end: the network comes up (WifiBringup),    *)
(* one TLS session is set up, the exchange runs over it (ChallengeProto),  *)
(* a greeting follows, and the session is taken down again through the     *)
(* labels of test_socket_connection.                                       *)
(*                                                                         *)
(* Any call may fail.  The arguments of the calls are constants of the     *)
(* program; the four calls that configure the context fail the same way    *)
(* and are one.                                                            *)
(***************************************************************************)
EXTENDS ChallengeProto, WifiBringup

VARIABLES
  pc,      \* where main, then test_socket_connection, is
  held,    \* what the session has acquired and not released
  ret,     \* test_socket_connection's result so far
  failed   \* history: the call that failed, or "none"

session == <<pc, held, ret, failed>>
allVars == <<vars, bringup, session>>

Setup == {"socket", "connect", "wolfSSL_Init", "wolfSSL_CTX_new_ex", "configure",
          "wolfSSL_new", "wolfSSL_set_fd", "wolfSSL_connect"}
Closing == {"wolfSSL_write", "wolfSSL_read", "wolfSSL_shutdown", "peer_shutdown"}
Labels == {"cleanup", "ctx_cleanup", "socket_cleanup", "end"}
Resources == {"sock", "wolfssl", "ctx", "ssl"}

Following ==
  [socket |-> "connect", connect |-> "wolfSSL_Init",
   wolfSSL_Init |-> "wolfSSL_CTX_new_ex", wolfSSL_CTX_new_ex |-> "configure",
   configure |-> "wolfSSL_new", wolfSSL_new |-> "wolfSSL_set_fd",
   wolfSSL_set_fd |-> "wolfSSL_connect", wolfSSL_connect |-> "exchange",
   wolfSSL_write |-> "wolfSSL_read", wolfSSL_read |-> "wolfSSL_shutdown",
   wolfSSL_shutdown |-> "peer_shutdown", peer_shutdown |-> "cleanup"]

\* Where a failing call goes.  A socket that was not created is only logged.
Label_late(call) ==
  CASE call = "socket" -> "connect"
    [] call = "connect" -> "end"
    [] call = "wolfSSL_Init" -> "socket_cleanup"
    [] call \in {"wolfSSL_CTX_new_ex", "configure", "wolfSSL_new"} -> "ctx_cleanup"
    [] OTHER -> "cleanup"
Label(call) ==
  CASE call = "socket" -> "connect"
    [] call = "connect" -> "end"
    [] call \in {"wolfSSL_Init", "wolfSSL_CTX_new_ex"} -> "socket_cleanup"
    [] call \in {"configure", "wolfSSL_new"} -> "ctx_cleanup"
    [] OTHER -> "cleanup"

Acquires(call) ==
  CASE call = "socket" -> {"sock"}
    [] call = "wolfSSL_Init" -> {"wolfssl"}
    [] call = "wolfSSL_CTX_new_ex" -> {"ctx"}
    [] call = "wolfSSL_new" -> {"ssl"}
    [] OTHER -> {}

\* ret after a call that succeeds; some do not assign it.
Result(call) ==
  CASE call \in {"socket", "wolfSSL_CTX_new_ex", "wolfSSL_new"} -> ret
    [] call \in {"connect", "peer_shutdown"} -> "zero"
    [] call \in {"wolfSSL_write", "wolfSSL_read"} -> "length"
    [] OTHER -> "WOLFSSL_SUCCESS"

ClientInit ==
  /\ Init /\ BringupInit
  /\ pc = "wait_for_dhcp" /\ held = {} /\ ret = "none" /\ failed = "none"

\* An address of an interface that is still up.
wait_for_dhcp_up ==
  /\ boot = "over" /\ pc = "wait_for_dhcp"
  /\ address /\ wifi = "up"
  /\ pc' = "socket"
  /\ UNCHANGED <<vars, bringup, held, ret, failed>>
\* Any address will do, in any state, from any time.
wait_for_dhcp ==
  /\ boot = "over" /\ pc = "wait_for_dhcp"
  /\ address
  /\ pc' = "socket"
  /\ UNCHANGED <<vars, bringup, held, ret, failed>>

Succeeds(call) ==
  /\ call = "connect" => "sock" \in held /\ wifi = "up" /\ address
  /\ call = "wolfSSL_connect" => ~cut
  /\ pc' = Following[call]
  /\ held' = held \cup Acquires(call)
  /\ ret' = Result(call)
  /\ UNCHANGED failed
FailsAt(call) ==
  /\ pc' = Label(call)
  /\ ret' = IF call = "socket" THEN ret ELSE "error"
  /\ failed' = IF failed = "none" THEN call ELSE failed
  /\ UNCHANGED held

SetUp ==
  /\ pc \in Setup
  /\ Succeeds(pc) \/ FailsAt(pc)
  /\ UNCHANGED <<vars, bringup>>

\* The exchange: the client's calls, with the server's beside them.
Exchange ==
  /\ pc = "exchange"
  /\ Step("client")
  /\ UNCHANGED <<bringup, session>>

\* A failed sendResponse is logged only.
ExchangeOver_logged ==
  /\ pc = "exchange" /\ at["client"].pc = "done"
  /\ pc' = "wolfSSL_write"
  /\ UNCHANGED <<vars, bringup, held, ret, failed>>
\* A failed sendResponse leaves ret as the handshake set it.
ExchangeOver ==
  /\ pc = "exchange" /\ at["client"].pc = "done"
  /\ IF at["client"].call > Len(Calls("client"))
     THEN pc' = "wolfSSL_write" /\ UNCHANGED failed
     ELSE pc' = "cleanup" /\ failed' = "sendResponse"
  /\ UNCHANGED <<vars, bringup, held, ret>>

\* The reply and the peer's close come from a server that is through with the
\* exchange, or the call is told of a break (perhaps never: OnNetwork).  How the
\* shutdown ends is ignored.
ServerAnswers == cut \/ Ended("server")
Close ==
  /\ pc \in Closing
  /\ pc \in {"wolfSSL_read", "peer_shutdown"} => ServerAnswers
  /\ Succeeds(pc) \/ (pc \in {"wolfSSL_write", "wolfSSL_read"} /\ FailsAt(pc))
  /\ UNCHANGED <<vars, bringup>>

(***************************************************************************)
(* The labels.                                                             *)
(***************************************************************************)
freeFunc == [data EXCEPT !["client"] =
               [f \in Functions |-> [p \in PortionsOf(f) |-> NULL]]]

cleanup ==
  /\ pc = "cleanup" /\ pc' = "ctx_cleanup"
  /\ held' = held \ {"ssl"}
  /\ data' = freeFunc
  /\ UNCHANGED <<at, buffer, func, chan, cut, ok, history, bringup, ret, failed>>
ReleaseAt_ctx(label) ==
  CASE label = "ctx_cleanup" -> {"ctx"}
    [] label = "socket_cleanup" -> {"sock"}
    [] label = "end" -> {}
ReleaseAt(label) ==
  CASE label = "ctx_cleanup" -> {"ctx", "wolfssl"}
    [] label = "socket_cleanup" -> {"sock"}
    [] label = "end" -> {}
Release ==
  /\ pc \in {"ctx_cleanup", "socket_cleanup", "end"}
  /\ pc' = CASE pc = "ctx_cleanup" -> "socket_cleanup"
             [] pc = "socket_cleanup" -> "end"
             [] pc = "end" -> "returned"
  /\ held' = held \ ReleaseAt(pc)
  /\ UNCHANGED <<vars, bringup, ret, failed>>

\* The server's program begins with the handshake.
Server ==
  /\ pc \in {"exchange"} \cup Closing
  /\ Step("server")
  /\ UNCHANGED <<bringup, session>>

\* There is a TCP connection.
Connected == pc \in (Setup \ {"socket", "connect"}) \cup {"exchange"} \cup Closing
ConnectionBreaks == Connected /\ Cut /\ UNCHANGED <<bringup, session>>

\* The connection does not survive the interface or its address; whether a call that
\* waits on it is ever told is another matter.
NetworkStep ==
  /\ Network
  /\ LET loss == (wifi = "up" /\ wifi' = "lost") \/ (address /\ ~address')
     IN  IF Connected /\ ~cut /\ loss THEN Cut ELSE UNCHANGED vars
  /\ UNCHANGED session

Client ==
  \/ Main /\ UNCHANGED <<vars, session>>
  \/ wait_for_dhcp \/ SetUp \/ Exchange \/ ExchangeOver \/ Close
  \/ cleanup \/ Release

\* Nothing is left to run: main returned, faulted, or waits in vain.
Stopped ==
  \/ pc = "returned" \/ at["client"].pc = "fault"
  \/ pc = "wait_for_dhcp" /\ ~address /\ wifi \in {"refused", "lost"}

ClientNext ==
  \/ Client \/ Server \/ ConnectionBreaks \/ NetworkStep
  \/ Stopped /\ UNCHANGED allVars

\* The client is in a call without a time limit that only the server's handshake or the
\* report of a break gets it out of.
OnNetwork ==
  \/ pc \in {"connect", "wolfSSL_connect"}
  \/ pc = "exchange" /\ Cutoff("client")
  \/ pc \in {"wolfSSL_read", "peer_shutdown"} /\ cut
ClientSpec ==
  /\ ClientInit /\ [][ClientNext]_allVars
  /\ WF_allVars(Client /\ ~OnNetwork) /\ WF_allVars(Server /\ ~Cutoff("server"))
\* Not part of ClientSpec: the server may be silent, and so may a break.
NetworkAnswers == WF_allVars(Client /\ OnNetwork)

(***************************************************************************)
(* Correctness.                                                            *)
(***************************************************************************)

\* Every variable keeps its type.
ClientTypeOK ==
  /\ TypeOK /\ BringupTypeOK
  /\ pc \in {"wait_for_dhcp", "exchange", "returned"} \cup Setup \cup Closing \cup Labels
  /\ held \subseteq Resources
  /\ ret \in {"none", "zero", "length", "WOLFSSL_SUCCESS", "error"}
  /\ failed \in {"none", "sendResponse"} \cup Setup \cup Closing

\* No label releases what was not acquired, whichever call jumped to it: the
\* pointers it frees are uninitialised until their call.
LabelsHold ==
  /\ pc = "cleanup" => held = Resources
  /\ pc = "ctx_cleanup" => {"sock", "wolfssl", "ctx"} \subseteq held
  /\ pc = "socket_cleanup" => "sock" \in held

\* Everything is released on every way out but two: a failed connect keeps the
\* socket, a context that could not be made the library's initialisation.
Kept == CASE failed = "connect" -> {"sock"}
          [] failed = "wolfSSL_CTX_new_ex" -> {"wolfssl"}
          [] OTHER -> {}
NothingElseKept ==
  pc = "returned" =>
    /\ held = Kept
    /\ \A f \in Functions : \A p \in PortionsOf(f) : data["client"][f][p] = NULL

\* The server acknowledged every response.
AllTaken ==
  {<<"server", f, p>> : f \in Functions, p \in {0}}
    \cup UNION {{<<"server", f, p>> : p \in PortionsOf(f)} : f \in Functions}
  \subseteq {acked[k] : k \in 1..Len(acked)}

\* What a caller may conclude from the result: zero only when every response was
\* acknowledged, whatever was lost or failed on the way; WOLFSSL_SUCCESS, of all
\* things, only when not (the server may have taken them all, and the last
\* acknowledgement be lost).
ReturnTells ==
  pc = "returned" => /\ ret = "zero" => AllTaken
                     /\ ret = "WOLFSSL_SUCCESS" => ~AllTaken

\* A session that has begun returns or faults, or it stays for ever in one of the calls
\* the code gives it no way out of: one that a silent server or a silent break leaves
\* waiting, or the mutual wait on a sound connection (after a lost allocation:
\* MutualWaitNeedsLoss).  When the network answers only the last is left, and a
\* connection that breaks at any point ends the session too.
MutualWait == pc = "exchange" /\ ~cut /\ \A s \in Side : Waiting(s)
SessionOver == pc = "returned" \/ at["client"].pc = "fault"
SessionEnds ==
  /\ (pc # "wait_for_dhcp") ~> (SessionOver \/ [](OnNetwork \/ MutualWait))
  /\ NetworkAnswers => ((pc # "wait_for_dhcp") ~> (SessionOver \/ []MutualWait))

\* An address that stays starts the session, although main ignores what became of
\* its request to connect and polls without a limit.
Starts == <>[]address => <>(pc # "wait_for_dhcp")
=============================================================================
