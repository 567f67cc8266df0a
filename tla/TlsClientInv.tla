---------------------------- MODULE TlsClientInv ----------------------------
(***************************************************************************)
(* The inductive invariant behind the safety properties of TlsClient: what *)
(* is acquired is determined by the place and by the call that failed, the *)
(* buffers are there only between the exchange and cleanup, and the result *)
(* tells how far the client's responses got.  While there is a connection, *)
(* the invariant of the exchange holds (ChallengeInv).                     *)
(***************************************************************************)
EXTENDS TlsClient, ChallengeInv

Before == {"wait_for_dhcp"} \cup Setup
Leaving == Labels \cup {"returned"}

Owned ==
  CASE pc \in {"wait_for_dhcp", "socket"} -> {}
    [] pc = "connect" -> IF failed = "socket" THEN {} ELSE {"sock"}
    [] pc = "wolfSSL_Init" -> {"sock"}
    [] pc = "wolfSSL_CTX_new_ex" -> {"sock", "wolfssl"}
    [] pc \in {"configure", "wolfSSL_new", "ctx_cleanup"} -> {"sock", "wolfssl", "ctx"}
    [] pc = "socket_cleanup" -> {"sock"} \cup Kept
    [] pc \in {"end", "returned"} -> Kept
    [] OTHER -> Resources

\* The calls that can have failed on the way to a place.
Blamed ==
  /\ pc \notin Leaving => failed = "none" \/ (pc = "connect" /\ failed = "socket")
  /\ pc \in {"cleanup", "ctx_cleanup"} => failed \notin {"connect", "wolfSSL_CTX_new_ex"}
  /\ pc = "socket_cleanup" => failed # "connect"

\* The client's buffers are allocated in the exchange and freed in cleanup.
NoBuffers == \A f \in Functions : \A p \in PortionsOf(f) : data["client"][f][p] = NULL
Freed == pc \in Before \cup (Leaving \ {"cleanup"}) => NoBuffers

\* The client's place in its responses, and what was acknowledged to it.
Past(f, p) ==
  \/ at["client"].call > N + 1 + f
  \/ at["client"].call = N + 1 + f /\ at["client"].part > p
Acked(item) == \E k \in 1..Len(acked) : acked[k] = item
Progress ==
  \A f \in Functions : \A p \in 0..Last(f) : Acked(<<"server", f, p>>) <=> Past(f, p)

\* The exchange, as long as it can go on.
Exchanging == pc \notin Leaving => IInv /\ Progress

Told ==
  /\ pc = "exchange" => ret = "WOLFSSL_SUCCESS"
  /\ pc \in Closing => AllTaken
  /\ pc \in Leaving => /\ ret = "zero" => AllTaken
                       /\ ret = "WOLFSSL_SUCCESS" => ~AllTaken

ClientIInv ==
  /\ ClientTypeOK
  /\ held = Owned /\ Blamed /\ Freed
  /\ Exchanging /\ Told
=============================================================================
