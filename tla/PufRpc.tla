------------------------------- MODULE PufRpc -------------------------------
(***************************************************************************)
(* What challenge_puf (pufcaller.c) promises its caller, with the shared   *)
(* page, the doorbells and the sleeps abstracted away: the TA opens one    *)
(* session, runs the three functions once each and in order, each after    *)
(* the one before has returned to the client, and a function that it ran   *)
(* well returns its result.                                                *)
(***************************************************************************)
EXTENDS Integers

Functions == <<"init", "commit", "proofs">>
Invoked == {"init", "commit", "proofs"}

VARIABLES
  verdict,    \* how the TA ended each call, "none" before it did
  returned,   \* what the caller got from each function
  status      \* what challenge_puf returned, "none" before it does

rpc_vars == <<verdict, returned, status>>

RpcInit ==
  /\ verdict = [c \in Invoked \cup {"open", "close"} |-> "none"]
  /\ returned = [c \in Invoked |-> "pending"]
  /\ status = "none"

\* No driver: nothing is ever asked of the TA.
GiveUp ==
  /\ status = "none" /\ verdict["open"] = "none"
  /\ status' = "err"
  /\ UNCHANGED <<verdict, returned>>

\* A session is granted or refused.
Open(v) ==
  /\ status = "none" /\ verdict["open"] = "none"
  /\ verdict' = [verdict EXCEPT !["open"] = v]
  /\ UNCHANGED <<returned, status>>

\* The n-th function runs once, when all before it have returned.
Execute(n, v) ==
  LET c == Functions[n] IN
  /\ verdict[c] = "none" /\ verdict["open"] # "none"
  /\ v = "ok" => verdict["open"] = "ok"
  /\ \A m \in 1..(n - 1) : returned[Functions[m]] # "pending"
  /\ verdict' = [verdict EXCEPT ![c] = v]
  /\ UNCHANGED <<returned, status>>

\* It returns: its result if it ran well, anything if it failed.
Return(c, r) ==
  /\ returned[c] = "pending" /\ verdict[c] # "none"
  /\ verdict[c] = "ok" => r = "result"
  /\ returned' = [returned EXCEPT ![c] = r]
  /\ UNCHANGED <<verdict, status>>

\* challenge_puf returns when the three results are in ...
Finish ==
  /\ status = "none" /\ \A c \in Invoked : returned[c] # "pending"
  /\ status' = "ok"
  /\ UNCHANGED <<verdict, returned>>

\* ... and the TA closes the session on its own time.
Close(v) ==
  /\ status = "ok" /\ verdict["close"] = "none"
  /\ verdict' = [verdict EXCEPT !["close"] = v]
  /\ UNCHANGED <<returned, status>>

RpcNext ==
  \/ GiveUp \/ Finish
  \/ \E v \in {"ok", "err"} : Open(v) \/ Close(v) \/ \E n \in 1..3 : Execute(n, v)
  \/ \E c \in Invoked, r \in {"result", "other"} : Return(c, r)

RpcSpec == RpcInit /\ [][RpcNext]_rpc_vars
=============================================================================
