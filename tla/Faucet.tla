------------------------------- MODULE Faucet -------------------------------
(***************************************************************************)
(* POST /drip of the faucet service (services/faucet/src/routes.rs): the   *)
(* limiter of RateLimiter, then nonce, fees, signing and submission, with  *)
(* an await between any two of them, under the timeout layer of main.rs.   *)
(* The node is external: its account nonce, its pool with one transaction  *)
(* per nonce, and submissions that may arrive after the handler is gone.   *)
(* Requests refused for their address change nothing and are left out.     *)
(***************************************************************************)
EXTENDS RateLimiter

CONSTANT Fee     \* fee levels; only a higher one replaces a pooled transaction

VARIABLES
  handler,   \* the drip handlers: where they await, and what they hold
  sending,   \* submissions on their way to the node
  pool,      \* the node's transactions of the faucet, by nonce
  mined,     \* the account nonce of the faucet
  paid       \* the grants paid out so far, in block order

nodeVars == <<sending, pool, mined, paid>>
vars == <<limiterVars, handler, nodeVars>>

Idle == [pc |-> "idle", grant |-> 0, nonce |-> 0]

At(r, pc) == handler[r].pc = pc

Init ==
  /\ LimiterInit
  /\ handler = [r \in Request |-> Idle]
  /\ sending = {} /\ pool = <<>> /\ mined = 0 /\ paid = <<>>

\* a request with a valid address enters check_and_record
Drip(r, ip, to) ==
  /\ At(r, "idle")
  /\ Call(r, ip, to)
  /\ handler' = [handler EXCEPT ![r].pc = "limiter"]
  /\ UNCHANGED nodeVars

\* check_and_record returns; a denial is answered with 429
CheckLimits(r) ==
  /\ At(r, "limiter")
  /\ CheckAndRecord(r)
  /\ handler' = [handler EXCEPT ![r] =
                   IF Granted(call[r])
                     THEN [pc |-> "nonce", grant |-> Len(grants) + 1, nonce |-> 0]
                     ELSE Idle]
  /\ UNCHANGED nodeVars

\* the nonce after the consecutive ones of a pool from m on
NextNonce(m, nonces) ==
  CHOOSE n \in m..m + Cardinality(nonces) : n \notin nonces /\ m..(n - 1) \subseteq nonces

\* the nonce that eth_getTransactionCount reports for the pending block
PendingNonce == NextNonce(mined, DOMAIN pool)

FetchNonce(r) ==
  /\ At(r, "nonce")
  /\ handler' = [handler EXCEPT ![r].pc = "fees", ![r].nonce = PendingNonce]
  /\ UNCHANGED <<limiterVars, nodeVars>>

\* variation: the handler stays where it can submit once more
SendAgain(r) ==
  /\ At(r, "fees")
  /\ \E fee \in Fee :
       sending' = sending \cup {[grant |-> handler[r].grant, nonce |-> PendingNonce, fee |-> fee]}
  /\ UNCHANGED <<limiterVars, handler, pool, mined, paid>>

\* estimate the fees, build the transaction and submit it
Send(r) ==
  /\ At(r, "fees")
  /\ \E fee \in Fee :
       sending' = sending \cup {[grant |-> handler[r].grant, nonce |-> handler[r].nonce, fee |-> fee]}
  /\ handler' = [handler EXCEPT ![r].pc = "sent"]
  /\ UNCHANGED <<limiterVars, pool, mined, paid>>

\* an await ends with an error (500) or, after submission, with the hash (200)
Answer(r) ==
  /\ handler[r].pc \in {"nonce", "fees", "sent"}
  /\ handler' = [handler EXCEPT ![r] = Idle]
  /\ UNCHANGED <<limiterVars, nodeVars>>

\* the timeout layer drops the handler at whatever await it is in
Timeout(r) ==
  /\ ~At(r, "idle")
  /\ handler' = [handler EXCEPT ![r] = Idle]
  /\ call' = [call EXCEPT ![r] = None]
  /\ UNCHANGED <<clock, history, last, grants, nodeVars>>

----------------------------------------------------------------------------
\* the node's pool accepts a submission with a new nonce, one behind a gap included, or a
\* replacement whose fee is above the price bump, which is what a higher Fee stands for
NodeReceives(x) ==
  /\ x \in sending
  /\ sending' = sending \ {x}
  /\ pool' = IF x.nonce < mined \/ (x.nonce \in DOMAIN pool /\ x.fee <= pool[x.nonce].fee)
               THEN pool
               ELSE [n \in DOMAIN pool \cup {x.nonce} |->
                       IF n = x.nonce THEN [grant |-> x.grant, fee |-> x.fee] ELSE pool[n]]
  /\ UNCHANGED <<limiterVars, handler, mined, paid>>

\* a block includes the next transaction of the faucet
NodeMines ==
  /\ mined \in DOMAIN pool
  /\ paid' = Append(paid, pool[mined].grant)
  /\ pool' = [n \in DOMAIN pool \ {mined} |-> pool[n]]
  /\ mined' = mined + 1
  /\ UNCHANGED <<limiterVars, handler, sending>>

Next ==
  \/ Elapse /\ UNCHANGED <<handler, nodeVars>>
  \/ \E r \in Request :
       \/ \E ip \in Ip, to \in Address : Drip(r, ip, to)
       \/ CheckLimits(r)
       \/ FetchNonce(r)
       \/ Send(r)
       \/ Answer(r)
       \/ Timeout(r)
  \/ \E x \in sending : NodeReceives(x)
  \/ NodeMines

Spec == Init /\ [][Next]_vars

----------------------------------------------------------------------------
FaucetTypeOK ==
  /\ handler \in [Request -> [pc : {"idle", "limiter", "nonce", "fees", "sent"},
                               grant : 0..Len(grants), nonce : Nat]]
  /\ sending \subseteq [grant : 1..Len(grants), nonce : Nat, fee : Fee]
  /\ mined \in Nat /\ DOMAIN pool \subseteq Nat /\ IsFiniteSet(DOMAIN pool)
  /\ \A n \in DOMAIN pool : pool[n] \in [grant : 1..Len(grants), fee : Fee]
  /\ paid \in Seq(1..Len(grants))

\* a handler that may still submit a transaction
Unsent(r) == At(r, "nonce") \/ At(r, "fees")

\* where a grant is: with its handler, on its way to the node, or in its pool
GrantsHeld == {handler[r].grant : r \in {q \in Request : Unsent(q)}}
GrantsSent == {x.grant : x \in sending}
GrantsPooled == {pool[n].grant : n \in DOMAIN pool}
GrantsPaid == {paid[i] : i \in 1..Len(paid)}

\* A grant is in one place at a time, and there once: no step of a handler or
\* of the node copies it.
GrantInOnePlace ==
  /\ \A q, r \in Request :
       Unsent(q) /\ Unsent(r) /\ handler[q].grant = handler[r].grant => q = r
  /\ \A x, y \in sending : x.grant = y.grant => x = y
  /\ \A m, n \in DOMAIN pool : pool[m].grant = pool[n].grant => m = n
  /\ \A i, j \in 1..Len(paid) : paid[i] = paid[j] => i = j
  /\ \A r \in Request : Unsent(r) => handler[r].grant # 0
  /\ GrantsHeld \cap (GrantsSent \cup GrantsPooled \cup GrantsPaid) = {}
  /\ GrantsSent \cap (GrantsPooled \cup GrantsPaid) = {}
  /\ GrantsPooled \cap GrantsPaid = {}

\* the pending nonce never falls, so none that a handler was told is above it
NoncesTold ==
  /\ PendingNonce \in Nat /\ mined <= PendingNonce
  /\ \A r \in Request : At(r, "fees") => handler[r].nonce <= PendingNonce

(***************************************************************************)
(* The chain pays every grant at most once, and payments to one recipient  *)
(* were granted at least the cooldown apart, however handlers time out and *)
(* their submissions are replaced, delayed or refused.                     *)
(***************************************************************************)
PaidWithinCooldown ==
  \A i, j \in 1..Len(paid) :
    i < j =>
      /\ paid[i] # paid[j]
      /\ grants[paid[i]].to = grants[paid[j]].to =>
           \/ grants[paid[i]].at >= grants[paid[j]].at + Cooldown
           \/ grants[paid[j]].at >= grants[paid[i]].at + Cooldown

(***************************************************************************)
(* No transaction of the faucet ever waits behind a missing nonce: since   *)
(* drip asks for the pending nonce and a handler may end without sending,  *)
(* the pool and everything on its way to it stay gapless.                  *)
(***************************************************************************)
NonceGapless ==
  /\ DOMAIN pool = mined..(PendingNonce - 1)
  /\ \A x \in sending : x.nonce <= PendingNonce

(***************************************************************************)
(* The inductive invariant of the service: that of the limiter, and for    *)
(* what drip does after check_and_record, that every grant it was given is *)
(* in one place and every nonce it was told is used or next.               *)
(***************************************************************************)
FaucetInv == LimiterInv /\ FaucetTypeOK /\ GrantInOnePlace /\ NoncesTold /\ NonceGapless
=============================================================================
