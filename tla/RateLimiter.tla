---------------------------- MODULE RateLimiter ----------------------------
(***************************************************************************)
(* The faucet's rate limiter (services/faucet/src/limiter.rs).  A call of  *)
(* check_and_record reads the clock first and takes the mutex afterwards,  *)
(* so calls may be served in another order than that of their instants.    *)
(* Nothing awaits inside the critical section: it is one step.             *)
(***************************************************************************)
EXTENDS Integers, Sequences, FiniteSets

CONSTANTS
  Request,      \* the calls that can be under way at once
  Ip, Address,
  Limit,        \* per_ip_limit
  Window,       \* IP_WINDOW
  Cooldown,     \* per_address_cooldown
  LockWait,     \* bound on the time between reading the clock and the mutex
  MaxTime,      \* bound on the clock
  MaxGrants,    \* bound on the grants of a behaviour
  None

ASSUME LimiterAssumption ==
  /\ Limit \in Nat /\ Window \in Nat /\ Cooldown \in Nat
  /\ LockWait \in Nat /\ MaxTime \in Nat /\ MaxGrants \in Nat
  /\ None \notin Nat

VARIABLES
  clock,
  call,      \* the calls waiting for the mutex, with the instant they read
  history,   \* ip_history, each instant named by the grant that recorded it
  last,      \* address_last
  grants     \* every grant so far, in the order of the critical sections

limiterVars == <<clock, call, history, last, grants>>

\* Instant::duration_since, which is zero for an earlier instant
DurationSince(now, t) == IF now >= t THEN now - t ELSE 0

Grant == [ip : Ip, to : Address, at : Nat]

TypeOK ==
  /\ clock \in Nat
  /\ call \in [Request -> Grant \cup {None}]
  /\ history \in [Ip -> SUBSET (1..Len(grants))]
  /\ last \in [Address -> Nat \cup {None}]
  /\ grants \in Seq(Grant)

----------------------------------------------------------------------------
\* the history of the caller's address that is still in its window
Kept(c) == {i \in history[c.ip] : DurationSince(c.at, grants[i].at) <= Window}

\* the recipient has no grant, or its cooldown is over
Cool(c) == last[c.to] # None => DurationSince(c.at, last[c.to]) >= Cooldown

Granted(c) == Cardinality(Kept(c)) < Limit /\ Cool(c)

----------------------------------------------------------------------------
LimiterInit ==
  /\ clock = 0
  /\ call = [r \in Request |-> None]
  /\ history = [i \in Ip |-> {}]
  /\ last = [a \in Address |-> None]
  /\ grants = <<>>

\* check_and_record is called and reads the clock
Call(r, ip, to) ==
  /\ call[r] = None
  /\ Len(grants) < MaxGrants
  /\ call' = [call EXCEPT ![r] = [ip |-> ip, to |-> to, at |-> clock]]
  /\ UNCHANGED <<clock, history, last, grants>>

\* variation: a denied call of an earlier instant moves the cooldown back
CheckAndRecordLastFirst(r) ==
  LET c == call[r]
  IN  /\ c # None
      /\ history' = [history EXCEPT ![c.ip] =
                       IF Granted(c) THEN Kept(c) \cup {Len(grants) + 1} ELSE Kept(c)]
      /\ last' = [last EXCEPT ![c.to] = c.at]
      /\ grants' = IF Granted(c) THEN Append(grants, c) ELSE grants
      /\ call' = [call EXCEPT ![r] = None]
      /\ UNCHANGED clock

\* variation: one grant too many fits in the window
CheckAndRecordOffByOne(r) ==
  LET c == call[r]
      granted == Cardinality(Kept(c)) <= Limit /\ Cool(c)
  IN  /\ c # None
      /\ history' = [history EXCEPT ![c.ip] =
                       IF granted THEN Kept(c) \cup {Len(grants) + 1} ELSE Kept(c)]
      /\ last' = IF granted THEN [last EXCEPT ![c.to] = c.at] ELSE last
      /\ grants' = IF granted THEN Append(grants, c) ELSE grants
      /\ call' = [call EXCEPT ![r] = None]
      /\ UNCHANGED clock

\* the critical section of check_and_record; a denial still prunes the history
CheckAndRecord(r) ==
  LET c == call[r]
  IN  /\ c # None
      /\ history' = [history EXCEPT ![c.ip] =
                       IF Granted(c) THEN Kept(c) \cup {Len(grants) + 1} ELSE Kept(c)]
      /\ last' = IF Granted(c) THEN [last EXCEPT ![c.to] = c.at] ELSE last
      /\ grants' = IF Granted(c) THEN Append(grants, c) ELSE grants
      /\ call' = [call EXCEPT ![r] = None]
      /\ UNCHANGED clock

\* time passes, but no call waits for the mutex longer than LockWait
Elapse ==
  /\ clock < MaxTime
  /\ \A r \in Request : call[r] # None => clock < call[r].at + LockWait
  /\ clock' = clock + 1
  /\ UNCHANGED <<call, history, last, grants>>

LimiterNext ==
  \/ Elapse
  \/ \E r \in Request : CheckAndRecord(r) \/ \E ip \in Ip, to \in Address : Call(r, ip, to)

LimiterSpec == LimiterInit /\ [][LimiterNext]_limiterVars

----------------------------------------------------------------------------
(***************************************************************************)
(* Two grants to one recipient lie at least the cooldown apart, in         *)
(* whichever order check_and_record served their calls ("at most one drip  *)
(* per per_address_cooldown per EVM address").                             *)
(***************************************************************************)
CooldownHolds ==
  \A i, j \in 1..Len(grants) :
    i < j /\ grants[i].to = grants[j].to =>
      Cooldown = 0 \/ grants[j].at >= grants[i].at + Cooldown

\* address_last holds the latest grant to each recipient, and nothing else
LastIsLatest ==
  \A a \in Address :
    LET to == {i \in 1..Len(grants) : grants[i].to = a}
    IN  IF last[a] = None THEN to = {}
        ELSE /\ \E i \in to : grants[i].at = last[a]
             /\ Cooldown = 0 \/ \A i \in to : grants[i].at <= last[a]

\* no call is of the future, or waits for the mutex longer than LockWait
CallsTimely ==
  /\ \A r \in Request : call[r] # None => call[r].at <= clock /\ clock <= call[r].at + LockWait
  /\ \A i \in 1..Len(grants) : grants[i].at <= clock

\* ip_history has lost only grants that are too old for every call still to come,
\* up to the time a call may wait
HistoryCovers ==
  \A i \in 1..Len(grants) : i \in history[grants[i].ip] \/ grants[i].at + Window < clock

HistoryIsOwn == \A ip \in Ip : \A i \in history[ip] : grants[i].ip = ip

(***************************************************************************)
(* The inductive invariant behind both policies: address_last, which is    *)
(* all that check_and_record remembers of a recipient, is its latest grant *)
(* even though instants may be recorded out of order, and ip_history has   *)
(* every grant that can still count.                                       *)
(***************************************************************************)
LimiterInv ==
  TypeOK /\ LastIsLatest /\ CooldownHolds /\ CallsTimely /\ HistoryCovers /\ HistoryIsOwn

\* the grants to ip in the window of length w that ends at instant t
GrantsIn(ip, t, w) ==
  {i \in 1..Len(grants) : /\ grants[i].ip = ip
                          /\ grants[i].at <= t /\ t - grants[i].at <= w}

(***************************************************************************)
(* No address gets more than Limit grants within any window shorter by     *)
(* LockWait than IP_WINDOW: the skew between the clock and the mutex is    *)
(* all that the sliding window of check_and_record can lose.               *)
(***************************************************************************)
IpLimitUpToSkew ==
  \A ip \in Ip, t \in 0..clock :
    Cardinality(GrantsIn(ip, t, Window - LockWait)) <= Limit

(***************************************************************************)
(* A call is denied only for grants that were really made: Limit of them   *)
(* to its address within the window, or one to its recipient within the    *)
(* cooldown.  Denied calls never count (rejected_drip_does_not_commit_     *)
(* ip_hit).                                                                *)
(***************************************************************************)
DenialJustified ==
  \A r \in Request :
    LET c == call[r]
        made == 1..Len(grants)
    IN  CheckAndRecord(r) /\ grants' = grants =>
          \/ Cardinality({i \in made : /\ grants[i].ip = c.ip
                                       /\ DurationSince(c.at, grants[i].at) <= Window}) >= Limit
          \/ \E i \in made : /\ grants[i].to = c.to
                             /\ DurationSince(c.at, grants[i].at) < Cooldown

(***************************************************************************)
(* check_and_record is neither more generous nor stricter than its policy, *)
(* up to the skew between the clock and the mutex.                         *)
(***************************************************************************)
LimitsExact == [][IpLimitUpToSkew' /\ DenialJustified]_limiterVars

(***************************************************************************)
(* The per-IP policy as limiter.rs states it: "at most per_ip_limit drips  *)
(* within a rolling 1-hour window".                                        *)
(***************************************************************************)
IpLimit ==
  \A ip \in Ip, t \in 0..clock : Cardinality(GrantsIn(ip, t, Window)) <= Limit
=============================================================================
