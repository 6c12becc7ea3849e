---------------------------- MODULE Faucet_proofs ----------------------------
(***************************************************************************)
(* Proofs about the faucet, for every number of handlers, addresses and    *)
(* recipients and every limit, window, cooldown and lock delay: that the   *)
(* limiter keeps both of its policies, that no grant is paid twice and     *)
(* that the nonces of the faucet have no gap.                              *)
(***************************************************************************)
EXTENDS Faucet, SequenceTheorems, FiniteSetTheorems, TLAPS

----------------------------------------------------------------------------
(* The limiter.                                                             *)

\* check_and_record finds nothing to compare with in the initial state
LEMMA LimiterInitInv == LimiterInit => LimiterInv
  BY LimiterAssumption
  DEF LimiterInit, LimiterInv, TypeOK, LastIsLatest, CooldownHolds, CallsTimely, HistoryCovers,
      HistoryIsOwn, Grant

LEMMA GrantTypes ==
  ASSUME LimiterInv
  PROVE  /\ Len(grants) \in Nat
         /\ \A i \in 1..Len(grants) :
              /\ grants[i] \in Grant
              /\ grants[i].ip \in Ip /\ grants[i].to \in Address /\ grants[i].at \in Nat
  <1>1. grants \in Seq(Grant)
    BY Zenon DEF LimiterInv, TypeOK
  <1>2. \A i \in 1..Len(grants) : grants[i] \in Grant
    BY <1>1
  <1> QED
    BY <1>1, <1>2 DEF Grant

\* the critical section drops only grants older than the window of its call
LEMMA KeptFacts ==
  ASSUME LimiterInv, NEW r \in Request, call[r] # None
  PROVE  LET c == call[r] IN
         /\ c \in Grant /\ c.ip \in Ip /\ c.to \in Address /\ c.at \in Nat
         /\ Kept(c) \subseteq history[c.ip] /\ Kept(c) \subseteq 1..Len(grants)
         /\ IsFiniteSet(Kept(c)) /\ Cardinality(Kept(c)) \in Nat
         /\ \A i \in history[c.ip] : i \in Kept(c) \/ grants[i].at + Window < c.at
  <1> DEFINE c == call[r]
  <1>1. c \in Grant /\ c.ip \in Ip /\ c.to \in Address /\ c.at \in Nat
    BY Zenon DEF LimiterInv, TypeOK, Grant
  <1>2. history[c.ip] \subseteq 1..Len(grants) /\ Len(grants) \in Nat
    BY <1>1 DEF LimiterInv, TypeOK
  <1>3. \A i \in 1..Len(grants) : grants[i].at \in Nat
    BY Zenon, GrantTypes
  <1> HIDE DEF c
  <1>4. Kept(c) \subseteq history[c.ip] /\ Kept(c) \subseteq 1..Len(grants)
    BY Zenon, <1>2 DEF Kept
  <1>5. IsFiniteSet(Kept(c)) /\ Cardinality(Kept(c)) \in Nat
    <2>1. IsFiniteSet(1..Len(grants))
      BY GrantTypes, FS_Interval
    <2>2. Kept(c) \in SUBSET (1..Len(grants))
      BY Zenon, <1>4
    <2>3. IsFiniteSet(Kept(c))
      BY Zenon, <2>1, <2>2, FS_Subset
    <2> QED
      BY Zenon, <2>3, FS_CardinalityType
  <1>6. \A i \in history[c.ip] : i \in Kept(c) \/ grants[i].at + Window < c.at
    BY <1>1, <1>2, <1>3, LimiterAssumption DEF Kept, DurationSince
  <1> QED
    BY Zenon, <1>1, <1>4, <1>5, <1>6 DEF c

\* a granted call extends the grants and address_last by its own instant
LEMMA GrantKeepsInv ==
  ASSUME LimiterInv, NEW r \in Request, CheckAndRecord(r), Granted(call[r])
  PROVE  LimiterInv'
  <1> DEFINE c == call[r]
             n == Len(grants)
  <1>0. c # None
    BY Zenon DEF CheckAndRecord
  <1>1. c \in Grant /\ c.to \in Address /\ c.at \in Nat /\ c.ip \in Ip
    BY Zenon, <1>0, KeptFacts
  <1>2. grants \in Seq(Grant) /\ n \in Nat
    BY DEF LimiterInv, TypeOK
  <1>3. grants' = Append(grants, c)
    BY Zenon DEF CheckAndRecord
  <1>4. /\ grants' \in Seq(Grant)
        /\ Len(grants') = n + 1
        /\ \A i \in 1..n : grants'[i] = grants[i]
        /\ grants'[n + 1] = c
    BY <1>1, <1>2, <1>3, AppendProperties
  <1>5. last' = [last EXCEPT ![c.to] = c.at]
    BY Zenon DEF CheckAndRecord
  <1>6. last \in [Address -> Nat \cup {None}]
    BY Zenon DEF LimiterInv, TypeOK
  <1>7. \A i \in 1..n : grants[i].to \in Address /\ grants[i].at \in Nat
    <2>1. \A i \in 1..n : grants[i] \in Grant
      BY <1>2
    <2> QED
      BY Zenon, <2>1 DEF Grant
  <1>8. \A i \in 1..n :
          grants[i].to = c.to => Cooldown = 0 \/ c.at >= grants[i].at + Cooldown
    <2> SUFFICES ASSUME NEW i \in 1..n, grants[i].to = c.to, Cooldown # 0
                 PROVE  c.at >= grants[i].at + Cooldown
      BY Zenon
    <2>1. last[c.to] # None /\ grants[i].at <= last[c.to]
      BY Zenon, <1>1 DEF LimiterInv, LastIsLatest
    <2>2. last[c.to] \in Nat
      BY Zenon, <1>1, <1>6, <2>1
    <2>3. DurationSince(c.at, last[c.to]) >= Cooldown
      BY Zenon, <2>1 DEF Granted, Cool
    <2> QED
      BY SMTT(30), <1>1, <1>7, <2>1, <2>2, <2>3, LimiterAssumption DEF DurationSince
  <1>12. history' = [history EXCEPT ![c.ip] = Kept(c) \cup {n + 1}]
    BY Zenon DEF CheckAndRecord
  <1>13. /\ history \in [Ip -> SUBSET (1..n)]
         /\ Kept(c) \subseteq history[c.ip] /\ Kept(c) \subseteq 1..n
         /\ \A i \in history[c.ip] : i \in Kept(c) \/ grants[i].at + Window < c.at
    BY Zenon, <1>0, KeptFacts DEF LimiterInv, TypeOK
  <1>14. call' = [call EXCEPT ![r] = None] /\ clock' = clock
    BY Zenon DEF CheckAndRecord
  <1>15. clock \in Nat /\ c.at <= clock
    BY Zenon, <1>0 DEF LimiterInv, CallsTimely, TypeOK
  <1> HIDE DEF c, n
  <1>9. TypeOK'
    <2>1. history' \in [Ip -> SUBSET (1..(n + 1))]
      BY <1>1, <1>2, <1>12, <1>13
    <2> QED
      BY Zenon, <1>1, <1>4, <1>5, <1>6, <1>14, <2>1 DEF LimiterInv, TypeOK
  <1>16. CallsTimely'
    <2>1. \A i \in 1..(n + 1) : grants'[i].at <= clock'
      BY <1>2, <1>4, <1>14, <1>15 DEF LimiterInv, CallsTimely, n
    <2>2. \A q \in Request : call'[q] # None => call'[q] = call[q]
      BY Zenon, <1>14 DEF LimiterInv, TypeOK
    <2> QED
      BY Zenon, <1>4, <1>14, <2>1, <2>2 DEF LimiterInv, CallsTimely
  <1>17. HistoryCovers'
    <2> SUFFICES ASSUME NEW i \in 1..(n + 1)
                 PROVE  i \in history'[grants'[i].ip] \/ grants'[i].at + Window < clock'
      BY Zenon, <1>4 DEF HistoryCovers
    <2>1. CASE i = n + 1
      BY Zenon, <1>1, <1>4, <1>12, <1>13, <2>1
    <2>2. CASE i \in 1..n
      <3>1. grants[i] \in Grant /\ grants[i].ip \in Ip /\ grants[i].at \in Nat
        <4>1. grants[i] \in Grant
          BY <1>2, <2>2 DEF n
        <4> QED
          BY Zenon, <4>1 DEF Grant
      <3>2. i \in history[grants[i].ip] \/ grants[i].at + Window < clock
        BY Zenon, <2>2 DEF LimiterInv, HistoryCovers, n
      <3>3. CASE grants[i].ip = c.ip
        BY <1>1, <1>4, <1>12, <1>13, <1>14, <1>15, <2>2, <3>1, <3>2, <3>3, LimiterAssumption
      <3>4. CASE grants[i].ip # c.ip
        BY Zenon, <1>1, <1>4, <1>12, <1>13, <1>14, <2>2, <3>1, <3>2, <3>4
      <3> QED
        BY Zenon, <3>3, <3>4
    <2> QED
      BY <1>2, <2>1, <2>2
  <1>18. HistoryIsOwn'
    <2> SUFFICES ASSUME NEW ip \in Ip, NEW i \in history'[ip]
                 PROVE  grants'[i].ip = ip
      BY Zenon DEF HistoryIsOwn
    <2>1. CASE ip = c.ip
      <3>1. i = n + 1 \/ (i \in 1..n /\ i \in history[ip])
        BY Zenon, <1>1, <1>12, <1>13, <2>1
      <3> QED
        BY <1>4, <2>1, <3>1 DEF LimiterInv, HistoryIsOwn
    <2>2. CASE ip # c.ip
      BY <1>4, <1>12, <1>13, <2>2 DEF LimiterInv, HistoryIsOwn
    <2> QED
      BY Zenon, <2>1, <2>2
  <1>10. LastIsLatest'
    <2> SUFFICES ASSUME NEW a \in Address
                 PROVE  LET to == {i \in 1..Len(grants') : grants'[i].to = a}
                        IN  IF last'[a] = None THEN to = {}
                            ELSE /\ \E i \in to : grants'[i].at = last'[a]
                                 /\ Cooldown = 0 \/ \A i \in to : grants'[i].at <= last'[a]
      BY Zenon DEF LastIsLatest
    <2>1. CASE a = c.to
      <3>1. last'[a] = c.at
        BY Zenon, <1>1, <1>5, <1>6, <2>1
      <3>2. c.at # None
        BY Zenon, <1>1, LimiterAssumption
      <3>3. n + 1 \in {i \in 1..Len(grants') : grants'[i].to = a} /\ grants'[n + 1].at = last'[a]
        BY <1>2, <1>4, <2>1, <3>1
      <3>4. ASSUME NEW i \in 1..(n + 1), grants'[i].to = a, Cooldown # 0
            PROVE  grants'[i].at <= c.at
        <4>1. CASE i = n + 1
          BY <1>1, <1>4, <4>1
        <4>2. CASE i \in 1..n
          BY <1>1, <1>4, <1>7, <1>8, <2>1, <3>4, <4>2, LimiterAssumption
        <4> QED
          BY <1>2, <4>1, <4>2
      <3> QED
        BY Zenon, <1>4, <3>1, <3>2, <3>3, <3>4
    <2>2. CASE a # c.to
      <3>1. last'[a] = last[a]
        BY Zenon, <1>1, <1>5, <1>6, <2>2
      <3>2. \A i \in 1..(n + 1) : grants'[i].to = a => i \in 1..n /\ grants'[i] = grants[i]
        BY <1>2, <1>4, <2>2
      <3> QED
        BY <1>2, <1>4, <3>1, <3>2 DEF LimiterInv, LastIsLatest, n
    <2> QED
      BY Zenon, <2>1, <2>2
  <1>11. CooldownHolds'
    <2> SUFFICES ASSUME NEW i \in 1..Len(grants'), NEW j \in 1..Len(grants'),
                        i < j, grants'[i].to = grants'[j].to
                 PROVE  Cooldown = 0 \/ grants'[j].at >= grants'[i].at + Cooldown
      BY Zenon DEF CooldownHolds
    <2>1. i \in 1..n /\ grants'[i] = grants[i]
      BY <1>2, <1>4
    <2>2. CASE j = n + 1
      BY Zenon, <1>4, <1>8, <2>1, <2>2
    <2>3. CASE j \in 1..n
      BY Zenon, <1>4, <2>1, <2>3 DEF LimiterInv, CooldownHolds, n
    <2> QED
      BY <1>2, <1>4, <2>2, <2>3
  <1> QED
    BY Zenon, <1>9, <1>10, <1>11, <1>16, <1>17, <1>18 DEF LimiterInv

\* a call that leaves without a grant may have pruned the history of its address
LEMMA LeavingKeepsInv ==
  ASSUME LimiterInv, NEW r \in Request,
         call' = [call EXCEPT ![r] = None],
         \/ history' = history
         \/ call[r] # None /\ history' = [history EXCEPT ![call[r].ip] = Kept(call[r])],
         UNCHANGED <<clock, last, grants>>
  PROVE  LimiterInv'
  <1>1. /\ history' \in [Ip -> SUBSET (1..Len(grants))]
        /\ \A ip \in Ip : history'[ip] \subseteq history[ip]
    <2>1. history \in [Ip -> SUBSET (1..Len(grants))]
      BY Zenon DEF LimiterInv, TypeOK
    <2>2. call[r] # None => Kept(call[r]) \subseteq history[call[r].ip]
      BY Zenon, KeptFacts
    <2>3. CASE history' = history
      BY Zenon, <2>1, <2>3
    <2>4. CASE call[r] # None /\ history' = [history EXCEPT ![call[r].ip] = Kept(call[r])]
      <3>1. call[r].ip \in Ip /\ Kept(call[r]) \subseteq 1..Len(grants)
        BY Zenon, <2>4, KeptFacts
      <3> QED
        BY Zenon, <2>1, <2>2, <2>4, <3>1
    <2> QED
      BY Zenon, <2>3, <2>4
  <1>2. TypeOK'
    BY Zenon, <1>1 DEF LimiterInv, TypeOK
  <1>3. LastIsLatest' /\ CooldownHolds'
    BY Zenon DEF LimiterInv, LastIsLatest, CooldownHolds
  <1>4. CallsTimely'
    BY Zenon DEF LimiterInv, TypeOK, CallsTimely
  <1>5. HistoryCovers'
    <2> SUFFICES ASSUME NEW i \in 1..Len(grants), i \in history[grants[i].ip]
                 PROVE  i \in history'[grants[i].ip] \/ grants[i].at + Window < clock
      BY Zenon DEF LimiterInv, HistoryCovers
    <2>1. grants[i].ip \in Ip /\ grants[i].at \in Nat /\ clock \in Nat
      BY Zenon, GrantTypes DEF LimiterInv, TypeOK
    <2>2. CASE call[r] # None /\ history' = [history EXCEPT ![call[r].ip] = Kept(call[r])]
      <3>1. call[r].at \in Nat /\ call[r].at <= clock
        BY Zenon, <2>2, KeptFacts DEF LimiterInv, CallsTimely
      <3>2. CASE grants[i].ip = call[r].ip
        <4>1. i \in Kept(call[r]) \/ grants[i].at + Window < call[r].at
          BY Zenon, <2>2, <3>2, KeptFacts
        <4>2. history'[grants[i].ip] = Kept(call[r])
          BY Zenon, <2>1, <2>2, <3>2 DEF LimiterInv, TypeOK
        <4> QED
          BY <2>1, <3>1, <4>1, <4>2, LimiterAssumption
      <3>3. CASE grants[i].ip # call[r].ip
        BY Zenon, <2>1, <2>2, <3>3 DEF LimiterInv, TypeOK
      <3> QED
        BY Zenon, <3>2, <3>3
    <2> QED
      BY Zenon, <2>2
  <1>6. HistoryIsOwn'
    BY Zenon, <1>1 DEF LimiterInv, HistoryIsOwn
  <1> QED
    BY Zenon, <1>2, <1>3, <1>4, <1>5, <1>6 DEF LimiterInv

LEMMA DenialKeepsInv ==
  ASSUME LimiterInv, NEW r \in Request, CheckAndRecord(r), ~Granted(call[r])
  PROVE  LimiterInv'
  BY Zenon, LeavingKeepsInv DEF CheckAndRecord

\* every other step leaves the grants and address_last alone
LEMMA LimiterStepInv ==
  ASSUME LimiterInv, [LimiterNext]_limiterVars
  PROVE  LimiterInv'
  <1>1. CASE \E r \in Request : CheckAndRecord(r) /\ Granted(call[r])
    BY Zenon, <1>1, GrantKeepsInv
  <1>2. ASSUME NEW r \in Request, CheckAndRecord(r), ~Granted(call[r])
        PROVE  LimiterInv'
    BY Zenon, <1>2, DenialKeepsInv
  <1>3. ASSUME NEW r \in Request, NEW ip \in Ip, NEW to \in Address, Call(r, ip, to)
        PROVE  LimiterInv'
    <2>1. [ip |-> ip, to |-> to, at |-> clock] \in Grant
      BY Zenon DEF LimiterInv, TypeOK, Grant
    <2>2. TypeOK' /\ LastIsLatest' /\ CooldownHolds' /\ HistoryCovers' /\ HistoryIsOwn'
      BY Zenon, <1>3, <2>1
      DEF LimiterInv, TypeOK, LastIsLatest, CooldownHolds, HistoryCovers, HistoryIsOwn, Call
    <2>3. \A q \in Request : call'[q] = call[q] \/ call'[q].at = clock
      BY Zenon, <1>3 DEF Call, LimiterInv, TypeOK
    <2>4. CallsTimely'
      BY <1>3, <2>3, LimiterAssumption DEF Call, LimiterInv, CallsTimely, TypeOK
    <2> QED
      BY Zenon, <2>2, <2>4 DEF LimiterInv
  <1>4. CASE Elapse
    <2>1. TypeOK' /\ LastIsLatest' /\ CooldownHolds' /\ HistoryIsOwn'
      BY <1>4 DEF LimiterInv, TypeOK, LastIsLatest, CooldownHolds, HistoryIsOwn, Elapse
    <2>2. \A i \in 1..Len(grants) : grants[i].at \in Nat
      BY Zenon, GrantTypes
    <2>3. \A r \in Request : call[r] # None => call[r].at \in Nat
      BY Zenon DEF LimiterInv, TypeOK, Grant
    <2>4. CallsTimely'
      BY <1>4, <2>2, <2>3, LimiterAssumption DEF LimiterInv, TypeOK, CallsTimely, Elapse
    <2>5. HistoryCovers'
      BY SMTT(30), <1>4, <2>2, LimiterAssumption DEF LimiterInv, TypeOK, HistoryCovers, Elapse
    <2> QED
      BY Zenon, <2>1, <2>4, <2>5 DEF LimiterInv
  <1>5. CASE UNCHANGED limiterVars
    BY Zenon, <1>5
    DEF LimiterInv, TypeOK, LastIsLatest, CooldownHolds, CallsTimely, HistoryCovers, HistoryIsOwn,
        limiterVars
  <1> QED
    BY Zenon, <1>1, <1>2, <1>3, <1>4, <1>5 DEF LimiterNext

\* grants of a window are finitely many
LEMMA GrantsInFinite ==
  ASSUME LimiterInv, NEW ip \in Ip, NEW t \in Int, NEW w \in Int
  PROVE  IsFiniteSet(GrantsIn(ip, t, w)) /\ Cardinality(GrantsIn(ip, t, w)) \in Nat
  <1>1. IsFiniteSet(1..Len(grants))
    BY GrantTypes, FS_Interval
  <1>2. GrantsIn(ip, t, w) \in SUBSET (1..Len(grants))
    BY Zenon DEF GrantsIn
  <1>3. IsFiniteSet(GrantsIn(ip, t, w))
    BY Zenon, <1>1, <1>2, FS_Subset
  <1> QED
    BY Zenon, <1>3, FS_CardinalityType

\* when a call gets a grant, ip_history still has every grant to its address in any
\* window, shorter by LockWait, that the new one falls in
LEMMA WindowIsKept ==
  ASSUME LimiterInv, NEW r \in Request, call[r] # None, NEW t \in Nat,
         call[r].at <= t, t - call[r].at <= Window - LockWait
  PROVE  GrantsIn(call[r].ip, t, Window - LockWait) \subseteq Kept(call[r])
  <1> DEFINE c == call[r]
  <1>1. c.ip \in Ip /\ c.at \in Nat
    BY Zenon, KeptFacts
  <1>2. c.at <= clock /\ clock <= c.at + LockWait /\ clock \in Nat
    BY Zenon DEF LimiterInv, CallsTimely, TypeOK
  <1>3. \A i \in history[c.ip] : i \in Kept(c) \/ grants[i].at + Window < c.at
    BY Zenon, KeptFacts
  <1> HIDE DEF c
  <1> SUFFICES ASSUME NEW i \in GrantsIn(c.ip, t, Window - LockWait)
               PROVE  i \in Kept(c)
    BY Zenon DEF c
  <1>4. /\ i \in 1..Len(grants) /\ grants[i].ip = c.ip
        /\ grants[i].at <= t /\ t - grants[i].at <= Window - LockWait
    BY Zenon DEF GrantsIn
  <1>5. grants[i].at \in Nat
    BY Zenon, <1>4, GrantTypes
  <1>6. t - c.at <= Window - LockWait /\ c.at <= t
    BY Zenon DEF c
  <1>7. ~(grants[i].at + Window < clock) /\ ~(grants[i].at + Window < c.at)
    <2> DEFINE u == grants[i].at
               v == c.at
    <2>1. /\ u \in Nat /\ v \in Nat /\ clock \in Nat /\ t \in Nat
          /\ Window \in Nat /\ LockWait \in Nat
          /\ clock <= v + LockWait /\ v <= t /\ t - u <= Window - LockWait
      BY Zenon, <1>1, <1>2, <1>4, <1>5, <1>6, LimiterAssumption
    <2> HIDE DEF u, v
    <2>2. ~(u + Window < clock) /\ ~(u + Window < v)
      BY <2>1
    <2> QED
      BY Zenon, <2>2 DEF u, v
  <1>8. i \in history[c.ip]
    BY Zenon, <1>1, <1>4, <1>7 DEF LimiterInv, HistoryCovers
  <1> QED
    BY Zenon, <1>3, <1>7, <1>8

LEMMA IpLimitStep ==
  ASSUME LimiterInv, LimiterInv', IpLimitUpToSkew,
         \/ Elapse
         \/ \E r \in Request : CheckAndRecord(r)
         \/ UNCHANGED <<clock, grants>>
  PROVE  IpLimitUpToSkew'
  <1> DEFINE w == Window - LockWait
  <1>0. w \in Int /\ Limit \in Nat /\ clock \in Nat
    BY LimiterAssumption DEF LimiterInv, TypeOK
  <1>1. CASE UNCHANGED <<clock, grants>>
    BY Zenon, <1>1 DEF IpLimitUpToSkew, GrantsIn
  <1>2. CASE Elapse
    <2> SUFFICES ASSUME NEW ip \in Ip, NEW t \in 0..(clock + 1)
                 PROVE  Cardinality(GrantsIn(ip, t, w)) <= Limit
      BY SMTT(30), <1>2 DEF Elapse, IpLimitUpToSkew, GrantsIn
    <2>1. CASE t \in 0..clock
      BY Zenon, <2>1 DEF IpLimitUpToSkew
    <2>2. CASE t = clock + 1
      <3>1. GrantsIn(ip, t, w) \subseteq GrantsIn(ip, clock, w)
        <4> SUFFICES ASSUME NEW i \in GrantsIn(ip, t, w)
                     PROVE  i \in GrantsIn(ip, clock, w)
          BY Zenon
        <4>1. i \in 1..Len(grants) /\ grants[i].ip = ip /\ t - grants[i].at <= w
          BY Zenon DEF GrantsIn
        <4>2. grants[i].at \in Nat /\ grants[i].at <= clock
          BY Zenon, <4>1, GrantTypes DEF LimiterInv, CallsTimely
        <4> DEFINE u == grants[i].at
        <4> HIDE DEF u, w
        <4>3. u \in Nat /\ t - u <= w
          BY Zenon, <4>1, <4>2 DEF u
        <4>4. clock - u <= w
          BY <4>3, <1>0, <2>2
        <4> QED
          BY Zenon, <4>1, <4>2, <4>4 DEF u, GrantsIn
      <3>2. IsFiniteSet(GrantsIn(ip, clock, w)) /\ Cardinality(GrantsIn(ip, clock, w)) \in Nat
        BY <1>0, GrantsInFinite
      <3>3. /\ IsFiniteSet(GrantsIn(ip, t, w)) /\ Cardinality(GrantsIn(ip, t, w)) \in Nat
            /\ Cardinality(GrantsIn(ip, t, w)) <= Cardinality(GrantsIn(ip, clock, w))
        BY <1>0, <3>1, <3>2, GrantsInFinite, FS_Subset
      <3>4. Cardinality(GrantsIn(ip, clock, w)) <= Limit
        BY <1>0 DEF IpLimitUpToSkew
      <3> QED
        BY <1>0, <3>2, <3>3, <3>4
    <2> QED
      BY <1>0, <2>1, <2>2
  <1>3. ASSUME NEW r \in Request, CheckAndRecord(r), ~Granted(call[r])
        PROVE  IpLimitUpToSkew'
    <2>1. UNCHANGED <<clock, grants>>
      BY Zenon, <1>3 DEF CheckAndRecord
    <2> QED
      BY Zenon, <1>1, <2>1
  <1>4. ASSUME NEW r \in Request, CheckAndRecord(r), Granted(call[r])
        PROVE  IpLimitUpToSkew'
    <2> DEFINE c == call[r]
               n == Len(grants)
    <2>1. c # None /\ c \in Grant /\ c.ip \in Ip /\ c.at \in Nat
      BY Zenon, <1>4, KeptFacts DEF CheckAndRecord
    <2>2. clock' = clock /\ grants' = Append(grants, c)
      BY Zenon, <1>4 DEF CheckAndRecord
    <2>3. /\ n \in Nat /\ Len(grants') = n + 1
          /\ \A i \in 1..n : grants'[i] = grants[i]
          /\ grants'[n + 1] = c
      BY <2>1, <2>2, AppendProperties DEF LimiterInv, TypeOK
    <2>4. IsFiniteSet(Kept(c)) /\ Cardinality(Kept(c)) \in Nat /\ Cardinality(Kept(c)) < Limit
      BY Zenon, <1>4, <2>1, KeptFacts DEF Granted
    <2> SUFFICES ASSUME NEW ip \in Ip, NEW t \in 0..clock
                 PROVE  Cardinality(GrantsIn(ip, t, w)') <= Limit
      BY Zenon, <2>2 DEF IpLimitUpToSkew
    <2>5. Cardinality(GrantsIn(ip, t, w)) <= Limit
      BY Zenon DEF IpLimitUpToSkew
    <2>6. IsFiniteSet(GrantsIn(ip, t, w)) /\ Cardinality(GrantsIn(ip, t, w)) \in Nat
      BY <1>0, GrantsInFinite
    <2>7. CASE c.ip = ip /\ c.at <= t /\ t - c.at <= w
      <3>1. GrantsIn(ip, t, w) \subseteq Kept(c)
        BY <2>1, <2>7, WindowIsKept
      <3>2. GrantsIn(ip, t, w)' = GrantsIn(ip, t, w) \cup {n + 1}
        BY <2>3, <2>7 DEF GrantsIn
      <3>3. Cardinality(GrantsIn(ip, t, w)) <= Cardinality(Kept(c))
        BY Zenon, <2>4, <3>1, FS_Subset
      <3>4. n + 1 \notin GrantsIn(ip, t, w)
        BY <2>3 DEF GrantsIn
      <3>5. Cardinality(GrantsIn(ip, t, w)') = Cardinality(GrantsIn(ip, t, w)) + 1
        BY Zenon, <2>6, <3>2, <3>4, FS_AddElement
      <3> QED
        BY <1>0, <2>4, <2>6, <3>3, <3>5
    <2>8. CASE ~(c.ip = ip /\ c.at <= t /\ t - c.at <= w)
      <3>1. GrantsIn(ip, t, w)' = GrantsIn(ip, t, w)
        BY <2>3, <2>8 DEF GrantsIn
      <3> QED
        BY Zenon, <2>5, <3>1
    <2> QED
      BY Zenon, <2>7, <2>8
  <1> QED
    BY Zenon, <1>1, <1>2, <1>3, <1>4

\* a denied call has met Limit grants to its address or a recipient still cooling down
LEMMA DenialIsJustified ==
  ASSUME LimiterInv
  PROVE  DenialJustified
  <1> SUFFICES ASSUME NEW r \in Request, CheckAndRecord(r), grants' = grants
               PROVE  LET c == call[r]
                          made == 1..Len(grants)
                      IN  \/ Cardinality({i \in made :
                                 /\ grants[i].ip = c.ip
                                 /\ DurationSince(c.at, grants[i].at) <= Window}) >= Limit
                          \/ \E i \in made : /\ grants[i].to = c.to
                                             /\ DurationSince(c.at, grants[i].at) < Cooldown
    BY Zenon DEF DenialJustified
  <1> DEFINE c == call[r]
             n == Len(grants)
             near == {i \in 1..n : /\ grants[i].ip = c.ip
                                   /\ DurationSince(c.at, grants[i].at) <= Window}
  <1>1. c # None /\ c \in Grant /\ c.ip \in Ip /\ c.to \in Address /\ c.at \in Nat
    BY Zenon, KeptFacts DEF CheckAndRecord
  <1>2. grants \in Seq(Grant) /\ n \in Nat
    BY DEF LimiterInv, TypeOK
  <1>3. ~Granted(c)
    <2>1. Len(Append(grants, c)) = n + 1
      BY <1>1, <1>2, AppendProperties
    <2> QED
      BY <1>2, <2>1 DEF CheckAndRecord
  <1>4. CASE ~(Cardinality(Kept(c)) < Limit)
    <2>1. Kept(c) \in SUBSET near
      BY Zenon, <1>1, KeptFacts DEF Kept, LimiterInv, HistoryIsOwn
    <2>2. IsFiniteSet(1..n)
      BY <1>2, FS_Interval
    <2>3. near \in SUBSET (1..n)
      BY Zenon
    <2> HIDE DEF near
    <2>4. IsFiniteSet(near) /\ Cardinality(near) \in Nat
      BY Zenon, <2>2, <2>3, FS_Subset, FS_CardinalityType
    <2>5. Cardinality(Kept(c)) <= Cardinality(near)
      BY Zenon, <2>1, <2>4, FS_Subset
    <2>6. Cardinality(Kept(c)) \in Nat
      BY Zenon, <1>1, KeptFacts
    <2>7. Cardinality(near) >= Limit
      BY <1>4, <2>4, <2>5, <2>6, LimiterAssumption
    <2> QED
      BY Zenon, <2>7 DEF near
  <1>5. CASE ~Cool(c)
    <2>1. last[c.to] # None /\ ~(DurationSince(c.at, last[c.to]) >= Cooldown)
      BY Zenon, <1>5 DEF Cool
    <2>2. PICK i \in 1..n : grants[i].to = c.to /\ grants[i].at = last[c.to]
      BY Zenon, <1>1, <2>1 DEF LimiterInv, LastIsLatest
    <2>3. grants[i].at \in Nat
      BY Zenon, GrantTypes
    <2>4. DurationSince(c.at, grants[i].at) < Cooldown
      BY <1>1, <2>1, <2>2, <2>3, LimiterAssumption DEF DurationSince
    <2> QED
      BY Zenon, <2>2, <2>4
  <1> QED
    BY Zenon, <1>3, <1>4, <1>5 DEF Granted

----------------------------------------------------------------------------
(* The service.                                                             *)

\* the next nonce is where the gapless pool ends
LEMMA IntervalEnd ==
  ASSUME NEW a \in Nat, NEW b \in Nat, a <= b
  PROVE  IsFiniteSet(a..(b - 1)) /\ NextNonce(a, a..(b - 1)) = b
  <1>1. /\ IsFiniteSet(a..(b - 1))
        /\ Cardinality(a..(b - 1)) = IF a > b - 1 THEN 0 ELSE (b - 1) - a + 1
    BY FS_Interval
  <1>2. a + Cardinality(a..(b - 1)) = b
    BY <1>1
  <1>3. \A n \in a..b : n \notin a..(b - 1) <=> n = b
    OBVIOUS
  <1>4. b \in a..b
    OBVIOUS
  <1>5. NextNonce(a, a..(b - 1)) = b
    BY Zenon, <1>2, <1>3, <1>4 DEF NextNonce
  <1> QED
    BY Zenon, <1>1, <1>5

LEMMA PendingNonceType ==
  ASSUME FaucetInv
  PROVE  PendingNonce \in Nat /\ mined \in Nat /\ mined <= PendingNonce
  BY Zenon DEF FaucetInv, FaucetTypeOK, NoncesTold

LEMMA FaucetInitInv == Init => FaucetInv
  <1> SUFFICES ASSUME Init PROVE FaucetInv
    BY Zenon
  <1>1. LimiterInv /\ Len(grants) = 0
    BY Zenon, LimiterInitInv DEF Init, LimiterInit
  <1>2. DOMAIN pool = {} /\ IsFiniteSet({}) /\ Cardinality({}) = 0
    BY FS_EmptySet DEF Init
  <1>3. PendingNonce = 0
    <2>1. NextNonce(0, 0..(0 - 1)) = 0
      BY IntervalEnd
    <2>2. 0..(0 - 1) = {}
      OBVIOUS
    <2> QED
      BY Zenon, <1>2, <2>1, <2>2 DEF PendingNonce, Init
  <1>4. FaucetTypeOK
    BY <1>1, <1>2 DEF Init, FaucetTypeOK, Idle
  <1>5. GrantInOnePlace
    BY DEF Init, GrantInOnePlace, Unsent, At, Idle, GrantsHeld, GrantsSent, GrantsPooled, GrantsPaid
  <1>6. NoncesTold /\ NonceGapless
    BY <1>2, <1>3 DEF Init, NoncesTold, NonceGapless, At, Idle
  <1> QED
    BY Zenon, <1>1, <1>4, <1>5, <1>6 DEF FaucetInv

\* time passes, or nothing happens
LEMMA QuietKeepsInv ==
  ASSUME FaucetInv, LimiterInv', UNCHANGED <<grants, handler, nodeVars>>
  PROVE  FaucetInv'
  <1>1. UNCHANGED <<grants, handler, sending, pool, mined, paid>>
    BY Zenon DEF nodeVars
  <1>2. FaucetTypeOK'
    BY Zenon, <1>1 DEF FaucetInv, FaucetTypeOK
  <1>3. PendingNonce' = PendingNonce
    BY Zenon, <1>1 DEF PendingNonce
  <1>4. NoncesTold' /\ NonceGapless'
    BY Zenon, <1>1, <1>3 DEF FaucetInv, NoncesTold, NonceGapless, At
  <1>5. /\ GrantsHeld' = GrantsHeld /\ GrantsSent' = GrantsSent
        /\ GrantsPooled' = GrantsPooled /\ GrantsPaid' = GrantsPaid
    BY Zenon, <1>1 DEF GrantsHeld, GrantsSent, GrantsPooled, GrantsPaid, Unsent, At
  <1>6. GrantInOnePlace'
    BY <1>1, <1>5 DEF FaucetInv, GrantInOnePlace, Unsent, At
  <1> QED
    BY Zenon, <1>2, <1>4, <1>6 DEF FaucetInv

\* steps of a handler that neither get a grant nor submit one
LEMMA HandlerStepKeepsInv ==
  ASSUME FaucetInv, LimiterInv', UNCHANGED <<grants, nodeVars>>, NEW r \in Request,
         NEW h \in [pc : {"idle", "limiter", "nonce", "fees", "sent"},
                    grant : 0..Len(grants), nonce : Nat],
         handler' = [handler EXCEPT ![r] = h],
         \/ h.pc \notin {"nonce", "fees"}
         \/ At(r, "nonce") /\ h.pc = "fees" /\ h.grant = handler[r].grant
              /\ h.nonce = PendingNonce
  PROVE  FaucetInv'
  <1>1. FaucetTypeOK'
    BY Zenon DEF FaucetInv, FaucetTypeOK, nodeVars
  <1>2. PendingNonce' = PendingNonce /\ PendingNonce \in Nat
    BY Zenon, PendingNonceType DEF FaucetInv, PendingNonce, nodeVars
  <1>3. \A q \in Request : Unsent(q)' => Unsent(q) /\ handler'[q].grant = handler[q].grant
    BY Zenon DEF FaucetInv, FaucetTypeOK, Unsent, At
  <1>4. GrantsHeld' \subseteq GrantsHeld
    BY <1>3 DEF GrantsHeld
  <1>5. GrantsSent' = GrantsSent /\ GrantsPooled' = GrantsPooled /\ GrantsPaid' = GrantsPaid
    BY Zenon DEF nodeVars, GrantsSent, GrantsPooled, GrantsPaid
  <1>6. GrantInOnePlace'
    <2> USE DEF FaucetInv, GrantInOnePlace
    <2>1. \A q, p \in Request :
            Unsent(q)' /\ Unsent(p)' /\ handler'[q].grant = handler'[p].grant => q = p
      BY Zenon, <1>3
    <2>2. \A q \in Request : Unsent(q)' => handler'[q].grant # 0
      BY Zenon, <1>3
    <2> QED
      BY <1>4, <1>5, <2>1, <2>2 DEF nodeVars
  <1>7. NoncesTold'
    BY <1>2 DEF FaucetInv, FaucetTypeOK, NoncesTold, At, nodeVars
  <1>8. NonceGapless'
    BY Zenon, <1>2 DEF FaucetInv, NonceGapless, nodeVars
  <1> QED
    BY Zenon, <1>1, <1>6, <1>7, <1>8 DEF FaucetInv

\* check_and_record returns with a grant that is in no other place
LEMMA GrantedKeepsInv ==
  ASSUME FaucetInv, NEW r \in Request, CheckLimits(r), Granted(call[r])
  PROVE  FaucetInv'
  <1> DEFINE n == Len(grants)
             h == [pc |-> "nonce", grant |-> n + 1, nonce |-> 0]
  <1>1. LimiterInv'
    BY Zenon, GrantKeepsInv DEF FaucetInv, CheckLimits
  <1>2. n \in Nat /\ Len(grants') = n + 1
    <2>1. call[r] \in Grant
      BY Zenon, KeptFacts DEF FaucetInv, CheckLimits, CheckAndRecord
    <2> QED
      BY <2>1, AppendProperties DEF FaucetInv, LimiterInv, TypeOK, CheckLimits, CheckAndRecord
  <1>3. UNCHANGED nodeVars /\ handler' = [handler EXCEPT ![r] = h]
    BY Zenon DEF CheckLimits
  <1>4. h.pc = "nonce" /\ h.grant = n + 1 /\ h.nonce = 0
        /\ h \in [pc : {"idle", "limiter", "nonce", "fees", "sent"}, grant : 0..(n + 1), nonce : Nat]
    BY <1>2
  <1> HIDE DEF h
  <1>5. FaucetTypeOK'
    <2>1. handler' \in [Request -> [pc : {"idle", "limiter", "nonce", "fees", "sent"},
                                    grant : 0..(n + 1), nonce : Nat]]
      BY <1>2, <1>3, <1>4 DEF FaucetInv, FaucetTypeOK
    <2>2. sending' \subseteq [grant : 1..(n + 1), nonce : Nat, fee : Fee]
      BY <1>2, <1>3 DEF FaucetInv, FaucetTypeOK, nodeVars
    <2>3. \A k \in DOMAIN pool' : pool'[k] \in [grant : 1..(n + 1), fee : Fee]
      BY <1>2, <1>3 DEF FaucetInv, FaucetTypeOK, nodeVars
    <2>4. paid' \in Seq(1..(n + 1))
      BY <1>2, <1>3 DEF FaucetInv, FaucetTypeOK, nodeVars
    <2> QED
      BY Zenon, <1>2, <1>3, <2>1, <2>2, <2>3, <2>4 DEF FaucetInv, FaucetTypeOK, nodeVars
  <1>6. \A q \in Request : q # r => handler'[q] = handler[q]
    BY Zenon, <1>3 DEF FaucetInv, FaucetTypeOK
  <1>7. handler'[r] = h
    BY Zenon, <1>3 DEF FaucetInv, FaucetTypeOK
  <1>8. GrantInOnePlace'
    <2>1. \A q \in Request : handler[q].grant <= n /\ handler[q].grant # n + 1
      BY <1>2 DEF FaucetInv, FaucetTypeOK
    <2>2. GrantsHeld' \subseteq GrantsHeld \cup {n + 1}
      BY <1>4, <1>6, <1>7 DEF GrantsHeld, Unsent, At
    <2>3. GrantsSent' = GrantsSent /\ GrantsPooled' = GrantsPooled /\ GrantsPaid' = GrantsPaid
      BY Zenon, <1>3 DEF nodeVars, GrantsSent, GrantsPooled, GrantsPaid
    <2>4. n + 1 \notin GrantsSent \cup GrantsPooled \cup GrantsPaid
      BY <1>2 DEF FaucetInv, FaucetTypeOK, GrantsSent, GrantsPooled, GrantsPaid
    <2>5. \A q, p \in Request :
            Unsent(q)' /\ Unsent(p)' /\ handler'[q].grant = handler'[p].grant => q = p
      BY <1>4, <1>6, <1>7, <2>1 DEF FaucetInv, GrantInOnePlace, Unsent, At
    <2>6. \A q \in Request : Unsent(q)' => handler'[q].grant # 0
      BY <1>2, <1>4, <1>6, <1>7 DEF FaucetInv, GrantInOnePlace, Unsent, At
    <2> QED
      BY SMTT(30), <1>3, <2>2, <2>3, <2>4, <2>5, <2>6 DEF FaucetInv, GrantInOnePlace, nodeVars
  <1>9. NoncesTold' /\ NonceGapless'
    BY Zenon, <1>3, <1>4, <1>6, <1>7
    DEF FaucetInv, NoncesTold, NonceGapless, At, PendingNonce, nodeVars
  <1> QED
    BY Zenon, <1>1, <1>5, <1>8, <1>9 DEF FaucetInv

\* a submission takes its grant out of the handler
LEMMA SendKeepsInv ==
  ASSUME FaucetInv, LimiterInv', NEW r \in Request, Send(r)
  PROVE  FaucetInv'
  <1>1. PICK fee \in Fee :
          sending' = sending \cup {[grant |-> handler[r].grant, nonce |-> handler[r].nonce,
                                    fee |-> fee]}
    BY Zenon DEF Send
  <1> DEFINE x == [grant |-> handler[r].grant, nonce |-> handler[r].nonce, fee |-> fee]
  <1>2. /\ At(r, "fees") /\ handler' = [handler EXCEPT ![r].pc = "sent"]
        /\ UNCHANGED <<grants, pool, mined, paid>>
    BY Zenon DEF Send, limiterVars
  <1>3. handler[r].grant \in 1..Len(grants) /\ handler[r].nonce \in Nat
    BY <1>2 DEF FaucetInv, FaucetTypeOK, GrantInOnePlace, Unsent
  <1>4. x.grant = handler[r].grant /\ x.nonce = handler[r].nonce
        /\ x \in [grant : 1..Len(grants), nonce : Nat, fee : Fee]
    BY Zenon, <1>3
  <1>5. sending' = sending \cup {x}
    BY Zenon, <1>1
  <1> HIDE DEF x
  <1>6. FaucetTypeOK'
    BY <1>2, <1>4, <1>5 DEF FaucetInv, FaucetTypeOK
  <1>7. \A q \in Request : Unsent(q)' => q # r /\ Unsent(q) /\ handler'[q] = handler[q]
    BY Zenon, <1>2 DEF FaucetInv, FaucetTypeOK, Unsent, At
  <1>8. x.grant \in GrantsHeld
    BY Zenon, <1>2, <1>4 DEF GrantsHeld, Unsent
  <1>9. GrantsHeld' \subseteq GrantsHeld \ {x.grant}
    BY <1>2, <1>4, <1>7 DEF GrantsHeld, FaucetInv, GrantInOnePlace, Unsent
  <1>10. GrantsSent' = GrantsSent \cup {x.grant}
    BY Zenon, <1>5 DEF GrantsSent
  <1>11. GrantsPooled' = GrantsPooled /\ GrantsPaid' = GrantsPaid
    BY Zenon, <1>2 DEF GrantsPooled, GrantsPaid
  <1>12. GrantInOnePlace'
    <2>1. \A y \in sending : y.grant # x.grant
      BY <1>8 DEF FaucetInv, GrantInOnePlace, GrantsSent
    <2>2. \A y, z \in sending' : y.grant = z.grant => y = z
      BY Zenon, <1>5, <2>1 DEF FaucetInv, GrantInOnePlace
    <2>3. \A q, p \in Request :
            Unsent(q)' /\ Unsent(p)' /\ handler'[q].grant = handler'[p].grant => q = p
      BY Zenon, <1>7 DEF FaucetInv, GrantInOnePlace
    <2>4. \A q \in Request : Unsent(q)' => handler'[q].grant # 0
      BY Zenon, <1>7 DEF FaucetInv, GrantInOnePlace
    <2>5. /\ GrantsHeld' \cap (GrantsSent' \cup GrantsPooled' \cup GrantsPaid') = {}
          /\ GrantsSent' \cap (GrantsPooled' \cup GrantsPaid') = {}
      BY <1>8, <1>9, <1>10, <1>11 DEF FaucetInv, GrantInOnePlace
    <2> QED
      BY Zenon, <1>2, <1>11, <2>2, <2>3, <2>4, <2>5 DEF FaucetInv, GrantInOnePlace
  <1>13. PendingNonce' = PendingNonce
    BY Zenon, <1>2 DEF PendingNonce
  <1>14. NoncesTold' /\ NonceGapless'
    <2>1. \A q \in Request : At(q, "fees")' => At(q, "fees") /\ handler'[q] = handler[q]
      BY Zenon, <1>2 DEF FaucetInv, FaucetTypeOK, At
    <2>2. x.nonce <= PendingNonce
      BY Zenon, <1>2, <1>4 DEF FaucetInv, NoncesTold
    <2> QED
      BY Zenon, <1>2, <1>5, <1>13, <2>1, <2>2 DEF FaucetInv, NoncesTold, NonceGapless
  <1> QED
    BY Zenon, <1>6, <1>12, <1>14 DEF FaucetInv

\* the node takes a submission, drops it, or lets it replace the one with its nonce
LEMMA ReceiveKeepsInv ==
  ASSUME FaucetInv, LimiterInv', NEW x \in sending, NodeReceives(x)
  PROVE  FaucetInv'
  <1>1. sending' = sending \ {x} /\ UNCHANGED <<grants, handler, mined, paid>>
    BY Zenon DEF NodeReceives, limiterVars
  <1>2. x \in [grant : 1..Len(grants), nonce : Nat, fee : Fee]
    BY Zenon DEF FaucetInv, FaucetTypeOK
  <1>3. PendingNonce \in Nat /\ mined \in Nat /\ mined <= PendingNonce
    BY Zenon, PendingNonceType DEF FaucetInv
  <1>4. DOMAIN pool = mined..(PendingNonce - 1) /\ x.nonce <= PendingNonce
    BY Zenon DEF FaucetInv, NonceGapless
  <1>5. x.grant \in GrantsSent /\ GrantsSent' \subseteq GrantsSent \ {x.grant}
    BY Zenon, <1>1 DEF GrantsSent, FaucetInv, GrantInOnePlace
  <1>6. GrantsHeld' = GrantsHeld /\ GrantsPaid' = GrantsPaid
    BY Zenon, <1>1 DEF GrantsHeld, GrantsPaid, Unsent, At
  <1>7. CASE pool' = pool
    <2>1. FaucetTypeOK'
      BY Zenon, <1>1, <1>7 DEF FaucetInv, FaucetTypeOK
    <2>2. PendingNonce' = PendingNonce
      BY Zenon, <1>1, <1>7 DEF PendingNonce
    <2>3. GrantInOnePlace'
      BY <1>1, <1>5, <1>6, <1>7 DEF FaucetInv, GrantInOnePlace, GrantsPooled, Unsent, At
    <2> QED
      BY Zenon, <1>1, <1>7, <2>1, <2>2, <2>3 DEF FaucetInv, NoncesTold, NonceGapless, At
  <1>8. CASE pool' # pool
    <2> DEFINE e == [grant |-> x.grant, fee |-> x.fee]
    <2>1. x.nonce >= mined
      BY <1>2, <1>3, <1>8 DEF NodeReceives
    <2>2. pool' = [n \in DOMAIN pool \cup {x.nonce} |-> IF n = x.nonce THEN e ELSE pool[n]]
      BY Zenon, <1>8 DEF NodeReceives
    <2>3. e.grant = x.grant /\ e \in [grant : 1..Len(grants), fee : Fee]
      BY Zenon, <1>2
    <2> HIDE DEF e
    <2>4. PICK top \in Nat :
            mined <= top /\ PendingNonce <= top /\ DOMAIN pool' = mined..(top - 1)
      <3>1. CASE x.nonce = PendingNonce
        <4>1. DOMAIN pool' = mined..(PendingNonce + 1 - 1)
          BY <1>2, <1>3, <1>4, <2>2, <3>1
        <4> QED
          BY <1>3, <4>1
      <3>2. CASE x.nonce # PendingNonce
        <4>1. DOMAIN pool' = mined..(PendingNonce - 1)
          BY <1>2, <1>3, <1>4, <2>1, <2>2, <3>2
        <4> QED
          BY <1>3, <4>1
      <3> QED
        BY Zenon, <3>1, <3>2
    <2>5. IsFiniteSet(DOMAIN pool') /\ PendingNonce' = top
      BY Zenon, <1>1, <1>3, <2>4, IntervalEnd DEF PendingNonce
    <2>6. \A n \in DOMAIN pool' : pool'[n] = e \/ (n \in DOMAIN pool /\ pool'[n] = pool[n])
      BY Zenon, <2>2
    <2>7. FaucetTypeOK'
      BY SMTT(30), <1>1, <1>3, <2>3, <2>4, <2>5, <2>6 DEF FaucetInv, FaucetTypeOK
    <2>8. GrantsPooled' \subseteq GrantsPooled \cup {x.grant}
      BY Zenon, <2>3, <2>6 DEF GrantsPooled
    <2>9. \A m, n \in DOMAIN pool' : pool'[m].grant = pool'[n].grant => m = n
      <3>1. \A n \in DOMAIN pool : pool[n].grant # x.grant
        BY <1>5 DEF FaucetInv, GrantInOnePlace, GrantsPooled
      <3> QED
        BY <2>2, <2>3, <3>1 DEF FaucetInv, GrantInOnePlace
    <2>10. GrantInOnePlace'
      <3>1. /\ GrantsHeld' \cap (GrantsSent' \cup GrantsPooled' \cup GrantsPaid') = {}
            /\ GrantsSent' \cap (GrantsPooled' \cup GrantsPaid') = {}
            /\ GrantsPooled' \cap GrantsPaid' = {}
        BY <1>5, <1>6, <2>8 DEF FaucetInv, GrantInOnePlace
      <3> QED
        BY <1>1, <2>9, <3>1 DEF FaucetInv, GrantInOnePlace, Unsent, At
    <2>11. NoncesTold'
      BY <1>1, <1>3, <2>4, <2>5 DEF FaucetInv, FaucetTypeOK, NoncesTold, At
    <2>12. NonceGapless'
      <3>1. \A y \in sending : y.nonce \in Nat /\ y.nonce <= PendingNonce
        BY Zenon DEF FaucetInv, FaucetTypeOK, NonceGapless
      <3> QED
        BY <1>1, <1>3, <2>4, <2>5, <3>1 DEF NonceGapless
    <2> QED
      BY Zenon, <2>7, <2>10, <2>11, <2>12 DEF FaucetInv
  <1> QED
    BY Zenon, <1>7, <1>8

\* the lowest nonce of the pool leaves it, and its grant is paid
LEMMA MineKeepsInv ==
  ASSUME FaucetInv, LimiterInv', NodeMines
  PROVE  FaucetInv'
  <1> DEFINE g == pool[mined].grant
  <1>1. /\ mined \in DOMAIN pool /\ mined' = mined + 1
        /\ pool' = [n \in DOMAIN pool \ {mined} |-> pool[n]]
        /\ paid' = Append(paid, g)
        /\ UNCHANGED <<grants, handler, sending>>
    BY Zenon DEF NodeMines, limiterVars
  <1>2. g \in 1..Len(grants) /\ g \in GrantsPooled
    BY Zenon, <1>1 DEF FaucetInv, FaucetTypeOK, GrantsPooled
  <1>3. PendingNonce \in Nat /\ mined \in Nat /\ DOMAIN pool = mined..(PendingNonce - 1)
    BY Zenon, PendingNonceType DEF FaucetInv, NonceGapless
  <1>4. paid \in Seq(1..Len(grants)) /\ Len(paid) \in Nat
    BY DEF FaucetInv, FaucetTypeOK
  <1> HIDE DEF g
  <1>5. /\ paid' \in Seq(1..Len(grants)) /\ Len(paid') = Len(paid) + 1
        /\ \A i \in 1..Len(paid) : paid'[i] = paid[i]
        /\ paid'[Len(paid) + 1] = g
    BY <1>1, <1>2, <1>4, AppendProperties
  <1>6. mined' <= PendingNonce /\ DOMAIN pool' = mined'..(PendingNonce - 1)
    BY <1>1, <1>3
  <1>7. IsFiniteSet(DOMAIN pool') /\ PendingNonce' = PendingNonce
    <2>1. mined' \in Nat
      BY <1>1, <1>3
    <2>2. IsFiniteSet(mined'..(PendingNonce - 1))
          /\ NextNonce(mined', mined'..(PendingNonce - 1)) = PendingNonce
      BY Zenon, <1>3, <1>6, <2>1, IntervalEnd
    <2>3. PendingNonce' = NextNonce(mined', DOMAIN pool')
      BY Zenon DEF PendingNonce
    <2> QED
      BY Zenon, <1>6, <2>2, <2>3
  <1>8. FaucetTypeOK'
    BY <1>1, <1>3, <1>5, <1>6, <1>7 DEF FaucetInv, FaucetTypeOK
  <1>9. GrantsPooled' \subseteq GrantsPooled \ {g}
    BY Zenon, <1>1 DEF GrantsPooled, FaucetInv, GrantInOnePlace, g
  <1>10. GrantsPaid' = GrantsPaid \cup {g}
    <2>1. \A i : i \in 1..Len(paid') <=> i \in 1..Len(paid) \/ i = Len(paid) + 1
      BY <1>4, <1>5
    <2>2. ASSUME NEW x \in GrantsPaid' PROVE x \in GrantsPaid \cup {g}
      BY <2>2, <2>1, <1>5, Zenon DEF GrantsPaid
    <2>3. ASSUME NEW x \in GrantsPaid \cup {g} PROVE x \in GrantsPaid'
      <3>1. CASE x = g
        BY <2>1, <3>1, <1>5, Zenon DEF GrantsPaid
      <3>2. CASE x \in GrantsPaid
        BY <2>1, <3>2, <1>5, Zenon DEF GrantsPaid
      <3> QED
        BY <2>3, <3>1, <3>2, Zenon
    <2> QED
      BY <2>2, <2>3, Zenon
  <1>11. GrantsHeld' = GrantsHeld /\ GrantsSent' = GrantsSent
    BY Zenon, <1>1 DEF GrantsHeld, GrantsSent, Unsent, At
  <1>12. GrantInOnePlace'
    <2>1. \A i \in 1..Len(paid) : paid[i] # g
      BY <1>2 DEF FaucetInv, GrantInOnePlace, GrantsPaid
    <2>2. \A i, j \in 1..Len(paid') : paid'[i] = paid'[j] => i = j
      <3>1. \A i \in 1..Len(paid') : i \in 1..Len(paid) \/ i = Len(paid) + 1
        BY <1>4, <1>5
      <3>2. \A i, j \in 1..Len(paid) : paid[i] = paid[j] => i = j
        BY Zenon DEF FaucetInv, GrantInOnePlace
      <3> QED
        BY Zenon, <1>5, <2>1, <3>1, <3>2
    <2>3. /\ GrantsHeld' \cap (GrantsSent' \cup GrantsPooled' \cup GrantsPaid') = {}
          /\ GrantsSent' \cap (GrantsPooled' \cup GrantsPaid') = {}
          /\ GrantsPooled' \cap GrantsPaid' = {}
      <3>1. /\ GrantsHeld \cap (GrantsSent \cup GrantsPooled \cup GrantsPaid) = {}
            /\ GrantsSent \cap (GrantsPooled \cup GrantsPaid) = {}
            /\ GrantsPooled \cap GrantsPaid = {}
        BY Zenon DEF FaucetInv, GrantInOnePlace
      <3> QED
        BY Zenon, <1>2, <1>9, <1>10, <1>11, <3>1
    <2>4. \A m, n \in DOMAIN pool' : pool'[m].grant = pool'[n].grant => m = n
      BY Zenon, <1>1 DEF FaucetInv, GrantInOnePlace
    <2> QED
      BY SMTT(30), <1>1, <2>2, <2>3, <2>4 DEF FaucetInv, GrantInOnePlace, Unsent, At
  <1>13. NoncesTold' /\ NonceGapless'
    BY Zenon, <1>1, <1>6, <1>7 DEF FaucetInv, NoncesTold, NonceGapless, At
  <1> QED
    BY Zenon, <1>8, <1>12, <1>13 DEF FaucetInv

\* the steps of the service, as the limiter sees them
LEMMA FaucetLimiterStep ==
  ASSUME FaucetInv, [Next]_vars
  PROVE  /\ LimiterInv'
         /\ \/ Elapse
            \/ \E r \in Request : CheckAndRecord(r)
            \/ UNCHANGED <<clock, grants>>
  <1>1. ASSUME NEW r \in Request, Timeout(r)
        PROVE  LimiterInv' /\ UNCHANGED <<clock, grants>>
    BY Zenon, <1>1, LeavingKeepsInv DEF Timeout, FaucetInv
  <1>2. ASSUME [LimiterNext]_limiterVars
        PROVE  LimiterInv'
    BY Zenon, <1>2, LimiterStepInv DEF FaucetInv
  <1>3. CASE Elapse
    BY Zenon, <1>2, <1>3 DEF LimiterNext
  <1>4. ASSUME NEW r \in Request, NEW ip \in Ip, NEW to \in Address, Drip(r, ip, to)
        PROVE  LimiterInv' /\ UNCHANGED <<clock, grants>>
    BY Zenon, <1>2, <1>4 DEF LimiterNext, Drip, Call
  <1>5. ASSUME NEW r \in Request, CheckLimits(r)
        PROVE  LimiterInv' /\ CheckAndRecord(r)
    BY Zenon, <1>2, <1>5 DEF LimiterNext, CheckLimits
  <1>6. ASSUME UNCHANGED limiterVars
        PROVE  LimiterInv' /\ UNCHANGED <<clock, grants>>
    BY Zenon, <1>2, <1>6 DEF limiterVars
  <1>7. ASSUME NEW r \in Request, FetchNonce(r) \/ Send(r) \/ Answer(r)
        PROVE  UNCHANGED limiterVars
    BY Zenon, <1>7 DEF FetchNonce, Send, Answer
  <1>8. ASSUME NEW x \in sending, NodeReceives(x)
        PROVE  UNCHANGED limiterVars
    BY Zenon, <1>8 DEF NodeReceives
  <1>9. CASE NodeMines
    BY Zenon, <1>6, <1>9 DEF NodeMines
  <1>10. CASE UNCHANGED vars
    BY Zenon, <1>6, <1>10 DEF vars
  <1> QED
    BY Zenon, <1>1, <1>3, <1>4, <1>5, <1>6, <1>7, <1>8, <1>9, <1>10 DEF Next

LEMMA FaucetStepInv ==
  ASSUME FaucetInv, [Next]_vars
  PROVE  FaucetInv'
  <1>0. LimiterInv'
    BY Zenon, FaucetLimiterStep
  <1> DEFINE H == [pc : {"idle", "limiter", "nonce", "fees", "sent"},
                   grant : 0..Len(grants), nonce : Nat]
  <1>1. handler \in [Request -> H] /\ Idle \in H /\ Idle.pc = "idle"
    <2>1. Len(grants) \in Nat
      BY Zenon, GrantTypes DEF FaucetInv
    <2> QED
      BY <2>1 DEF FaucetInv, FaucetTypeOK, Idle
  <1>2. PendingNonce \in Nat
    BY Zenon, PendingNonceType DEF FaucetInv
  <1>3. CASE Elapse /\ UNCHANGED <<handler, nodeVars>>
    BY Zenon, <1>0, <1>3, QuietKeepsInv DEF Elapse
  <1>4. ASSUME NEW r \in Request, NEW ip \in Ip, NEW to \in Address, Drip(r, ip, to)
        PROVE  FaucetInv'
    <2>1. [handler[r] EXCEPT !.pc = "limiter"] \in H
          /\ [handler[r] EXCEPT !.pc = "limiter"].pc = "limiter"
      BY Zenon, <1>1
    <2>2. handler' = [handler EXCEPT ![r] = [handler[r] EXCEPT !.pc = "limiter"]]
      BY Zenon, <1>4 DEF Drip
    <2> QED
      BY Zenon, <1>0, <1>4, <2>1, <2>2, HandlerStepKeepsInv DEF Drip, Call
  <1>5. ASSUME NEW r \in Request, CheckLimits(r)
        PROVE  FaucetInv'
    <2>1. CASE Granted(call[r])
      BY Zenon, <1>5, <2>1, GrantedKeepsInv
    <2>2. CASE ~Granted(call[r])
      BY Zenon, <1>0, <1>1, <1>5, <2>2, HandlerStepKeepsInv DEF CheckLimits, CheckAndRecord
    <2> QED
      BY Zenon, <2>1, <2>2
  <1>6. ASSUME NEW r \in Request, FetchNonce(r)
        PROVE  FaucetInv'
    <2> DEFINE h == [handler[r] EXCEPT !.pc = "fees", !.nonce = PendingNonce]
    <2>1. h \in H /\ h.pc = "fees" /\ h.grant = handler[r].grant /\ h.nonce = PendingNonce
      BY Zenon, <1>1, <1>2
    <2>2. handler' = [handler EXCEPT ![r] = h]
      BY Zenon, <1>1, <1>6 DEF FetchNonce
    <2> HIDE DEF h
    <2> QED
      BY Zenon, <1>0, <1>6, <2>1, <2>2, HandlerStepKeepsInv DEF FetchNonce, limiterVars
  <1>7. ASSUME NEW r \in Request, Send(r)
        PROVE  FaucetInv'
    BY Zenon, <1>0, <1>7, SendKeepsInv
  <1>8. ASSUME NEW r \in Request, Answer(r)
        PROVE  FaucetInv'
    BY Zenon, <1>0, <1>1, <1>8, HandlerStepKeepsInv DEF Answer, limiterVars
  <1>9. ASSUME NEW r \in Request, Timeout(r)
        PROVE  FaucetInv'
    BY Zenon, <1>0, <1>1, <1>9, HandlerStepKeepsInv DEF Timeout
  <1>10. ASSUME NEW x \in sending, NodeReceives(x)
         PROVE  FaucetInv'
    BY Zenon, <1>0, <1>10, ReceiveKeepsInv
  <1>11. CASE NodeMines
    BY Zenon, <1>0, <1>11, MineKeepsInv
  <1>12. CASE UNCHANGED vars
    BY Zenon, <1>0, <1>12, QuietKeepsInv DEF vars, limiterVars
  <1> QED
    BY Zenon, <1>3, <1>4, <1>5, <1>6, <1>7, <1>8, <1>9, <1>10, <1>11, <1>12 DEF Next

----------------------------------------------------------------------------
(***************************************************************************)
(* The inductive invariant of the faucet holds in every state: address_    *)
(* last and ip_history are what check_and_record takes them for, every     *)
(* grant is in one place and the faucet's nonces have no gap.              *)
(***************************************************************************)
THEOREM FaucetInvariant == Spec => []FaucetInv
  <1>1. Init => FaucetInv
    BY Zenon, FaucetInitInv
  <1>2. FaucetInv /\ [Next]_vars => FaucetInv'
    BY Zenon, FaucetStepInv
  <1> QED
    BY <1>1, <1>2, PTL DEF Spec

(***************************************************************************)
(* check_and_record never grants two drips to one recipient less than the  *)
(* cooldown apart, although it reads the clock before it takes the mutex.  *)
(***************************************************************************)
THEOREM CooldownEnforced == Spec => []CooldownHolds
  <1>1. FaucetInv => CooldownHolds
    BY Zenon DEF FaucetInv, LimiterInv
  <1> QED
    BY <1>1, FaucetInvariant, PTL

(***************************************************************************)
(* The chain pays a grant at most once, and one recipient at most once per *)
(* cooldown, whatever times out, is delayed or is replaced on the way from *)
(* drip to the block.                                                      *)
(***************************************************************************)
THEOREM PaymentsCoolDown == Spec => []PaidWithinCooldown
  <1>1. FaucetInv => PaidWithinCooldown
    <2> SUFFICES ASSUME FaucetInv, NEW i \in 1..Len(paid), NEW j \in 1..Len(paid), i < j
                 PROVE  /\ paid[i] # paid[j]
                        /\ grants[paid[i]].to = grants[paid[j]].to =>
                             \/ grants[paid[i]].at >= grants[paid[j]].at + Cooldown
                             \/ grants[paid[j]].at >= grants[paid[i]].at + Cooldown
      BY Zenon DEF PaidWithinCooldown
    <2>1. paid \in Seq(1..Len(grants)) /\ Len(grants) \in Nat
      BY Zenon, GrantTypes DEF FaucetInv, FaucetTypeOK
    <2>2. paid[i] \in 1..Len(grants) /\ paid[j] \in 1..Len(grants)
      BY <2>1
    <2>3. paid[i] # paid[j]
      BY <2>1 DEF FaucetInv, GrantInOnePlace
    <2>4. grants[paid[i]].at \in Nat /\ grants[paid[j]].at \in Nat
      BY Zenon, <2>2, GrantTypes DEF FaucetInv
    <2>5. \A p, q \in 1..Len(grants) :
            p < q /\ grants[p].to = grants[q].to =>
              Cooldown = 0 \/ grants[q].at >= grants[p].at + Cooldown
      BY Zenon DEF FaucetInv, LimiterInv, CooldownHolds
    <2>6. paid[i] < paid[j] \/ paid[j] < paid[i]
      BY <2>1, <2>2, <2>3
    <2>7. grants[paid[i]].to = grants[paid[j]].to =>
            \/ Cooldown = 0
            \/ grants[paid[i]].at >= grants[paid[j]].at + Cooldown
            \/ grants[paid[j]].at >= grants[paid[i]].at + Cooldown
      BY Zenon, <2>2, <2>5, <2>6
    <2>8. Cooldown = 0 =>
            \/ grants[paid[i]].at >= grants[paid[j]].at + Cooldown
            \/ grants[paid[j]].at >= grants[paid[i]].at + Cooldown
      BY <2>4
    <2> QED
      BY Zenon, <2>3, <2>7, <2>8
  <1> QED
    BY <1>1, FaucetInvariant, PTL

(***************************************************************************)
(* No transaction of the faucet waits behind a missing nonce, for however  *)
(* many drips race between fetching the pending nonce and sending.         *)
(***************************************************************************)
THEOREM NoncesGapless == Spec => []NonceGapless
  <1>1. FaucetInv => NonceGapless
    BY Zenon DEF FaucetInv
  <1> QED
    BY <1>1, FaucetInvariant, PTL

(***************************************************************************)
(* check_and_record lets at most Limit drips of an address into any window *)
(* that is shorter than IP_WINDOW by the longest wait for the mutex, and   *)
(* turns a call away only for grants that were made and still count.       *)
(***************************************************************************)
THEOREM LimitsAreExact == Spec => LimitsExact
  <1>1. FaucetInv /\ IpLimitUpToSkew /\ [Next]_vars => IpLimitUpToSkew'
    BY Zenon, FaucetLimiterStep, IpLimitStep DEF FaucetInv
  <1>2. Init => FaucetInv /\ IpLimitUpToSkew
    <2> SUFFICES ASSUME Init, NEW ip \in Ip, NEW t \in 0..clock
                 PROVE  FaucetInv /\ Cardinality(GrantsIn(ip, t, Window - LockWait)) <= Limit
      BY Zenon, FaucetInitInv DEF IpLimitUpToSkew
    <2>1. GrantsIn(ip, t, Window - LockWait) = {}
      BY DEF GrantsIn, Init, LimiterInit
    <2> QED
      BY <2>1, FaucetInitInv, FS_EmptySet, LimiterAssumption
  <1>3. FaucetInv /\ [Next]_vars => FaucetInv'
    BY Zenon, FaucetStepInv
  <1>4. FaucetInv => DenialJustified
    BY Zenon, DenialIsJustified DEF FaucetInv
  <1>5. FaucetInv /\ IpLimitUpToSkew' => [IpLimitUpToSkew' /\ DenialJustified]_limiterVars
    BY Zenon, <1>4
  <1> QED
    BY <1>1, <1>2, <1>3, <1>5, PTL DEF Spec, LimitsExact
=============================================================================
