---------------------------- MODULE ExEx_proofs ----------------------------
(***************************************************************************)
(* The bookkeeping of the manager of execution extensions, proved for      *)
(* every block tree, every set of extensions, every capacity, whatever     *)
(* they report and whichever of the Hardships happen.                      *)
(***************************************************************************)
EXTENDS ExEx, BlockTreeTheorems

Notes == [old : SUBSET Block, new : SUBSET Block]

Received == [source : {"tree", "pipeline"}, n : Notes]

Fields == {"view", "astray", "head", "local", "phase", "next", "read", "pending", "chan", "events",
           "finished", "pos", "blocked"}

\* x has the fields of an extension
Shape(x) == x = [f \in Fields |-> x[f]]

\* y is for the manager what x is
SameHandle(y, x) == Shape(y) /\ y.pos = x.pos /\ y.chan = x.chan

\* y has this position and this channel
HasHandle(y, pos, chan) == Shape(y) /\ y.pos = pos /\ y.chan = chan

\* the manager's part of an extension, with a buffer of length k
HandleOK(x, k) == Shape(x) /\ x.pos \in 0..k /\ Len(x.chan) <= 1

Types ==
  /\ canon \in Block /\ db \in Block
  /\ broadcast \in Seq(Notes) /\ rx \in Seq(Received) /\ buffer \in Seq(Notes)
  /\ wake \in BOOLEAN /\ listening \in BOOLEAN /\ ready \in BOOLEAN
  /\ exex = [e \in ExExes |-> exex[e]]
  /\ \A e \in ExExes : HandleOK(exex[e], Len(buffer))

\* a manager that is neither woken nor to be woken by handle_rx waits for space
Awake == wake \/ listening \/ Len(buffer) = Capacity

ManagerInv == Types /\ ManagerSound /\ Awake

----------------------------------------------------------------------------
(***************************************************************************)
(* Numbers and sequences.                                                  *)
(***************************************************************************)
INSTANCE FiniteSetTheorems

\* A non-empty set of natural numbers has a least one, which Min finds.
LEMMA MinFacts ==
  ASSUME NEW S, S \subseteq Nat, S # {}
  PROVE  Min(S) \in S /\ \A y \in S : Min(S) <= y
<1> DEFINE R == OpToRel(<, Nat)
<1>1. IsWellFoundedOn(R, Nat)
  BY Zenon, NatLessThanWellFounded
<1>2. \A x, y \in Nat : x < y => <<x, y>> \in R
  BY Zenon DEF OpToRel
<1> HIDE DEF R
<1>3. PICK x \in S : \A y \in S : ~(<<y, x>> \in R)
  BY Zenon, <1>1, WFMin
<1>4. ASSUME NEW y \in S PROVE x <= y
  <2>1. x \in Nat /\ y \in Nat
    BY Zenon
  <2>2. ~(y < x)
    BY <2>1, <1>2, <1>3, Zenon
  <2> QED
    BY SMTT(30), <2>1, <2>2
<1> QED
  BY Zenon, <1>4 DEF Min

\* A sequence has a length, and only the empty one has none.
LEMMA LenFacts ==
  ASSUME NEW S, NEW s \in Seq(S)
  PROVE  Len(s) \in Nat /\ (s = <<>> <=> Len(s) = 0)
OBVIOUS

\* What is left of a sequence after its first k members.
LEMMA RestFacts ==
  ASSUME NEW S, NEW s \in Seq(S), NEW k \in 0..Len(s)
  PROVE  SubSeq(s, k + 1, Len(s)) \in Seq(S) /\ Len(SubSeq(s, k + 1, Len(s))) = Len(s) - k
OBVIOUS

\* The first k members of a sequence.
LEMMA PrefixFacts ==
  ASSUME NEW S, NEW s \in Seq(S), NEW k \in 0..Len(s)
  PROVE  SubSeq(s, 1, k) \in Seq(S) /\ Len(SubSeq(s, 1, k)) = k
OBVIOUS

\* The notifications that are drained go behind those that are buffered.
LEMMA DrainedFacts ==
  ASSUME NEW buf \in Seq(Notes), NEW taken \in Seq(Received)
  PROVE  LET all == buf \o [i \in DOMAIN taken |-> taken[i].n]
         IN  all \in Seq(Notes) /\ Len(all) = Len(buf) + Len(taken)
<1> DEFINE t == [i \in DOMAIN taken |-> taken[i].n]
<1>1. DOMAIN taken = 1..Len(taken) /\ Len(taken) \in Nat /\ \A i \in 1..Len(taken) : taken[i] \in Received
  OBVIOUS
<1>2. \A i \in 1..Len(taken) : taken[i].n \in Notes
  BY Zenon, <1>1 DEF Received
<1> HIDE DEF Received, Notes
<1>3. t \in Seq(Notes) /\ Len(t) = Len(taken)
  BY <1>1, <1>2
<1> HIDE DEF t
<1>4. buf \o t \in Seq(Notes) /\ Len(buf \o t) = Len(buf) + Len(t)
  BY <1>3
<1> QED
  BY <1>3, <1>4 DEF t

\* The blocks of a chain above a number make a notification.
LEMMA NotificationFacts ==
  ASSUME NEW a \in Block, NEW b \in Block, NEW m, NEW k
  PROVE  /\ Notification(ChainAbove(a, m), ChainAbove(b, k)) \in Notes
         /\ Notification({}, ChainAbove(b, k)) \in Notes
         /\ Notification(ChainAbove(a, m), {}) \in Notes
<1>1. ChainAbove(a, m) \subseteq Block /\ ChainAbove(b, k) \subseteq Block
  BY Zenon, ChainFacts DEF ChainAbove
<1> QED
  BY Zenon, <1>1 DEF Notification, Notes

----------------------------------------------------------------------------
(***************************************************************************)
(* One extension.                                                          *)
(***************************************************************************)

\* What an update of its other fields leaves alone.
LEMMA ExceptFacts ==
  ASSUME NEW x, Shape(x)
  PROVE  /\ \A f, q : SameHandle([x EXCEPT !.finished = f, !.events = q], x)
         /\ \A v, q : SameHandle([x EXCEPT !.view = v, !.events = q], x)
         /\ \A v, a : SameHandle([x EXCEPT !.head = v, !.astray = a], x)
         /\ \A t, k : SameHandle([x EXCEPT !.phase = t, !.next = k], x)
         /\ \A t : SameHandle([x EXCEPT !.phase = t], x)
         /\ \A r, k : SameHandle([x EXCEPT !.read = r, !.next = k], x)
         /\ \A r : SameHandle([x EXCEPT !.read = r], x)
         /\ \A p : SameHandle([x EXCEPT !.pending = p], x)
         /\ \A a : SameHandle([x EXCEPT !.astray = a], x)
         /\ \A b : SameHandle([x EXCEPT !.blocked = b], x)
<1>1. \A f, q : SameHandle([x EXCEPT !.finished = f, !.events = q], x)
  BY DEF SameHandle, Shape, Fields
<1>2. \A v, q : SameHandle([x EXCEPT !.view = v, !.events = q], x)
  BY DEF SameHandle, Shape, Fields
<1>3. \A v, a : SameHandle([x EXCEPT !.head = v, !.astray = a], x)
  BY DEF SameHandle, Shape, Fields
<1>4. \A t, k : SameHandle([x EXCEPT !.phase = t, !.next = k], x)
  BY DEF SameHandle, Shape, Fields
<1>5. \A t : SameHandle([x EXCEPT !.phase = t], x)
  BY DEF SameHandle, Shape, Fields
<1>6. \A r, k : SameHandle([x EXCEPT !.read = r, !.next = k], x)
  BY DEF SameHandle, Shape, Fields
<1>7. \A r : SameHandle([x EXCEPT !.read = r], x)
  BY DEF SameHandle, Shape, Fields
<1>8. \A p : SameHandle([x EXCEPT !.pending = p], x)
  BY DEF SameHandle, Shape, Fields
<1>9. \A a : SameHandle([x EXCEPT !.astray = a], x)
  BY DEF SameHandle, Shape, Fields
<1>10. \A b : SameHandle([x EXCEPT !.blocked = b], x)
  BY DEF SameHandle, Shape, Fields
<1> QED
  BY Zenon, <1>1, <1>2, <1>3, <1>4, <1>5, <1>6, <1>7, <1>8, <1>9, <1>10

\* What an update of what the manager keeps for an extension leaves alone.
LEMMA HandleFacts ==
  ASSUME NEW x, Shape(x)
  PROVE  /\ \A p : HasHandle([x EXCEPT !.pos = p], p, x.chan)
         /\ \A p, a : HasHandle([x EXCEPT !.pos = p, !.astray = a], p, x.chan)
         /\ \A c, p : HasHandle([x EXCEPT !.chan = c, !.pos = p], p, c)
         /\ \A c, b : HasHandle([x EXCEPT !.chan = c, !.blocked = b], x.pos, c)
<1>1. \A p : HasHandle([x EXCEPT !.pos = p], p, x.chan)
  BY DEF HasHandle, Shape, Fields
<1>2. \A p, a : HasHandle([x EXCEPT !.pos = p, !.astray = a], p, x.chan)
  BY DEF HasHandle, Shape, Fields
<1>3. \A c, p : HasHandle([x EXCEPT !.chan = c, !.pos = p], p, c)
  BY DEF HasHandle, Shape, Fields
<1>4. \A c, b : HasHandle([x EXCEPT !.chan = c, !.blocked = b], x.pos, c)
  BY DEF HasHandle, Shape, Fields
<1> QED
  BY Zenon, <1>1, <1>2, <1>3, <1>4

\* ExExHandle::send: the position stays within the buffer, and the channel has one slot.
LEMMA SendFacts ==
  ASSUME NEW x, NEW buf, Len(buf) \in Nat, HandleOK(x, Len(buf))
  PROVE  HandleOK(Send(x, buf), Len(buf))
<1> DEFINE y == Send(x, buf)
           n == buf[x.pos + 1]
<1>1. Shape(x) /\ x.pos \in 0..Len(buf) /\ Len(x.chan) <= 1
  BY Zenon DEF HandleOK
<1>2. CASE x.pos >= Len(buf)
  BY Zenon, <1>2 DEF Send
<1>3. CASE ~(x.pos >= Len(buf)) /\ Skips(x, n)
  <2>1. y = [x EXCEPT !.pos = x.pos + 1, !.astray = x.astray \/ Tip(n.new) \notin chain[x.view]]
    BY Zenon, <1>3 DEF Send, Skip
  <2> HIDE DEF y
  <2>2. HasHandle(y, x.pos + 1, x.chan)
    BY Zenon, <2>1, <1>1, HandleFacts
  <2>3. x.pos + 1 \in 0..Len(buf)
    BY <1>1, <1>3
  <2> QED
    BY Zenon, <1>1, <2>2, <2>3 DEF HandleOK, HasHandle, y
<1>4. CASE ~(x.pos >= Len(buf)) /\ ~Skips(x, n) /\ x.chan # <<>>
  <2>1. y = [x EXCEPT !.blocked = TRUE]
    BY Zenon, <1>4 DEF Send
  <2> HIDE DEF y
  <2>2. SameHandle(y, x)
    BY Zenon, <2>1, <1>1, ExceptFacts
  <2> QED
    BY Zenon, <1>1, <2>2 DEF HandleOK, SameHandle, y
<1>5. CASE ~(x.pos >= Len(buf)) /\ ~Skips(x, n) /\ ~(x.chan # <<>>)
  <2>1. y = [x EXCEPT !.chan = <<n>>, !.pos = x.pos + 1]
    BY Zenon, <1>5 DEF Send
  <2> HIDE DEF y
  <2>2. HasHandle(y, x.pos + 1, <<n>>)
    BY Zenon, <2>1, <1>1, HandleFacts
  <2>3. x.pos + 1 \in 0..Len(buf) /\ Len(<<n>>) <= 1
    BY <1>1, <1>5
  <2> QED
    BY Zenon, <2>2, <2>3 DEF HandleOK, HasHandle, y
<1> QED
  BY Zenon, <1>2, <1>3, <1>4, <1>5

\* What an extension does with a notification is nothing to the manager.
LEMMA GotFacts ==
  ASSUME NEW e \in ExExes, NEW x, Shape(x), NEW n
  PROVE  SameHandle(Got(e, x, n), x)
BY Zenon, ExceptFacts DEF Got

\* A notification leaves the channel.
LEMMA TakenFacts ==
  ASSUME NEW x, Shape(x)
  PROVE  HasHandle(Rest(x), x.pos, <<>>)
BY Zenon, HandleFacts DEF Rest

----------------------------------------------------------------------------
(***************************************************************************)
(* The steps of an extension.                                              *)
(***************************************************************************)

\* y, with its channel as it was or empty, takes the place of an extension.
LEMMA StreamKeeps ==
  ASSUME ManagerInv, NEW e \in ExExes, NEW y, StreamStep(e, y),
         Shape(y), y.pos = exex[e].pos, y.chan \in {exex[e].chan, <<>>},
         wake' \in BOOLEAN, wake => wake'
  PROVE  ManagerInv'
<1>1. /\ exex' = [exex EXCEPT ![e] = y]
      /\ UNCHANGED <<canon, db, broadcast, rx, buffer, ready, listening>>
  BY Zenon DEF StreamStep, node, manager
<1>2. exex = [d \in ExExes |-> exex[d]] /\ \A d \in ExExes : HandleOK(exex[d], Len(buffer))
  BY Zenon DEF ManagerInv, Types
<1>3. exex' = [d \in ExExes |-> exex'[d]] /\ \A d \in ExExes : exex'[d] = IF d = e THEN y ELSE exex[d]
  BY Zenon, <1>1, <1>2
<1>4. HandleOK(y, Len(buffer))
  <2>1. Len(<<>>) <= 1
    OBVIOUS
  <2> QED
    BY Zenon, <1>2, <2>1 DEF HandleOK
<1>5. \A d \in ExExes : HandleOK(exex'[d], Len(buffer)) /\ exex'[d].pos = exex[d].pos
  BY Zenon, <1>2, <1>3, <1>4
<1>6. Types'
  BY Zenon, <1>1, <1>3, <1>5 DEF ManagerInv, Types
<1>7. ManagerSound'
  BY Zenon, <1>1, <1>5 DEF ManagerInv, ManagerSound, HandleOK
<1>8. Awake'
  BY Zenon, <1>1 DEF ManagerInv, Awake
<1> QED
  BY Zenon, <1>6, <1>7, <1>8 DEF ManagerInv

\* Every step of the stream keeps the manager's bookkeeping.
LEMMA ExExStepKeeps ==
  ASSUME ManagerInv, NEW e \in ExExes, ExExStep(e)
  PROVE  ManagerInv'
<1> DEFINE x == exex[e]
<1>1. Shape(x)
  BY Zenon DEF ManagerInv, Types, HandleOK
<1>2. wake \in BOOLEAN
  BY Zenon DEF ManagerInv, Types
<1>3. CASE CheckCanonical(e)
  <2> DEFINE n == CommittedBy(wal, x.head)
  <2>1. CASE ~HeadIsCanonical(x) /\ n # None
    <3> DEFINE y == Got(e, x, Inverted(n))
               z == [y EXCEPT !.head = Parent(First(n.new)), !.astray = y.astray \/ n.old # {}]
    <3>1. StreamStep(e, z) /\ wake' = (wake \/ Reports(e, Inverted(n)))
      BY Zenon, <1>3, <2>1 DEF CheckCanonical
    <3>2. SameHandle(y, x)
      BY Zenon, <1>1, GotFacts
    <3> HIDE DEF y
    <3>3. SameHandle(z, y)
      <4>1. Shape(y)
        BY Zenon, <3>2 DEF SameHandle
      <4>2. \A v, a : SameHandle([y EXCEPT !.head = v, !.astray = a], y)
        BY Zenon, <4>1, ExceptFacts
      <4> QED
        BY Zenon, <4>2
    <3> HIDE DEF z
    <3> QED
      BY Zenon, <1>2, <3>1, <3>2, <3>3, StreamKeeps DEF SameHandle
  <2>2. CASE ~(~HeadIsCanonical(x) /\ n # None) /\ (HeadIsCanonical(x) \/ number[x.head] > number[x.local])
    <3>1. StreamStep(e, CheckBackfill(x)) /\ wake' = wake
      BY Zenon, <1>3, <2>2 DEF CheckCanonical
    <3>2. SameHandle(CheckBackfill(x), x)
      BY Zenon, <1>1, ExceptFacts DEF CheckBackfill
    <3> QED
      BY Zenon, <1>2, <3>1, <3>2, StreamKeeps DEF SameHandle
  <2>3. CASE ~(~HeadIsCanonical(x) /\ n # None) /\ ~(HeadIsCanonical(x) \/ number[x.head] > number[x.local])
    <3>1. StreamStep(e, x) /\ wake' = wake
      BY Zenon, <1>3, <2>3 DEF CheckCanonical
    <3> QED
      BY Zenon, <1>1, <1>2, <3>1, StreamKeeps
  <2> QED
    BY Zenon, <2>1, <2>2, <2>3
<1>4. CASE BackfillReads(e)
  <2> DEFINE y == [x EXCEPT !.read = x.read \cup {BlockAt(canon, x.next)}, !.next = x.next + 1]
  <2>1. (StreamStep(e, x) \/ StreamStep(e, y)) /\ wake' = wake
    BY Zenon, <1>4 DEF BackfillReads
  <2>2. SameHandle(y, x)
    BY Zenon, <1>1, ExceptFacts
  <2> HIDE DEF y
  <2> QED
    BY Zenon, <1>1, <1>2, <2>1, <2>2, StreamKeeps DEF SameHandle
<1>5. CASE BackfillYields(e)
  <2> DEFINE n == Notification({}, x.read)
             y == Got(e, x, n)
             z == [y EXCEPT !.read = {}]
  <2>1. StreamStep(e, z) /\ wake' = (wake \/ Reports(e, n))
    BY Zenon, <1>5 DEF BackfillYields
  <2>2. SameHandle(y, x)
    BY Zenon, <1>1, GotFacts
  <2> HIDE DEF y
  <2>3. SameHandle(z, y)
    BY Zenon, <2>2, ExceptFacts DEF SameHandle
  <2> HIDE DEF z
  <2> QED
    BY Zenon, <1>2, <2>1, <2>2, <2>3, StreamKeeps DEF SameHandle
<1>6. CASE BackfillEnds(e)
  <2> DEFINE y == [x EXCEPT !.phase = "live"]
  <2>1. StreamStep(e, y) /\ wake' = wake
    BY Zenon, <1>6 DEF BackfillEnds
  <2>2. SameHandle(y, x)
    BY Zenon, <1>1, ExceptFacts
  <2> HIDE DEF y
  <2> QED
    BY Zenon, <1>2, <2>1, <2>2, StreamKeeps DEF SameHandle
<1>7. CASE DrainChannel(e)
  <2> DEFINE y == Rest(x)
             z == [y EXCEPT !.pending = IF Covered(x, Head(x.chan)) THEN y.pending
                                        ELSE Append(y.pending, Head(x.chan))]
  <2>1. StreamStep(e, z) /\ wake' = (wake \/ x.blocked \/ FALSE)
    BY Zenon, <1>7 DEF DrainChannel, Taken
  <2>2. HasHandle(y, x.pos, <<>>)
    BY Zenon, <1>1, TakenFacts
  <2> HIDE DEF y
  <2>3. SameHandle(z, y)
    BY Zenon, <2>2, ExceptFacts DEF HasHandle
  <2> HIDE DEF z
  <2> QED
    BY Zenon, <1>2, <2>1, <2>2, <2>3, StreamKeeps DEF SameHandle, HasHandle
<1>8. CASE DeliverPending(e)
  <2> DEFINE n == Head(x.pending)
             y == Got(e, x, n)
             z == [y EXCEPT !.pending = Tail(y.pending)]
  <2>1. StreamStep(e, z) /\ wake' = (wake \/ Reports(e, n))
    BY Zenon, <1>8 DEF DeliverPending
  <2>2. SameHandle(y, x)
    BY Zenon, <1>1, GotFacts
  <2> HIDE DEF y
  <2>3. SameHandle(z, y)
    BY Zenon, <2>2, ExceptFacts DEF SameHandle
  <2> HIDE DEF z
  <2> QED
    BY Zenon, <1>2, <2>1, <2>2, <2>3, StreamKeeps DEF SameHandle
<1>9. CASE Deliver(e)
  <2> DEFINE n == Head(x.chan)
             y == Rest(x)
             z1 == [y EXCEPT !.astray = y.astray \/ Tip(n.new) \notin chain[x.view]]
             z2 == Got(e, y, n)
  <2>1. /\ StreamStep(e, z1) \/ StreamStep(e, z2)
        /\ wake' = (wake \/ x.blocked \/ (~Passed(x, n) /\ Reports(e, n)))
    BY Zenon, <1>9 DEF Deliver, Taken
  <2>2. HasHandle(y, x.pos, <<>>)
    BY Zenon, <1>1, TakenFacts
  <2> HIDE DEF y
  <2>3. SameHandle(z1, y) /\ SameHandle(z2, y)
    BY Zenon, <2>2, ExceptFacts, GotFacts DEF HasHandle
  <2> HIDE DEF z1, z2
  <2> QED
    BY Zenon, <1>2, <2>1, <2>2, <2>3, StreamKeeps DEF SameHandle, HasHandle
<1> QED
  BY Zenon, <1>3, <1>4, <1>5, <1>6, <1>7, <1>8, <1>9 DEF ExExStep

----------------------------------------------------------------------------
(***************************************************************************)
(* The steps of the node.                                                  *)
(***************************************************************************)

\* A step that leaves the manager alone, but for waking it.
LEMMA NodeKeeps ==
  ASSUME ManagerInv, canon' \in Block, db' \in Block, broadcast' \in Seq(Notes),
         UNCHANGED <<rx, buffer, ready, listening, exex>>,
         wake' \in BOOLEAN, wake => wake'
  PROVE  ManagerInv'
<1>1. Types'
  BY Zenon DEF ManagerInv, Types
<1>2. ManagerSound'
  BY Zenon DEF ManagerInv, ManagerSound
<1>3. Awake'
  BY Zenon DEF ManagerInv, Awake
<1> QED
  BY Zenon, <1>1, <1>2, <1>3 DEF ManagerInv

\* A notification is sent to the manager, which is woken if it listens.
LEMMA ReceivesKeeps ==
  ASSUME ManagerInv, NEW r \in Received, rx' = Append(rx, r),
         canon' \in Block, db' \in Block, broadcast' \in Seq(Notes),
         UNCHANGED <<buffer, ready, exex>>,
         wake' = (wake \/ listening), listening' = FALSE
  PROVE  ManagerInv'
<1>1. rx' \in Seq(Received)
  BY DEF ManagerInv, Types
<1>2. wake' \in BOOLEAN /\ listening' \in BOOLEAN
  BY Zenon
<1>3. Types'
  BY Zenon, <1>1, <1>2 DEF ManagerInv, Types
<1>4. wake' \/ Len(buffer) = Capacity
  BY Zenon DEF ManagerInv, Awake
<1>5. ManagerSound'
  BY Zenon, <1>4 DEF ManagerInv, ManagerSound
<1>6. Awake'
  BY Zenon, <1>4 DEF Awake
<1> QED
  BY Zenon, <1>3, <1>5, <1>6 DEF ManagerInv

\* The canonical head moves.
LEMMA UpdateKeeps ==
  ASSUME ManagerInv, NEW b \in Block, Update(b)
  PROVE  ManagerInv'
<1> DEFINE fork == number[ForkPoint(canon, b)]
           n == Notification(ChainAbove(canon, fork), ChainAbove(b, fork))
<1>1. /\ canon \in Block /\ db \in Block /\ broadcast \in Seq(Notes) /\ wake \in BOOLEAN
  BY Zenon DEF ManagerInv, Types
<1>2. n \in Notes
  BY Zenon, <1>1, NotificationFacts
<1>3. /\ canon' = b /\ UNCHANGED <<db, rx, buffer, ready, listening, exex, wake>>
      /\ \/ broadcast' = broadcast
         \/ Len(broadcast) > Lag /\ broadcast' = <<Head(broadcast)>>
         \/ broadcast' = Append(broadcast, n)
  BY ZenonT(30) DEF Update, manager
<1> HIDE DEF n
<1>4. broadcast' \in Seq(Notes)
  <2>1. ASSUME Len(broadcast) > Lag PROVE <<Head(broadcast)>> \in Seq(Notes)
    <3>1. Lag \in Nat
      BY Zenon, ExExAssumption
    <3>2. Len(broadcast) > 0
      BY <1>1, <2>1, <3>1
    <3> QED
      BY <1>1, <3>2
  <2>2. Append(broadcast, n) \in Seq(Notes)
    BY <1>1, <1>2
  <2> QED
    BY Zenon, <1>1, <1>3, <2>1, <2>2
<1> QED
  BY Zenon, <1>1, <1>3, <1>4, NodeKeeps

\* A block is finalized, found to be, or the database moves.
LEMMA NodeStepKeeps ==
  ASSUME ManagerInv, NEW b \in Block, Finalize(b) \/ UpdateFinalized \/ Persist(b)
  PROVE  ManagerInv'
<1>1. /\ canon \in Block /\ db \in Block /\ broadcast \in Seq(Notes) /\ wake \in BOOLEAN
  BY Zenon DEF ManagerInv, Types
<1>2. /\ UNCHANGED <<canon, broadcast, rx, buffer, ready, listening, exex>>
      /\ db' \in {db, b} /\ (wake' = wake \/ wake' = TRUE)
  BY Zenon DEF Finalize, UpdateFinalized, Persist, manager
<1>3. wake' \in BOOLEAN /\ (wake => wake')
  <2>1. CASE wake' = wake
    BY Zenon, <1>1, <2>1
  <2>2. CASE wake' = TRUE
    BY Zenon, <2>2
  <2> QED
    BY Zenon, <1>2, <2>1, <2>2
<1> QED
  BY Zenon, <1>1, <1>2, <1>3, NodeKeeps

\* The forwarding task passes a notification on, or ends.
LEMMA ForwardKeeps ==
  ASSUME ManagerInv, Forward
  PROVE  ManagerInv'
<1>1. /\ canon \in Block /\ db \in Block /\ broadcast \in Seq(Notes) /\ wake \in BOOLEAN
  BY Zenon DEF ManagerInv, Types
<1>2. UNCHANGED <<canon, db, buffer, ready, exex>>
  BY Zenon DEF Forward, node
<1>3. CASE UNCHANGED <<rx, broadcast, wake, listening>>
  BY Zenon, <1>1, <1>2, <1>3, NodeKeeps
<1>4. CASE /\ broadcast # <<>>
           /\ rx' = Append(rx, [source |-> "tree", n |-> Head(broadcast)])
           /\ broadcast' = Tail(broadcast)
           /\ wake' = (wake \/ listening)
           /\ listening' = FALSE
  <2>1. Head(broadcast) \in Notes /\ Tail(broadcast) \in Seq(Notes)
    BY <1>1, <1>4
  <2>2. [source |-> "tree", n |-> Head(broadcast)] \in Received
    BY Zenon, <2>1 DEF Received
  <2> QED
    BY Zenon, <1>1, <1>2, <1>4, <2>1, <2>2, ReceivesKeeps
<1> QED
  BY Zenon, <1>3, <1>4 DEF Forward

\* The pipeline tells the manager of what it has committed or unwound.
LEMMA PipelineKeeps ==
  ASSUME ManagerInv, NEW b \in Block, PipelineCommit(b) \/ PipelineUnwind(b)
  PROVE  ManagerInv'
<1>1. db \in Block /\ broadcast \in Seq(Notes)
  BY Zenon DEF ManagerInv, Types
<1>2. \E n \in Notes : PipelineSends(b, n)
  BY Zenon, <1>1, NotificationFacts DEF PipelineCommit, PipelineUnwind
<1>3. PICK n \in Notes : PipelineSends(b, n)
  BY Zenon, <1>2
<1> DEFINE r == [source |-> "pipeline", n |-> n]
<1>4. r \in Received
  BY Zenon DEF Received
<1>5. /\ canon' = b /\ db' = b /\ UNCHANGED <<broadcast, buffer, ready, exex>>
      /\ rx' = Append(rx, r)
      /\ wake' = (wake \/ listening) /\ listening' = FALSE
  BY Zenon, <1>3 DEF PipelineSends
<1> HIDE DEF r
<1> QED
  BY Zenon, <1>1, <1>4, <1>5, ReceivesKeeps

----------------------------------------------------------------------------
(***************************************************************************)
(* A poll of the manager.                                                  *)
(***************************************************************************)

\* What is drained fits into the buffer, and what is left in handle_rx found it full.
LEMMA RoomFacts ==
  ASSUME ManagerInv
  PROVE  /\ Room \in 0..Len(rx) /\ Len(buffer) \in Nat /\ Len(rx) \in Nat
         /\ Len(buffer) + Room <= Capacity
         /\ Len(rx) - Room > 0 => Len(buffer) + Room = Capacity
<1>1. Len(buffer) \in Nat /\ Len(rx) \in Nat /\ Len(buffer) <= Capacity
  BY Zenon, LenFacts DEF ManagerInv, Types, ManagerSound
<1>2. Capacity \in Nat
  BY Zenon, ExExAssumption
<1> DEFINE m == Len(buffer)
           n == Len(rx)
<1>3. Room = LeastOf(SaturatingSub(Capacity, m), n)
  BY Zenon DEF Room
<1> HIDE DEF m, n
<1>4. m \in Nat /\ n \in Nat /\ m <= Capacity
  BY Zenon, <1>1 DEF m, n
<1>5. Room \in 0..n /\ m + Room <= Capacity /\ (n - Room > 0 => m + Room = Capacity)
  BY <1>2, <1>3, <1>4 DEF LeastOf, SaturatingSub
<1> QED
  BY Zenon, <1>1, <1>5 DEF m, n

\* The end of poll: what all extensions have been sent leaves the buffer.
LEMMA SettleFacts ==
  ASSUME NEW buf \in Seq(Notes), NEW x, \A e \in ExExes : HandleOK(x[e], Len(buf)),
         Settle(x, buf, Min({x[e].pos : e \in ExExes}))
  PROVE  /\ buffer' \in Seq(Notes)
         /\ exex' = [e \in ExExes |-> exex'[e]]
         /\ \A e \in ExExes : HandleOK(exex'[e], Len(buffer'))
         /\ \E e \in ExExes : exex'[e].pos = 0
         /\ Len(buffer') <= Len(buf)
         /\ ready' = (Len(buffer') < Capacity)
         /\ wake' = (Len(buf) >= Capacity /\ Len(buffer') < Capacity)
         /\ listening' = (listening \/ Len(buf) < Capacity)
<1> DEFINE S == {x[e].pos : e \in ExExes}
           least == Min(S)
           y == [e \in ExExes |-> [x[e] EXCEPT !.pos = x[e].pos - least]]
<1>1. Len(buf) \in Nat
  BY Zenon, LenFacts
<1>2. ASSUME NEW e \in ExExes
      PROVE  x[e].pos \in Nat /\ x[e].pos <= Len(buf) /\ Shape(x[e]) /\ Len(x[e].chan) <= 1
  <2>1. HandleOK(x[e], Len(buf))
    BY Zenon
  <2>2. x[e].pos \in 0..Len(buf) /\ Shape(x[e]) /\ Len(x[e].chan) <= 1
    BY Zenon, <2>1 DEF HandleOK
  <2> DEFINE p == x[e].pos
             k == Len(buf)
  <2>3. p \in 0..k /\ k \in Nat
    BY Zenon, <1>1, <2>2
  <2> HIDE DEF p, k
  <2>4. p \in Nat /\ p <= k
    BY <2>3
  <2> QED
    BY Zenon, <2>2, <2>4 DEF p, k
<1>3. PICK a \in ExExes : least = x[a].pos
  <2>1. S \subseteq Nat /\ S # {}
    BY Zenon, <1>2, ExExAssumption
  <2>2. least \in S
    <3> HIDE DEF S
    <3> QED
      BY Zenon, <2>1, MinFacts
  <2> HIDE DEF least
  <2> QED
    BY Zenon, <2>2
<1>4. \A e \in ExExes : least <= x[e].pos
  <2>1. S \subseteq Nat /\ S # {} /\ \A e \in ExExes : x[e].pos \in S
    BY Zenon, <1>2, ExExAssumption
  <2> HIDE DEF S
  <2> QED
    BY Zenon, <2>1, MinFacts
<1>5. /\ exex' = y
      /\ buffer' = SubSeq(buf, least + 1, Len(buf))
      /\ ready' = (Len(buf) - least < Capacity)
      /\ wake' = (Len(buf) >= Capacity /\ Len(buf) - least < Capacity)
      /\ listening' = (listening \/ Len(buf) < Capacity)
  BY Zenon DEF Settle, Shift
<1> HIDE DEF least
<1>6. least \in 0..Len(buf)
  <2>1. least \in Nat /\ least <= Len(buf)
    BY Zenon, <1>2, <1>3
  <2> QED
    BY <1>1, <2>1
<1>7. buffer' \in Seq(Notes) /\ Len(buffer') = Len(buf) - least
  BY <1>5, <1>6, RestFacts, Zenon
<1>8. exex' = [e \in ExExes |-> exex'[e]]
  BY Zenon, <1>5
<1>9. \A e \in ExExes : HasHandle(exex'[e], x[e].pos - least, x[e].chan)
  BY Zenon, <1>2, <1>5, HandleFacts
<1>10. ASSUME NEW e \in ExExes PROVE HandleOK(exex'[e], Len(buffer'))
  <2> DEFINE p == x[e].pos
             k == Len(buf)
  <2>1. p \in Nat /\ k \in Nat /\ p <= k /\ least <= p /\ least \in 0..k
    BY Zenon, <1>1, <1>2, <1>4, <1>6
  <2> HIDE DEF p, k
  <2>2. p - least \in 0..(k - least)
    BY <2>1
  <2> QED
    BY Zenon, <1>2, <1>7, <1>9, <2>2 DEF HandleOK, HasHandle, p, k
<1>11. exex'[a].pos = 0
  <2>1. exex'[a].pos = least - least
    BY Zenon, <1>3, <1>9 DEF HasHandle
  <2> QED
    BY <1>6, <2>1
<1>12. Len(buffer') <= Len(buf)
  BY <1>1, <1>6, <1>7
<1> QED
  BY Zenon, <1>5, <1>7, <1>8, <1>10, <1>11, <1>12

\* handle_events leaves alone where the extensions are in the buffer.
LEMMA HandleEventsFacts ==
  ASSUME ManagerInv, NEW e \in ExExes
  PROVE  SameHandle(HandleEvents(exex)[e], exex[e])
<1>1. Shape(exex[e])
  BY Zenon DEF ManagerInv, Types, HandleOK
<1> QED
  BY Zenon, <1>1, ExceptFacts DEF HandleEvents

\* A poll of the manager.
LEMMA PollKeeps ==
  ASSUME ManagerInv, Poll
  PROVE  ManagerInv'
<1> DEFINE x == HandleEvents(exex)
           v == RemoveFiles(wal, FinalizedFiles(wal, x, news))
           taken == SubSeq(rx, 1, Room)
           all == buffer \o [i \in DOMAIN taken |-> taken[i].n]
           sent == [e \in ExExes |-> Send(x[e], all)]
<1>1. Drain(x, v, taken) /\ UNCHANGED <<canon, db, broadcast>>
  BY Zenon DEF Poll, node
<1>2. /\ rx \in Seq(Received) /\ buffer \in Seq(Notes)
      /\ canon \in Block /\ db \in Block /\ broadcast \in Seq(Notes) /\ listening \in BOOLEAN
  BY Zenon DEF ManagerInv, Types
<1>3. /\ Room \in 0..Len(rx) /\ Len(buffer) \in Nat /\ Len(rx) \in Nat
      /\ Len(buffer) + Room <= Capacity
      /\ Len(rx) - Room > 0 => Len(buffer) + Room = Capacity
  BY Zenon, RoomFacts
<1>4. taken \in Seq(Received) /\ Len(taken) = Room
  BY Zenon, <1>2, <1>3, PrefixFacts
<1>5. rx' = SubSeq(rx, Room + 1, Len(rx)) /\ SendAll(x, all)
  <2> HIDE DEF taken
  <2> QED
    BY Zenon, <1>1, <1>4 DEF Drain
<1>6. rx' \in Seq(Received) /\ Len(rx') = Len(rx) - Room
  BY Zenon, <1>2, <1>3, <1>5, RestFacts
<1>7. all \in Seq(Notes) /\ Len(all) = Len(buffer) + Room
  <2> HIDE DEF taken
  <2> QED
    BY Zenon, <1>2, <1>4, DrainedFacts
<1> HIDE DEF all
<1>8. Settle(sent, all, Min({sent[e].pos : e \in ExExes}))
  <2> HIDE DEF x
  <2> QED
    BY Zenon, <1>5 DEF SendAll
<1>9. ASSUME NEW e \in ExExes PROVE HandleOK(sent[e], Len(all))
  <2>1. HandleOK(exex[e], Len(buffer)) /\ SameHandle(x[e], exex[e])
    BY Zenon, HandleEventsFacts DEF ManagerInv, Types
  <2>2. x[e].pos \in 0..Len(buffer) /\ Shape(x[e]) /\ Len(x[e].chan) <= 1
    BY Zenon, <2>1 DEF HandleOK, SameHandle
  <2> DEFINE p == x[e].pos
  <2> HIDE DEF x
  <2>3. p \in 0..Len(buffer)
    BY Zenon, <2>2
  <2> HIDE DEF p
  <2>4. p \in 0..Len(all) /\ Len(all) \in Nat
    BY <1>3, <1>7, <2>3
  <2>5. HandleOK(x[e], Len(all))
    BY Zenon, <2>2, <2>4 DEF HandleOK, p
  <2>6. HandleOK(Send(x[e], all), Len(all))
    BY Zenon, <2>4, <2>5, SendFacts
  <2> QED
    BY Zenon, <2>6
<1> HIDE DEF sent
<1>10. /\ buffer' \in Seq(Notes)
       /\ exex' = [e \in ExExes |-> exex'[e]]
       /\ \A e \in ExExes : HandleOK(exex'[e], Len(buffer'))
       /\ \E e \in ExExes : exex'[e].pos = 0
       /\ Len(buffer') <= Len(all)
       /\ ready' = (Len(buffer') < Capacity)
       /\ wake' = (Len(all) >= Capacity /\ Len(buffer') < Capacity)
       /\ listening' = (listening \/ Len(all) < Capacity)
  BY Zenon, <1>7, <1>8, <1>9, SettleFacts
<1> DEFINE k == Len(buffer')
<1>11. wake' \in BOOLEAN /\ listening' \in BOOLEAN /\ ready' \in BOOLEAN
  <2>1. /\ (Len(all) >= Capacity /\ Len(buffer') < Capacity) \in BOOLEAN
        /\ (listening \/ Len(all) < Capacity) \in BOOLEAN
        /\ (Len(buffer') < Capacity) \in BOOLEAN
    OBVIOUS
  <2> QED
    BY <1>10, <2>1
<1>12. Types'
  BY Zenon, <1>1, <1>2, <1>6, <1>10, <1>11 DEF Types
<1>13. k \in Nat /\ Capacity \in Nat
  BY Zenon, <1>10, LenFacts, ExExAssumption
<1>14. k <= Capacity
  <2>1. k <= Len(all) /\ Len(all) <= Capacity /\ Len(all) \in Nat
    BY <1>3, <1>7, <1>10
  <2> HIDE DEF k
  <2> QED
    BY <1>13, <2>1
<1>15. rx' # <<>> => Len(all) = Capacity
  <2>1. rx' # <<>> => Len(rx') > 0
    BY <1>6
  <2> QED
    BY Zenon, <1>3, <1>6, <1>7, <2>1
<1>16. Len(all) = Capacity => wake' \/ k = Capacity
  <2>1. k < Capacity \/ k = Capacity
    <3> HIDE DEF k
    <3> QED
      BY <1>13, <1>14
  <2>2. Len(all) = Capacity => Len(all) >= Capacity
    BY <1>13
  <2> QED
    BY Zenon, <1>10, <2>1, <2>2
<1>17. ManagerSound'
  BY Zenon, <1>10, <1>14, <1>15, <1>16 DEF ManagerSound, HandleOK
<1>18. Awake'
  <2>1. Len(all) < Capacity \/ Len(all) = Capacity
    BY <1>3, <1>7, <1>13
  <2> QED
    BY Zenon, <1>10, <1>16, <2>1 DEF Awake
<1> QED
  BY Zenon, <1>12, <1>17, <1>18 DEF ManagerInv

----------------------------------------------------------------------------

\* An extension when the node is launched.
LEMMA LaunchedFacts ==
  ASSUME NEW view, NEW astray, NEW local
  PROVE  HandleOK(Launched(view, astray, local), 0)
<1> DEFINE x == Launched(view, astray, local)
<1>1. Shape(x)
  BY DEF Shape, Fields, Launched
<1>2. x.pos = 0 /\ x.chan = <<>>
  BY Zenon DEF Launched
<1> HIDE DEF x
<1>3. 0 \in 0..0 /\ Len(<<>>) <= 1
  OBVIOUS
<1> QED
  BY Zenon, <1>1, <1>2, <1>3 DEF HandleOK, x

\* The node is launched again.
LEMMA RestartKeeps ==
  ASSUME ManagerInv, NEW w, Restart(w)
  PROVE  ManagerInv'
<1>1. /\ canon' = db /\ db' = db /\ broadcast' = <<>> /\ rx' = <<>> /\ buffer' = <<>>
      /\ ready' = TRUE /\ listening' = FALSE /\ wake' = TRUE
      /\ exex' = [e \in ExExes |-> Launched(exex[e].view, exex[e].astray, db)]
  BY Zenon DEF Restart
<1>2. db \in Block
  BY Zenon DEF ManagerInv, Types
<1>3. exex' = [e \in ExExes |-> exex'[e]] /\ \A e \in ExExes : HandleOK(exex'[e], 0)
  BY Zenon, <1>1, LaunchedFacts
<1>4. Len(<<>>) = 0 /\ <<>> \in Seq(Notes) /\ <<>> \in Seq(Received)
  OBVIOUS
<1>5. Types'
  BY Zenon, <1>1, <1>2, <1>3, <1>4 DEF Types
<1>6. 0 < Capacity /\ 0 <= Capacity
  BY ExExAssumption
<1>7. ManagerSound'
  BY Zenon, <1>1, <1>3, <1>4, <1>6 DEF ManagerSound, HandleOK
<1> QED
  BY Zenon, <1>1, <1>5, <1>7 DEF ManagerInv, Awake

\* Nothing changes.
LEMMA StutterKeeps ==
  ASSUME ManagerInv, UNCHANGED vars
  PROVE  ManagerInv'
<1>1. /\ canon \in Block /\ db \in Block /\ broadcast \in Seq(Notes) /\ wake \in BOOLEAN
  BY Zenon DEF ManagerInv, Types
<1>2. UNCHANGED <<canon, db, broadcast, rx, buffer, ready, listening, wake, exex>>
  BY Zenon DEF vars
<1> QED
  BY Zenon, <1>1, <1>2, NodeKeeps

\* The bookkeeping of the manager is sound for every tree of blocks, number of extensions
\* and capacity of the buffer, whatever extensions report and whatever happens besides:
\* ExExManager::poll never panics on the id of a notification, buffers no more than it has
\* room for, and leaves no notification in handle_rx without being woken for it or full.
THEOREM ManagerIsSound == Spec => []ManagerSound
<1>1. Init => ManagerInv
  <2> SUFFICES ASSUME Init PROVE ManagerInv
    OBVIOUS
  <2>1. /\ canon = Genesis /\ db = Genesis /\ broadcast = <<>> /\ rx = <<>> /\ buffer = <<>>
        /\ ready = TRUE /\ listening = FALSE /\ wake = TRUE
        /\ exex = [e \in ExExes |-> Launched(Genesis, FALSE, Genesis)]
    BY Zenon DEF Init
  <2>2. Genesis \in Block
    BY Zenon, BlockTreeAssumption
  <2>3. exex = [e \in ExExes |-> exex[e]] /\ \A e \in ExExes : HandleOK(exex[e], 0)
    BY Zenon, <2>1, LaunchedFacts
  <2>4. Len(<<>>) = 0 /\ <<>> \in Seq(Notes) /\ <<>> \in Seq(Received)
    OBVIOUS
  <2>5. Types
    BY Zenon, <2>1, <2>2, <2>3, <2>4 DEF Types
  <2>6. 0 < Capacity /\ 0 <= Capacity
    BY ExExAssumption
  <2>7. ManagerSound
    BY Zenon, <2>1, <2>3, <2>4, <2>6 DEF ManagerSound, HandleOK
  <2> QED
    BY Zenon, <2>1, <2>5, <2>7 DEF ManagerInv, Awake
<1>2. ManagerInv /\ [Next]_vars => ManagerInv'
  <2> SUFFICES ASSUME ManagerInv, [Next]_vars PROVE ManagerInv'
    OBVIOUS
  <2>1. CASE \E b \in Block : Update(b) \/ Finalize(b) \/ Persist(b)
                              \/ PipelineCommit(b) \/ PipelineUnwind(b)
    BY Zenon, <2>1, UpdateKeeps, NodeStepKeeps, PipelineKeeps
  <2>2. CASE UpdateFinalized
    <3>1. Genesis \in Block
      BY Zenon, BlockTreeAssumption
    <3> QED
      BY Zenon, <2>2, <3>1, NodeStepKeeps
  <2>3. CASE Forward
    BY Zenon, <2>3, ForwardKeeps
  <2>4. CASE Poll
    BY Zenon, <2>4, PollKeeps
  <2>5. CASE \E e \in ExExes : ExExStep(e)
    BY Zenon, <2>5, ExExStepKeeps
  <2>6. CASE Crash
    BY Zenon, <2>6, RestartKeeps DEF Crash
  <2>7. CASE CrashInPoll
    BY Zenon, <2>7, RestartKeeps DEF CrashInPoll
  <2>8. CASE UNCHANGED vars
    BY Zenon, <2>8, StutterKeeps
  <2> QED
    BY Zenon, <2>1, <2>2, <2>3, <2>4, <2>5, <2>6, <2>7, <2>8 DEF Next
<1>3. ManagerInv => ManagerSound
  BY Zenon DEF ManagerInv
<1> QED
  BY <1>1, <1>2, <1>3, PTL DEF Spec
=============================================================================
