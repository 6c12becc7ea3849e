--------------------------- MODULE Network_proofs ---------------------------
(***************************************************************************)
(* The slot counters and the peer table of the network, proved for every   *)
(* set of peers and every limit.  IInv, about counters and connected       *)
(* peers, is inductive; BackedInv, about peers that are being dialled,     *)
(* disconnected or backed off, is inductive relative to it.                *)
(*                                                                         *)
(* Every hook of the PeersManager has two lemmas.  One says what it leaves *)
(* to be done: what it marks as passing has a request in the queue         *)
(* (Orderly).  The other is about the counters of ConnectionInfo: it takes *)
(* a sound manager to a sound one (Sound: its counters cover its table),   *)
(* leaves the count of pending incoming sessions alone, and marks no       *)
(* further peer as connected (Calm).                                       *)
(***************************************************************************)
EXTENDS Network, TLAPS

Outgoing == {"out", "disc_out"}
Incoming == {"in", "disc_in"}
Dial == {"pending_out"}
Off == {"absent", "idle", "pending_out"}

In(m, S) == {q \in Peers : m.peers[q].state \in S}

\* The fields of the manager and of its entries that the argument looks at.
Shape(m) ==
    /\ {"peers", "num_outbound", "num_pending_out", "num_inbound",
        "num_pending_in", "trusted", "banned", "backoffs", "queue", "net"}
          \subseteq DOMAIN m
    /\ m.num_outbound \in Int /\ m.num_pending_out \in Int
    /\ m.num_inbound \in Int /\ m.num_pending_in \in Int
    /\ DOMAIN m.peers = Peers
    /\ \A q \in Peers : /\ "state" \in DOMAIN m.peers[q]
                        /\ m.peers[q].state \in States

Sound(m) ==
    /\ Shape(m)
    /\ m.num_outbound >= Cardinality(In(m, Outgoing))
    /\ m.num_inbound >= Cardinality(In(m, Incoming))
    /\ m.num_pending_out = Cardinality(In(m, Dial))

\* No peer becomes connected, or connected the other way round.
Calm(m, n) ==
    \A q \in Peers : /\ n.peers[q].state \in Incoming => m.peers[q].state \in Incoming
                     /\ n.peers[q].state \in Outgoing => m.peers[q].state \in Outgoing

\* What every hook but those of an established session does.
Quiet(m, n) == Sound(n) /\ Calm(m, n) /\ n.num_pending_in = m.num_pending_in

One(s, S) == IF s \in S THEN 1 ELSE 0

-----------------------------------------------------------------------------
(* What a hook leaves to be done.                                           *)

Requests == {"connect", "disconnect"} \X Peers

Manager ==
    [peers : [Peers -> Entry], num_outbound : Int, num_pending_out : Int,
     num_inbound : Int, num_pending_in : Int, trusted : SUBSET Peers,
     banned : [Peers -> {"no", "until", "forever"}], backoffs : SUBSET Peers,
     queue : Seq(Requests), net : {"active", "hibernate", "shutting_down"}]

Waits(m, kind, p) == \E i \in 1 .. Len(m.queue) : m.queue[i] = <<kind, p>>
Listed(m) == \A p \in Peers : m.peers[p].backed_off => p \in m.backoffs
Leaving == {"disc_in", "disc_out"}

\* A hook takes nothing back from the queue, and an entry it marks as being
\* dialled or disconnected has a request in the queue.
Orderly(m, n) ==
    /\ n \in Manager /\ Listed(n)
    /\ \A kind, q : Waits(m, kind, q) => Waits(n, kind, q)
    /\ \A q \in Peers : n.peers[q].state = "pending_out" =>
          m.peers[q].state = "pending_out" \/ Waits(n, "connect", q)
    /\ \A q \in Peers : n.peers[q].state \in Leaving =>
          m.peers[q].state \in Leaving \/ Waits(n, "disconnect", q)

\* A hook about one peer leaves the entries of the others alone.
Edits(m, n, p) == Orderly(m, n) /\ \A q \in Peers \ {p} : n.peers[q] = m.peers[q]

\* The table does not lose a connected peer.
InSight(m, n, p) ==
    m.peers[p].state \in {"in", "out"} => n.peers[p].state \in Incoming \cup Outgoing

\* Every change of a manager has this form: one entry is replaced, and at most
\* one request about it is queued.
Change(m, n, p, e, kinds) ==
    /\ n \in Manager /\ e \in Entry
    /\ n.peers = [m.peers EXCEPT ![p] = e]
    /\ m.backoffs \subseteq n.backoffs
    /\ e.backed_off => p \in n.backoffs
    /\ \/ kinds = {} /\ n.queue = m.queue
       \/ \E kind \in {"connect", "disconnect"} :
             kinds = {kind} /\ n.queue = Append(m.queue, <<kind, p>>)
    /\ e.state = "pending_out" => m.peers[p].state = "pending_out" \/ "connect" \in kinds
    /\ e.state \in Leaving => m.peers[p].state \in Leaving \/ "disconnect" \in kinds

\* What Append does to a sequence.
LEMMA AppendFacts ==
    ASSUME NEW S, NEW s \in Seq(S), NEW r \in S
    PROVE  /\ Len(Append(s, r)) = Len(s) + 1
           /\ Append(s, r)[Len(s) + 1] = r
           /\ \A i \in 1 .. Len(s) : Append(s, r)[i] = s[i]
OBVIOUS

\* A request that is appended is in the queue, with those before it.
LEMMA AppendWaits ==
    ASSUME NEW m \in Manager, NEW n \in Manager, NEW r \in Requests,
           n.queue = Append(m.queue, r)
    PROVE  /\ \A kind, q : Waits(m, kind, q) => Waits(n, kind, q)
           /\ \A kind, q : r = <<kind, q>> => Waits(n, kind, q)
<1>1. m.queue \in Seq(Requests) /\ Len(m.queue) \in Nat
  BY DEF Manager
<1> DEFINE s == m.queue
           t == n.queue
<1>2. t = Append(s, r) /\ s \in Seq(Requests)
  BY Zenon, <1>1
<1> HIDE DEF s, t
<1>3. Len(t) = Len(s) + 1 /\ t[Len(s) + 1] = r /\ \A i \in 1 .. Len(s) : t[i] = s[i]
  BY <1>2, AppendFacts
<1>4. Len(s) \in Nat
  BY <1>2
<1>5. ASSUME NEW kind, NEW q, Waits(m, kind, q) PROVE Waits(n, kind, q)
  <2>1. PICK i \in 1 .. Len(s) : s[i] = <<kind, q>>
    BY Zenon, <1>5 DEF Waits, s
  <2>2. i \in 1 .. Len(t) /\ t[i] = <<kind, q>>
    BY <2>1, <1>3, <1>4
  <2> QED BY Zenon, <2>2 DEF Waits, t
<1>6. ASSUME NEW kind, NEW q, r = <<kind, q>> PROVE Waits(n, kind, q)
  <2>1. Len(s) + 1 \in 1 .. Len(t) /\ t[Len(s) + 1] = <<kind, q>>
    BY SMTT(30), <1>6, <1>3, <1>4
  <2> QED BY Zenon, <2>1 DEF Waits, t
<1> QED BY Zenon, <1>5, <1>6

\* Such a change is orderly.
LEMMA ChangeEdits ==
    ASSUME NEW m \in Manager, Listed(m), NEW n, NEW p \in Peers, NEW e, NEW kinds,
           Change(m, n, p, e, kinds)
    PROVE  Edits(m, n, p) /\ n.peers[p] = e
<1>1. n \in Manager /\ DOMAIN m.peers = Peers
      /\ n.peers[p] = e /\ \A q \in Peers \ {p} : n.peers[q] = m.peers[q]
  BY SMTT(30) DEF Change, Manager
<1>2. Listed(n)
  BY Zenon, <1>1 DEF Change, Listed
<1>3. /\ \A kind, q : Waits(m, kind, q) => Waits(n, kind, q)
      /\ \A kind \in kinds : Waits(n, kind, p)
  <2>1. CASE kinds = {} /\ n.queue = m.queue
    BY Zenon, <2>1 DEF Waits
  <2>2. ASSUME NEW kind \in {"connect", "disconnect"}, kinds = {kind},
               n.queue = Append(m.queue, <<kind, p>>)
        PROVE  /\ \A kd, q : Waits(m, kd, q) => Waits(n, kd, q)
               /\ \A kd \in kinds : Waits(n, kd, p)
    BY Zenon, <1>1, <2>2, AppendWaits DEF Requests
  <2> QED BY Zenon, <2>1, <2>2 DEF Change
<1> QED BY <1>1, <1>2, <1>3 DEF Edits, Orderly, Change

\* Orderly changes add up.
LEMMA OrderlyTwice ==
    ASSUME NEW m, NEW n, NEW o, Orderly(m, n), Orderly(n, o)
    PROVE  Orderly(m, o)
BY Zenon DEF Orderly

\* A hook that returns early is orderly.
LEMMA OrderlySelf ==
    ASSUME NEW m \in Manager, Listed(m) PROVE Orderly(m, m)
BY Zenon DEF Orderly

\* Entries that come and go have the type of an entry.
LEMMA EntryTypes ==
    /\ Absent \in Entry
    /\ \A kind \in Kinds : Known(kind) \in Entry
    /\ \A r \in MinReputation .. 0, by \in Nat : Lowered(r, by) \in MinReputation .. 0
<1>1. MaxLoss \in Nat /\ MinReputation \in Int /\ MinReputation <= 0
      /\ 0 \in MinReputation .. 0 /\ 0 \in 0 .. MaxBackoff
  BY NetworkAssumption DEF MinReputation
<1>2. Absent \in Entry
  BY Zenon, <1>1 DEF Absent, Entry, States, Kinds
<1>3. \A kind \in Kinds : Known(kind) \in Entry
  BY Zenon, <1>1 DEF Known, Absent, Entry, States, Kinds
<1>4. \A r \in MinReputation .. 0, by \in Nat : Lowered(r, by) \in MinReputation .. 0
  BY <1>1 DEF Lowered
<1> QED BY Zenon, <1>2, <1>3, <1>4

\* Queuing a request changes the queue only, replacing an entry the table only.
LEMMA PushFields ==
    ASSUME NEW m \in Manager, NEW p \in Peers, NEW kind \in {"connect", "disconnect"}
    PROVE  LET n == Push(m, kind, p) IN
           /\ n \in Manager /\ n.peers = m.peers /\ n.backoffs = m.backoffs
           /\ n.queue = Append(m.queue, <<kind, p>>)
<1>1. <<kind, p>> \in Requests
  BY Zenon DEF Requests
<1>2. m.queue \in Seq(Requests)
  BY Zenon DEF Manager
<1>3. Append(m.queue, <<kind, p>>) \in Seq(Requests)
  BY <1>1, <1>2
<1> QED BY Zenon, <1>3 DEF Push, Manager

\* Replacing an entry.
LEMMA EntryFields ==
    ASSUME NEW m \in Manager, NEW p \in Peers, NEW e \in Entry
    PROVE  LET n == [m EXCEPT !.peers[p] = e] IN
           /\ n \in Manager /\ n.peers = [m.peers EXCEPT ![p] = e]
           /\ n.backoffs = m.backoffs /\ n.queue = m.queue /\ n.trusted = m.trusted
           /\ n.banned = m.banned
BY Zenon, SMTT(30) DEF Manager

\* remove_peer.
LEMMA RemovePeerEdits ==
    ASSUME NEW m \in Manager, Listed(m), NEW p \in Peers
    PROVE  LET n == RemovePeer(m, p) IN Edits(m, n, p) /\ InSight(m, n, p)
<1> DEFINE e == m.peers[p]
           g == [e EXCEPT !.remove = TRUE, !.state = Disconnecting(@)]
           n == RemovePeer(m, p)
<1>0. e \in Entry /\ DOMAIN m.peers = Peers
  BY Zenon DEF Manager
<1>1. CASE ~Tracked(m, p) \/ IsTrusted(e)
  <2>1. n = m
    BY Zenon, <1>1 DEF RemovePeer
  <2> QED BY Zenon, <2>1, OrderlySelf DEF Edits, InSight, Incoming, Outgoing
<1>2. CASE Tracked(m, p) /\ ~IsTrusted(e) /\ IsConnected(e.state)
  <2>1. n = Push([m EXCEPT !.peers[p] = g], "disconnect", p)
    BY Zenon, <1>2 DEF RemovePeer
  <2>2. g \in Entry /\ g.state = Disconnecting(e.state) /\ g.backed_off = e.backed_off
    BY Zenon, <1>0 DEF Entry, Disconnecting, States
  <2> HIDE DEF g
  <2> DEFINE s == [m EXCEPT !.peers[p] = g]
  <2>a. s \in Manager /\ s.peers = [m.peers EXCEPT ![p] = g]
        /\ s.backoffs = m.backoffs /\ s.queue = m.queue
    BY <2>2, EntryFields
  <2> HIDE DEF s, n
  <2>3. n \in Manager /\ n.peers = [m.peers EXCEPT ![p] = g]
        /\ n.backoffs = m.backoffs /\ n.queue = Append(m.queue, <<"disconnect", p>>)
    BY Zenon, <2>1, <2>a, PushFields DEF s
  <2>4. Change(m, n, p, g, {"disconnect"})
    BY Zenon, <2>2, <2>3 DEF Change, Listed, Disconnecting
  <2>5. Edits(m, n, p) /\ n.peers[p] = g
    BY Zenon, <2>4, ChangeEdits
  <2> QED BY Zenon, <2>2, <2>5 DEF InSight, Incoming, Outgoing, Disconnecting, n
<1>3. CASE Tracked(m, p) /\ ~IsTrusted(e) /\ ~IsConnected(e.state)
  <2>1. n = [m EXCEPT !.peers[p] = Absent]
    BY Zenon, <1>3 DEF RemovePeer
  <2> HIDE DEF n
  <2>3. n \in Manager /\ n.peers = [m.peers EXCEPT ![p] = Absent]
        /\ n.backoffs = m.backoffs /\ n.queue = m.queue
    BY <2>1, EntryTypes, EntryFields
  <2>4. Change(m, n, p, Absent, {})
    BY Zenon, <2>3, EntryTypes DEF Change, Absent, Leaving
  <2>5. Edits(m, n, p)
    BY Zenon, <2>4, ChangeEdits
  <2> QED BY Zenon, <1>3, <2>5 DEF InSight, IsConnected, n
<1> QED BY Zenon, <1>1, <1>2, <1>3

\* Edits of the same entry add up.
LEMMA EditsTwice ==
    ASSUME NEW m, NEW n, NEW o, NEW p, Edits(m, n, p), Edits(n, o, p)
    PROVE  Edits(m, o, p)
BY Zenon, OrderlyTwice DEF Edits

\* What a hook does outside the table and the queue is orderly, provided it
\* takes no peer off the back-off list.
LEMMA AsideEdits ==
    ASSUME NEW m \in Manager, Listed(m), NEW p \in Peers, NEW n \in Manager,
           n.peers = m.peers, n.queue = m.queue, m.backoffs \subseteq n.backoffs
    PROVE  Edits(m, n, p) /\ InSight(m, n, p)
<1>1. \A kind, q : Waits(m, kind, q) => Waits(n, kind, q)
  BY Zenon DEF Waits
<1> QED BY Zenon, <1>1 DEF Edits, Orderly, Listed, InSight, Incoming, Outgoing

\* A change of an entry that leaves its state and its back-off alone.
LEMMA KeptStateEdits ==
    ASSUME NEW m \in Manager, Listed(m), NEW p \in Peers, NEW e \in Entry,
           e.state = m.peers[p].state, e.backed_off = m.peers[p].backed_off
    PROVE  LET n == [m EXCEPT !.peers[p] = e] IN
           n \in Manager /\ Edits(m, n, p) /\ InSight(m, n, p) /\ Listed(n)
<1> DEFINE n == [m EXCEPT !.peers[p] = e]
<1>1. n \in Manager /\ n.peers = [m.peers EXCEPT ![p] = e]
      /\ n.backoffs = m.backoffs /\ n.queue = m.queue
  BY EntryFields
<1> HIDE DEF n
<1>2. Change(m, n, p, e, {})
  BY Zenon, <1>1 DEF Change, Listed
<1>3. Edits(m, n, p) /\ n.peers[p] = e
  BY <1>2, ChangeEdits
<1> QED BY Zenon, <1>1, <1>3 DEF InSight, Incoming, Outgoing, Edits, Orderly, n

\* ban_peer and ban_peer_by_admin write to the ban list.
LEMMA BanPeerEdits ==
    ASSUME NEW m \in Manager, Listed(m), NEW p \in Peers, NEW q \in Peers,
           NEW ban \in {"no", "until", "forever"}
    PROVE  LET n == [m EXCEPT !.banned[q] = ban] IN
           n.peers = m.peers /\ Edits(m, n, p) /\ InSight(m, n, p)
<1> DEFINE n == [m EXCEPT !.banned[q] = ban]
<1>1. n \in Manager /\ n.peers = m.peers /\ n.queue = m.queue /\ n.backoffs = m.backoffs
  BY Zenon DEF Manager
<1> HIDE DEF n
<1> QED BY Zenon, <1>1, AsideEdits DEF n

\* ban_peer_by_admin.
LEMMA BanPeerByAdminEdits ==
    ASSUME NEW m \in Manager, Listed(m), NEW p \in Peers
    PROVE  LET n == BanPeerByAdmin(m, p) IN Edits(m, n, p) /\ InSight(m, n, p)
<1> DEFINE r == RemovePeer(m, p)
           n == [r EXCEPT !.banned[p] = "forever"]
<1>1. Edits(m, r, p) /\ InSight(m, r, p)
  BY Zenon, RemovePeerEdits
<1> HIDE DEF r
<1>2. r \in Manager /\ Listed(r)
  BY Zenon, <1>1 DEF Edits, Orderly
<1>3. n.peers = r.peers /\ Edits(r, n, p)
  BY Zenon, <1>2, BanPeerEdits
<1> HIDE DEF n
<1>4. Edits(m, n, p) /\ InSight(m, n, p)
  BY Zenon, <1>1, <1>3, EditsTwice DEF InSight
<1>5. Edits(m, m, p) /\ InSight(m, m, p)
  BY Zenon, OrderlySelf DEF Edits, InSight, Incoming, Outgoing
<1> QED BY Zenon, <1>4, <1>5 DEF BanPeerByAdmin, n, r

\* add_trusted_peer_id's list of trusted peers.
LEMMA TrustEdits ==
    ASSUME NEW m \in Manager, Listed(m), NEW p \in Peers, NEW kind
    PROVE  LET n == Trust(m, p, kind) IN
           n \in Manager /\ n.peers = m.peers /\ Edits(m, n, p) /\ InSight(m, n, p)
<1> DEFINE n == Trust(m, p, kind)
<1>1. n \in Manager /\ n.peers = m.peers /\ n.queue = m.queue /\ n.backoffs = m.backoffs
  BY DEF Manager, Trust
<1> HIDE DEF n
<1> QED BY Zenon, <1>1, AsideEdits DEF n

\* add_peer_kind.
LEMMA AddPeerKindEdits ==
    ASSUME NEW m \in Manager, Listed(m), NEW p \in Peers, NEW kind \in Kinds \cup {"any"}
    PROVE  LET n == AddPeerKind(m, p, kind) IN Edits(m, n, p) /\ InSight(m, n, p)
<1> DEFINE e == m.peers[p]
           k == IF kind = "any" THEN e.kind ELSE kind
           g == IF Tracked(m, p) THEN [e EXCEPT !.kind = k, !.remove = @ /\ e.state # "in"]
                ELSE Known(k)
           c == [m EXCEPT !.peers[p] = g]
           n == AddPeerKind(m, p, kind)
<1>0. e \in Entry
  BY Zenon DEF Manager
<1>1. k \in Kinds
  BY Zenon, <1>0 DEF Entry
<1>2. /\ g \in Entry
      /\ \/ g.state = e.state /\ g.backed_off = e.backed_off
         \/ e.state = "absent" /\ g.state = "idle" /\ g.backed_off = FALSE
  <2>1. CASE Tracked(m, p)
    BY Zenon, <1>0, <1>1, <2>1 DEF Entry
  <2>2. CASE ~Tracked(m, p)
    <3>1. g = Known(k)
      BY Zenon, <2>2
    <3>2. Known(k) \in Entry /\ Known(k).state = "idle" /\ Known(k).backed_off = FALSE
      BY Zenon, <1>1, EntryTypes DEF Known, Absent
    <3> QED BY Zenon, <2>2, <3>1, <3>2 DEF Tracked
  <2> QED BY Zenon, <2>1, <2>2
<1>3. n = m \/ n = Trust(c, p, kind)
  BY Zenon DEF AddPeerKind
<1> HIDE DEF g, n
<1>4. c \in Manager /\ c.peers = [m.peers EXCEPT ![p] = g]
      /\ c.backoffs = m.backoffs /\ c.queue = m.queue
  BY <1>2, EntryFields
<1> HIDE DEF c
<1>5. Change(m, c, p, g, {})
  BY Zenon, <1>2, <1>4 DEF Change, Listed, Leaving
<1>6. Edits(m, c, p) /\ c.peers[p] = g
  BY Zenon, <1>5, ChangeEdits
<1>7. Listed(c)
  BY Zenon, <1>6 DEF Edits, Orderly
<1>8. LET t == Trust(c, p, kind) IN Edits(c, t, p) /\ t.peers = c.peers
  BY Zenon, <1>4, <1>7, TrustEdits
<1>9. CASE n = Trust(c, p, kind)
  BY Zenon, <1>2, <1>6, <1>8, <1>9, EditsTwice DEF InSight, Incoming, Outgoing, n
<1>10. CASE n = m
  BY Zenon, <1>10, OrderlySelf DEF Edits, InSight, Incoming, Outgoing, n
<1> QED BY Zenon, <1>3, <1>9, <1>10

\* add_and_connect_kind queues a request with the state it sets.
LEMMA AddAndConnectKindEdits ==
    ASSUME NEW m \in Manager, Listed(m), NEW p \in Peers, NEW kind \in Kinds
    PROVE  LET n == AddAndConnectKind(m, p, kind) IN Edits(m, n, p) /\ InSight(m, n, p)
<1> DEFINE e == m.peers[p]
           o == [m EXCEPT !.num_pending_out = @ + 1]
           u == Push(o, "connect", p)
           a == [Known(kind) EXCEPT !.state = "pending_out"]
           i == [[e EXCEPT !.kind = kind] EXCEPT !.state = "pending_out"]
           k == [e EXCEPT !.kind = kind]
           c == CASE ~Tracked(m, p) -> [u EXCEPT !.peers[p] = a]
                  [] m.peers[p].state = "idle" ->
                       [u EXCEPT !.peers[p].kind = kind, !.peers[p].state = "pending_out"]
                  [] OTHER -> [m EXCEPT !.peers[p].kind = kind]
           n == AddAndConnectKind(m, p, kind)
<1>0. e \in Entry
  BY Zenon DEF Manager
<1>1. /\ a \in Entry /\ a.state = "pending_out" /\ a.backed_off = FALSE
      /\ i \in Entry /\ i.state = "pending_out" /\ i.backed_off = e.backed_off
      /\ k \in Entry /\ k.state = e.state /\ k.backed_off = e.backed_off
  <2>1. /\ i \in Entry /\ i.state = "pending_out" /\ i.backed_off = e.backed_off
        /\ k \in Entry /\ k.state = e.state /\ k.backed_off = e.backed_off
    BY Zenon, <1>0 DEF Entry, States
  <2>2. Known(kind) \in Entry /\ Known(kind).backed_off = FALSE
    BY Zenon, EntryTypes DEF Known, Absent
  <2>3. a \in Entry /\ a.state = "pending_out" /\ a.backed_off = FALSE
    BY Zenon, <2>2 DEF Entry, States
  <2> QED BY Zenon, <2>1, <2>3
<1>2. n = m \/ n = Trust(c, p, kind)
  BY Zenon DEF AddAndConnectKind
<1>3. /\ u \in Manager /\ u.peers = m.peers /\ u.backoffs = m.backoffs
      /\ u.queue = Append(m.queue, <<"connect", p>>)
  <2>1. /\ o \in Manager /\ o.peers = m.peers /\ o.backoffs = m.backoffs
        /\ o.queue = m.queue
    BY SMTT(30) DEF Manager
  <2>2. u = Push(o, "connect", p)
    BY Zenon
  <2> HIDE DEF o, u, c, a, i, k
  <2> QED BY SMTT(30), <2>1, <2>2, PushFields
<1>4. \/ ~Tracked(m, p) /\ c = [u EXCEPT !.peers[p] = a]
      \/ e.state = "idle" /\ c = [u EXCEPT !.peers[p] = i]
      \/ Tracked(m, p) /\ e.state # "idle" /\ c = [m EXCEPT !.peers[p] = k]
  <2>1. CASE ~Tracked(m, p)
    BY Zenon, <2>1 DEF Tracked
  <2>2. CASE e.state = "idle"
    <3>1. c = [u EXCEPT !.peers[p].kind = kind, !.peers[p].state = "pending_out"]
      BY Zenon, <2>2 DEF Tracked
    <3> HIDE DEF c, u
    <3>2. c = [u EXCEPT !.peers[p] = i]
      BY Zenon, <1>0, <1>3, <3>1 DEF Manager
    <3> QED BY Zenon, <2>2, <3>2
  <2>3. CASE Tracked(m, p) /\ e.state # "idle"
    BY Zenon, <2>3 DEF Tracked
  <2> QED BY Zenon, <2>1, <2>2, <2>3
<1> HIDE DEF a, i, k, u, c, n
<1>5. ASSUME NEW g \in Entry, g.state = "pending_out",
             g.backed_off => g.backed_off = e.backed_off,
             e.state \in {"absent", "idle"}, c = [u EXCEPT !.peers[p] = g]
      PROVE  Edits(m, c, p) /\ InSight(m, c, p)
  <2>1. c \in Manager /\ c.peers = [m.peers EXCEPT ![p] = g]
        /\ c.backoffs = m.backoffs /\ c.queue = Append(m.queue, <<"connect", p>>)
    BY <1>3, <1>5, EntryFields
  <2>2. Change(m, c, p, g, {"connect"})
    BY Zenon, <1>5, <2>1 DEF Change, Listed, Leaving
  <2> QED BY Zenon, <1>5, <2>2, ChangeEdits DEF InSight
<1>6. Edits(m, c, p) /\ InSight(m, c, p)
  <2>1. CASE Tracked(m, p) /\ e.state # "idle" /\ c = [m EXCEPT !.peers[p] = k]
    BY Zenon, <1>1, <2>1, KeptStateEdits
  <2> QED BY Zenon, <1>1, <1>4, <1>5, <2>1 DEF Tracked
<1>7. c \in Manager /\ Listed(c)
  BY Zenon, <1>6 DEF Edits, Orderly
<1>8. LET t == Trust(c, p, kind) IN Edits(c, t, p) /\ t.peers = c.peers
  BY Zenon, <1>7, TrustEdits
<1>9. CASE n = Trust(c, p, kind)
  BY Zenon, <1>6, <1>8, <1>9, EditsTwice DEF InSight, n
<1>10. CASE n = m
  BY Zenon, <1>10, OrderlySelf DEF Edits, InSight, Incoming, Outgoing, n
<1> QED BY Zenon, <1>2, <1>9, <1>10

\* The commands that change an entry's kind or its reputation.
LEMMA KindAndReputationEdits ==
    ASSUME NEW m \in Manager, Listed(m), NEW p \in Peers
    PROVE  /\ LET n == AddTrustedPeerId(m, p) IN Edits(m, n, p) /\ InSight(m, n, p)
           /\ LET n == RemovePeerFromTrustedSet(m, p) IN Edits(m, n, p) /\ InSight(m, n, p)
           /\ LET n == OnResolvedPeer(m, p) IN Edits(m, n, p) /\ InSight(m, n, p)
           /\ LET n == UnbanPeerByAdmin(m, p) IN Edits(m, n, p) /\ InSight(m, n, p)
           /\ LET n == ResetReputation(m, p) IN Edits(m, n, p) /\ InSight(m, n, p)
           /\ LET n == [m EXCEPT !.banned[p] = "no", !.peers[p].reputation = 0]
              IN  Edits(m, n, p) /\ InSight(m, n, p)
<1> DEFINE e == m.peers[p]
<1>0. e \in Entry /\ 0 \in MinReputation .. 0
  BY NetworkAssumption DEF Manager, MinReputation
<1>self. Edits(m, m, p) /\ InSight(m, m, p)
  BY Zenon, OrderlySelf DEF Edits, InSight, Incoming, Outgoing
<1>two. ASSUME NEW c, NEW n \in Manager, Edits(m, c, p), InSight(m, c, p),
               n.peers = c.peers, n.queue = c.queue, n.backoffs = c.backoffs
        PROVE  Edits(m, n, p) /\ InSight(m, n, p)
  <2>1. c \in Manager /\ Listed(c)
    BY Zenon, <1>two DEF Edits, Orderly
  <2>2. Edits(c, n, p)
    BY Zenon, <1>two, <2>1, AsideEdits
  <2> QED BY Zenon, <1>two, <2>2, EditsTwice DEF InSight
<1>set. ASSUME NEW g \in Entry, g.state = e.state, g.backed_off = e.backed_off,
               NEW n, n \in Manager, n.peers = [m.peers EXCEPT ![p] = g],
               n.queue = m.queue, n.backoffs = m.backoffs
        PROVE  Edits(m, n, p) /\ InSight(m, n, p)
  <2> DEFINE c == [m EXCEPT !.peers[p] = g]
  <2>1. Edits(m, c, p) /\ InSight(m, c, p)
    BY Zenon, <1>set, KeptStateEdits
  <2>2. c.peers = [m.peers EXCEPT ![p] = g] /\ c.queue = m.queue /\ c.backoffs = m.backoffs
    BY <1>set, EntryFields
  <2> HIDE DEF c
  <2> QED BY Zenon, <1>set, <1>two, <2>1, <2>2
<1>kind. \A kind \in Kinds : LET g == [e EXCEPT !.kind = kind] IN
           g \in Entry /\ g.state = e.state /\ g.backed_off = e.backed_off
  BY Zenon, <1>0 DEF Entry
<1>rep. \A r \in MinReputation .. 0 : LET g == [e EXCEPT !.reputation = r] IN
           g \in Entry /\ g.state = e.state /\ g.backed_off = e.backed_off
  BY Zenon, <1>0 DEF Entry
<1>1. LET n == AddTrustedPeerId(m, p) IN Edits(m, n, p) /\ InSight(m, n, p)
  <2> DEFINE n == AddTrustedPeerId(m, p)
             g == [e EXCEPT !.kind = "trusted"]
  <2>1. g \in Entry /\ g.state = e.state /\ g.backed_off = e.backed_off
    BY Zenon, <1>kind DEF Kinds
  <2>2. CASE Tracked(m, p)
    <3>1. n \in Manager /\ n.peers = [m.peers EXCEPT ![p] = g]
          /\ n.queue = m.queue /\ n.backoffs = m.backoffs
      BY Zenon, <2>1, <2>2 DEF AddTrustedPeerId, Trust, Manager
    <3> HIDE DEF n, g
    <3> QED BY Zenon, <1>set, <2>1, <3>1 DEF n
  <2>3. CASE ~Tracked(m, p)
    BY Zenon, <2>3, TrustEdits DEF AddTrustedPeerId
  <2> QED BY Zenon, <2>2, <2>3
<1>2. LET n == RemovePeerFromTrustedSet(m, p) IN Edits(m, n, p) /\ InSight(m, n, p)
  <2> DEFINE n == RemovePeerFromTrustedSet(m, p)
             g == [e EXCEPT !.kind = "basic"]
  <2>1. g \in Entry /\ g.state = e.state /\ g.backed_off = e.backed_off
    BY Zenon, <1>kind DEF Kinds
  <2>2. n = m \/ n = [m EXCEPT !.peers[p].kind = "basic", !.trusted = @ \ {p}]
    BY Zenon DEF RemovePeerFromTrustedSet
  <2> HIDE DEF n
  <2>3. ASSUME n = [m EXCEPT !.peers[p].kind = "basic", !.trusted = @ \ {p}]
        PROVE  Edits(m, n, p) /\ InSight(m, n, p)
    <3>1. n \in Manager /\ n.peers = [m.peers EXCEPT ![p] = g]
          /\ n.queue = m.queue /\ n.backoffs = m.backoffs
      BY Zenon, <2>1, <2>3 DEF Manager
    <3> HIDE DEF g
    <3> QED BY Zenon, <1>set, <2>1, <3>1
  <2>4. Edits(m, n, p) /\ InSight(m, n, p)
    BY Zenon, <1>self, <2>2, <2>3
  <2> QED BY Zenon, <2>4 DEF n
<1>3. LET n == OnResolvedPeer(m, p) IN Edits(m, n, p) /\ InSight(m, n, p)
  BY Zenon, <1>self, AddPeerKindEdits DEF OnResolvedPeer, Kinds
<1>4. LET n == UnbanPeerByAdmin(m, p) IN Edits(m, n, p) /\ InSight(m, n, p)
  <2> DEFINE n == UnbanPeerByAdmin(m, p)
             r == IF IsBanned(m.peers[p]) THEN 0 ELSE e.reputation
             g == [e EXCEPT !.reputation = r]
  <2>1. r \in MinReputation .. 0
    BY Zenon, <1>0 DEF Entry
  <2>2. g \in Entry /\ g.state = e.state /\ g.backed_off = e.backed_off
    BY Zenon, <1>rep, <2>1
  <2>3. n \in Manager /\ n.peers = [m.peers EXCEPT ![p] = g]
        /\ n.queue = m.queue /\ n.backoffs = m.backoffs
    BY Zenon, <2>2 DEF UnbanPeerByAdmin, Manager
  <2> HIDE DEF n, g
  <2> QED BY Zenon, <1>set, <2>2, <2>3 DEF n
<1>5. LET n == ResetReputation(m, p) IN Edits(m, n, p) /\ InSight(m, n, p)
  <2> DEFINE g == [e EXCEPT !.reputation = 0]
  <2>1. g \in Entry /\ g.state = e.state /\ g.backed_off = e.backed_off
    BY Zenon, <1>0, <1>rep
  <2>2. ResetReputation(m, p) = m \/ ResetReputation(m, p) = [m EXCEPT !.peers[p] = g]
    BY Zenon DEF ResetReputation
  <2> QED BY Zenon, <1>self, <2>1, <2>2, KeptStateEdits
<1>6. LET n == [m EXCEPT !.banned[p] = "no", !.peers[p].reputation = 0]
      IN  Edits(m, n, p) /\ InSight(m, n, p)
  <2> DEFINE n == [m EXCEPT !.banned[p] = "no", !.peers[p].reputation = 0]
             g == [e EXCEPT !.reputation = 0]
  <2>1. g \in Entry /\ g.state = e.state /\ g.backed_off = e.backed_off
    BY Zenon, <1>0, <1>rep
  <2>2. n \in Manager /\ n.peers = [m.peers EXCEPT ![p] = g]
        /\ n.queue = m.queue /\ n.backoffs = m.backoffs
    BY Zenon, <2>1 DEF Manager
  <2> HIDE DEF n, g
  <2> QED BY Zenon, <1>set, <2>1, <2>2 DEF n
<1> QED BY Zenon, <1>1, <1>2, <1>3, <1>4, <1>5, <1>6

\* apply_reputation_change: the ban of a connected peer queues the request
\* that goes with the state it sets.
LEMMA ApplyReputationChangeEdits ==
    ASSUME NEW m \in Manager, Listed(m), NEW p \in Peers, NEW cost \in Nat
    PROVE  LET n == ApplyReputationChange(m, p, cost) IN Edits(m, n, p) /\ InSight(m, n, p)
<1> DEFINE e == m.peers[p]
           r == Lowered(e.reputation, IF Favoured(e) /\ cost > 1 THEN 1 ELSE cost)
           k == [e EXCEPT !.reputation = r]
           g == [k EXCEPT !.state = Disconnecting(e.state)]
           c == [m EXCEPT !.peers[p] = k]
           d == [m EXCEPT !.peers[p] = g]
           n == ApplyReputationChange(m, p, cost)
<1>0. e \in Entry /\ DOMAIN m.peers = Peers
  BY Zenon DEF Manager
<1>1. r \in MinReputation .. 0
  <2>1. (IF Favoured(e) /\ cost > 1 THEN 1 ELSE cost) \in Nat /\ e.reputation \in MinReputation .. 0
    BY Zenon, <1>0 DEF Entry
  <2> QED BY Zenon, <2>1, EntryTypes
<1> HIDE DEF r
<1>2. /\ k \in Entry /\ k.state = e.state /\ k.backed_off = e.backed_off
      /\ g \in Entry /\ g.state = Disconnecting(e.state) /\ g.backed_off = e.backed_off
  BY Zenon, <1>0, <1>1 DEF Entry, Disconnecting, States
<1>3. /\ c = [m EXCEPT !.peers[p].reputation = r]
      /\ SetState(c, p, Disconnecting(e.state)) = d
  <2>1. c = [m EXCEPT !.peers[p].reputation = r]
    BY Zenon
  <2>2. c.peers = [m.peers EXCEPT ![p] = k] /\ c.peers[p] = k
    BY <1>0, <1>2, EntryFields
  <2>3. SetState(c, p, Disconnecting(e.state))
          = [c EXCEPT !.peers = [c.peers EXCEPT ![p] = g]]
    BY Zenon, <2>2 DEF SetState
  <2>4. [c EXCEPT !.peers = [c.peers EXCEPT ![p] = g]] = d
    <3> HIDE DEF g, k
    <3> QED BY Zenon, <1>0, <2>2 DEF Manager
  <2> QED BY Zenon, <2>1, <2>3, <2>4
<1>4. n \in {m, c, BanPeer(c, p), BanPeer(Push(d, "disconnect", p), p)}
  BY Zenon, <1>3 DEF ApplyReputationChange, r
<1> HIDE DEF n
<1>5. c \in Manager /\ Listed(c) /\ Edits(m, c, p) /\ InSight(m, c, p)
  BY Zenon, <1>2, KeptStateEdits
<1>6. d \in Manager /\ d.peers = [m.peers EXCEPT ![p] = g]
      /\ d.backoffs = m.backoffs /\ d.queue = m.queue
  BY <1>2, EntryFields
<1> HIDE DEF k, g, c, d
<1> DEFINE u == Push(d, "disconnect", p)
<1>7. u \in Manager /\ u.peers = [m.peers EXCEPT ![p] = g]
      /\ u.backoffs = m.backoffs /\ u.queue = Append(m.queue, <<"disconnect", p>>)
  BY SMTT(30), <1>6, PushFields
<1> HIDE DEF u
<1>8. Listed(u) /\ Edits(m, u, p) /\ InSight(m, u, p)
  <2>1. Change(m, u, p, g, {"disconnect"})
    BY Zenon, <1>2, <1>7 DEF Change, Listed, Disconnecting
  <2>2. Edits(m, u, p) /\ u.peers[p] = g
    BY Zenon, <2>1, ChangeEdits
  <2> QED BY Zenon, <1>2, <2>2 DEF InSight, Incoming, Outgoing, Disconnecting, Edits, Orderly
<1>9. ASSUME NEW a \in Manager, Listed(a), Edits(m, a, p), InSight(m, a, p)
      PROVE  Edits(m, BanPeer(a, p), p) /\ InSight(m, BanPeer(a, p), p)
  <2> DEFINE b == [a EXCEPT !.banned[p] = "until"]
  <2>1. b.peers = a.peers /\ Edits(a, b, p)
    BY Zenon, <1>9, BanPeerEdits
  <2> HIDE DEF b
  <2>2. b = BanPeer(a, p)
    BY Zenon DEF b, BanPeer
  <2> QED BY Zenon, <1>9, <2>1, <2>2, EditsTwice DEF InSight
<1>10. Edits(m, m, p) /\ InSight(m, m, p)
  BY Zenon, OrderlySelf DEF Edits, InSight, Incoming, Outgoing
<1>11. Edits(m, n, p) /\ InSight(m, n, p)
  BY Zenon, <1>4, <1>5, <1>7, <1>8, <1>9, <1>10 DEF u
<1> QED BY Zenon, <1>11 DEF n

-----------------------------------------------------------------------------
(* The ends of sessions and dials.                                          *)

\* decr_state changes counters only.
LEMMA DecrStateFields ==
    ASSUME NEW m \in Manager, NEW p \in Peers
    PROVE  LET d == DecrState(m, p) IN
           /\ d \in Manager /\ d.peers = m.peers /\ d.queue = m.queue
           /\ d.backoffs = m.backoffs /\ d.trusted = m.trusted
<1> DEFINE s == m.peers[p].state
           d == DecrState(m, p)
<1>1. d \in {m, [m EXCEPT !.num_inbound = @ - 1], [m EXCEPT !.num_outbound = @ - 1],
             [m EXCEPT !.num_pending_out = @ - 1]}
  BY Zenon DEF DecrState
<1> HIDE DEF d
<1>2. /\ d \in Manager /\ d.peers = m.peers /\ d.queue = m.queue
      /\ d.backoffs = m.backoffs /\ d.trusted = m.trusted
  BY <1>1 DEF Manager
<1> QED BY Zenon, <1>2 DEF d

\* A hook that ends in an idle entry, or in none, and keeps the back-off list
\* in step is orderly.
LEMMA RestingEdits ==
    ASSUME NEW m \in Manager, Listed(m), NEW p \in Peers, NEW g \in Entry,
           g.state \in {"absent", "idle"}, NEW n \in Manager,
           n.peers = [m.peers EXCEPT ![p] = g], n.queue = m.queue,
           m.backoffs \subseteq n.backoffs, g.backed_off => p \in n.backoffs
    PROVE  Edits(m, n, p) /\ n.peers[p].state \in {"absent", "idle"}
<1>1. Change(m, n, p, g, {})
  BY Zenon DEF Change, Leaving
<1>2. Edits(m, n, p) /\ n.peers[p] = g
  BY Zenon, <1>1, ChangeEdits
<1> QED BY Zenon, <1>2

\* on_outgoing_pending_session_gracefully_closed.
LEMMA OnOutgoingPendingSessionGracefullyClosedEdits ==
    ASSUME NEW m \in Manager, Listed(m), NEW p \in Peers
    PROVE  LET n == OnOutgoingPendingSessionGracefullyClosed(m, p)
           IN  Edits(m, n, p) /\ n.peers[p].state \in {"absent", "idle"}
<1> DEFINE d == DecrState(m, p)
           g == [m.peers[p] EXCEPT !.state = "idle"]
           n == OnOutgoingPendingSessionGracefullyClosed(m, p)
<1>1. d \in Manager /\ d.peers = m.peers /\ d.queue = m.queue /\ d.backoffs = m.backoffs
  BY Zenon, DecrStateFields
<1>2. g \in Entry /\ g.state = "idle" /\ g.backed_off = m.peers[p].backed_off
  <2>1. m.peers[p] \in Entry
    BY Zenon DEF Manager
  <2> QED BY Zenon, <2>1 DEF Entry, States
<1>3. CASE ~Tracked(m, p)
  <2>1. n = m
    BY Zenon, <1>3 DEF OnOutgoingPendingSessionGracefullyClosed
  <2> QED BY Zenon, <1>3, <2>1, OrderlySelf DEF Edits, Tracked
<1>4. CASE Tracked(m, p)
  <2>1. n = SetState(d, p, "idle")
    BY Zenon, <1>4 DEF OnOutgoingPendingSessionGracefullyClosed
  <2> HIDE DEF d, n
  <2>2. n = [d EXCEPT !.peers[p] = g]
    BY Zenon, <1>1, <2>1 DEF SetState
  <2>3. n \in Manager /\ n.peers = [m.peers EXCEPT ![p] = g] /\ n.queue = m.queue
        /\ n.backoffs = m.backoffs
    BY <1>1, <1>2, <2>2, EntryFields
  <2> HIDE DEF g
  <2> QED BY Zenon, <1>2, <2>3, RestingEdits DEF Listed, n
<1> QED BY Zenon, <1>3, <1>4

\* The fatal branch of on_connection_failure.
LEMMA FailFatalEdits ==
    ASSUME NEW m \in Manager, Listed(m), NEW p \in Peers
    PROVE  LET n == FailFatal(m, p)
           IN  Edits(m, n, p) /\ n.peers[p].state \in {"absent", "idle"}
<1> DEFINE d == DecrState(m, p)
           i == [m.peers[p] EXCEPT !.state = "idle"]
           c == IF ~Tracked(m, p) THEN m
                ELSE IF IsTrusted(m.peers[p]) THEN SetState(d, p, "idle") ELSE Forget(d, p)
           n == FailFatal(m, p)
<1>1. d \in Manager /\ d.peers = m.peers /\ d.queue = m.queue /\ d.backoffs = m.backoffs
  BY Zenon, DecrStateFields
<1>2. i \in Entry /\ i.state = "idle" /\ i.backed_off = m.peers[p].backed_off
  <2>1. m.peers[p] \in Entry
    BY Zenon DEF Manager
  <2> QED BY Zenon, <2>1 DEF Entry, States
<1>3. n = BanPeer(c, p)
  BY Zenon, SMTT(30) DEF FailFatal
<1> HIDE DEF d, n
<1>4. Edits(m, c, p) /\ c.peers[p].state \in {"absent", "idle"}
  <2>1. CASE ~Tracked(m, p)
    <3>1. c = m
      BY Zenon, <2>1
    <3> HIDE DEF c
    <3> QED BY Zenon, <2>1, <3>1, OrderlySelf DEF Edits, Tracked
  <2>2. ASSUME NEW g \in Entry, c = [d EXCEPT !.peers[p] = g],
               g.state \in {"absent", "idle"}, g.backed_off => m.peers[p].backed_off
        PROVE  Edits(m, c, p) /\ c.peers[p].state \in {"absent", "idle"}
    <3> HIDE DEF c
    <3>1. c \in Manager /\ c.peers = [m.peers EXCEPT ![p] = g] /\ c.queue = m.queue
          /\ c.backoffs = m.backoffs
      BY <1>1, <2>2, EntryFields
    <3> QED BY ZenonT(30), <2>2, <3>1, RestingEdits DEF Listed
  <2>3. CASE Tracked(m, p)
    <3>1. c = [d EXCEPT !.peers[p] = i] \/ c = [d EXCEPT !.peers[p] = Absent]
      BY Zenon, <1>1, <2>3 DEF SetState, Forget
    <3>2. Absent \in Entry /\ Absent.state = "absent" /\ Absent.backed_off = FALSE
      BY Zenon, EntryTypes DEF Absent
    <3> HIDE DEF c, i
    <3> QED BY Zenon, <1>2, <2>2, <3>1, <3>2
  <2> QED BY Zenon, <2>1, <2>3
<1> HIDE DEF c
<1>5. c \in Manager /\ Listed(c)
  BY Zenon, <1>4 DEF Edits, Orderly
<1> DEFINE b == [c EXCEPT !.banned[p] = "until"]
<1>6. b.peers = c.peers /\ Edits(c, b, p)
  BY Zenon, <1>5, BanPeerEdits
<1> HIDE DEF b
<1>7. Edits(m, b, p) /\ b.peers[p].state \in {"absent", "idle"}
  BY Zenon, <1>4, <1>6, EditsTwice
<1> QED BY Zenon, <1>3, <1>7 DEF b, BanPeer, n

\* The branch for errors that are not fatal.
LEMMA FailSoftEdits ==
    ASSUME NEW m \in Manager, Listed(m), NEW p \in Peers, NEW err
    PROVE  LET n == FailSoft(m, p, err)
           IN  Edits(m, n, p) /\ n.peers[p].state \in {"absent", "idle"}
<1> DEFINE d == DecrState(m, p)
           e == m.peers[p]
           severe == IF err = "severe" /\ ~Favoured(e) THEN e.severe + 1 ELSE e.severe
           r == IF err = "none" THEN Lowered(e.reputation, 1) ELSE e.reputation
           i == [e EXCEPT !.state = "idle", !.severe = severe, !.reputation = r]
           b == [i EXCEPT !.backed_off = TRUE]
           o == [d EXCEPT !.peers[p] = i]
           n == FailSoft(m, p, err)
<1>0. e \in Entry /\ DOMAIN m.peers = Peers
  BY Zenon DEF Manager
<1>1. d \in Manager /\ d.peers = m.peers /\ d.queue = m.queue /\ d.backoffs = m.backoffs
  BY Zenon, DecrStateFields
<1>2. CASE ~Tracked(m, p)
  <2>1. n = m
    BY Zenon, <1>2 DEF FailSoft
  <2> QED BY Zenon, <1>2, <2>1, OrderlySelf DEF Edits, Tracked
<1>3. CASE Tracked(m, p)
  <2>1. CASE severe > MaxBackoff /\ ~Favoured(e)
    <3>1. n = Forget(o, p)
      BY Zenon, <1>3, <2>1 DEF FailSoft
    <3>2. Forget(o, p) = [d EXCEPT !.peers[p] = Absent]
      BY Zenon, <1>0, <1>1 DEF Forget
    <3>3. Absent \in Entry /\ Absent.state = "absent" /\ Absent.backed_off = FALSE
      BY Zenon, EntryTypes DEF Absent
    <3>a. n = [d EXCEPT !.peers[p] = Absent]
      BY Zenon, <3>1, <3>2
    <3> HIDE DEF n, d, o, i, b, severe
    <3>4. n \in Manager /\ n.peers = [m.peers EXCEPT ![p] = Absent] /\ n.queue = m.queue
          /\ n.backoffs = m.backoffs
      BY <1>1, <3>a, <3>3, EntryFields
    <3> QED BY Zenon, <3>3, <3>4, RestingEdits DEF n
  <2>2. CASE ~(severe > MaxBackoff /\ ~Favoured(e))
    <3>1. severe \in 0 .. MaxBackoff
      BY <1>0, <2>2, NetworkAssumption DEF Entry
    <3>2. r \in MinReputation .. 0
      BY Zenon, <1>0, EntryTypes DEF Entry
    <3>3. /\ i \in Entry /\ i.state = "idle" /\ i.backed_off = e.backed_off
          /\ b \in Entry /\ b.state = "idle" /\ b.backed_off = TRUE
      <4> HIDE DEF severe, r
      <4> QED BY Zenon, <1>0, <3>1, <3>2 DEF Entry, States
    <3>4. n = IF err = "none" THEN o
              ELSE [o EXCEPT !.peers[p].backed_off = TRUE, !.backoffs = @ \cup {p}]
      BY Zenon, <1>3, <2>2 DEF FailSoft
    <3> HIDE DEF n, d, severe, r
    <3>5. o \in Manager /\ o.peers = [m.peers EXCEPT ![p] = i] /\ o.queue = m.queue
          /\ o.backoffs = m.backoffs
      BY <1>1, <3>3, EntryFields
    <3>6. CASE err = "none"
      <4> HIDE DEF i, o
      <4> QED BY <3>3, <3>4, <3>5, <3>6, RestingEdits DEF Listed, n
    <3>7. CASE err # "none"
      <4>1. n = [o EXCEPT !.peers[p].backed_off = TRUE, !.backoffs = @ \cup {p}]
        BY Zenon, <3>4, <3>7
      <4>2. o.peers[p] = i
        BY Zenon, <1>0, <3>5
      <4> HIDE DEF i, o
      <4>3. n \in Manager /\ n.peers = [m.peers EXCEPT ![p] = b] /\ n.queue = m.queue
            /\ n.backoffs = m.backoffs \cup {p}
        <5>1. n.peers = [o.peers EXCEPT ![p] = [o.peers[p] EXCEPT !.backed_off = TRUE]]
              /\ n.queue = o.queue /\ n.backoffs = o.backoffs \cup {p}
          BY Zenon, <3>5, <4>1 DEF Manager
        <5>2. n.peers = [m.peers EXCEPT ![p] = b]
          BY Zenon, <1>0, <3>5, <4>2, <5>1
        <5> HIDE DEF b
        <5>3. n.peers \in [Peers -> Entry]
          BY <3>3, <5>2 DEF Manager
        <5>4. n \in Manager
          BY Zenon, <3>5, <4>1, <5>3 DEF Manager
        <5> QED BY Zenon, <3>5, <5>1, <5>2, <5>4
      <4> HIDE DEF b
      <4> QED BY Zenon, <3>3, <4>3, RestingEdits DEF n
    <3> QED BY Zenon, <3>6, <3>7
  <2> QED BY Zenon, <2>1, <2>2
<1> QED BY Zenon, <1>2, <1>3

\* A change that leaves the queue and all states alone.
LEMMA SameStatesOrderly ==
    ASSUME NEW m, NEW n \in Manager, Listed(n), n.queue = m.queue,
           \A q \in Peers : n.peers[q].state = m.peers[q].state
    PROVE  Orderly(m, n)
BY Zenon DEF Orderly, Waits

\* tick.
LEMMA TickedOrderly ==
    ASSUME NEW m \in Manager, Listed(m), NEW gain \in {0, 1}
    PROVE  LET n == Ticked(m, gain) IN
           /\ Orderly(m, n) /\ n \in Manager /\ Listed(n) /\ n.net = m.net
           /\ \A q \in Peers : n.peers[q].state = m.peers[q].state
<1> DEFINE T(p) == IF IsConnected(m.peers[p].state) /\ m.peers[p].reputation < 0
                   THEN [m.peers[p] EXCEPT !.reputation = @ + gain]
                   ELSE m.peers[p]
           n == Ticked(m, gain)
<1>1. ASSUME NEW p \in Peers
      PROVE  /\ T(p) \in Entry /\ T(p).state = m.peers[p].state
             /\ T(p).backed_off = m.peers[p].backed_off
  <2>1. m.peers[p] \in Entry
    BY Zenon DEF Manager
  <2>2. m.peers[p].reputation < 0 => m.peers[p].reputation + gain \in MinReputation .. 0
    BY <2>1, NetworkAssumption DEF Entry, MinReputation
  <2> QED BY Zenon, <2>1, <2>2 DEF Entry
<1>2. n = [m EXCEPT !.peers = [p \in Peers |-> T(p)]]
  BY Zenon DEF Ticked
<1> HIDE DEF T, n
<1>3. n \in Manager /\ n.peers = [p \in Peers |-> T(p)] /\ n.queue = m.queue
      /\ n.backoffs = m.backoffs /\ n.net = m.net
  BY Zenon, <1>1, <1>2 DEF Manager
<1>4. /\ \A q \in Peers : n.peers[q].state = m.peers[q].state
      /\ \A q \in Peers : n.peers[q].backed_off = m.peers[q].backed_off
  BY Zenon, <1>1, <1>3
<1>5. Listed(n)
  BY Zenon, <1>3, <1>4 DEF Listed
<1> QED BY Zenon, <1>3, <1>4, <1>5, SameStatesOrderly DEF n

\* What is in a concatenation of two sequences.
LEMMA ConcatFacts ==
    ASSUME NEW S, NEW a \in Seq(S), NEW b \in Seq(S)
    PROVE  /\ Len(a \o b) = Len(a) + Len(b)
           /\ \A i \in 1 .. Len(a) : (a \o b)[i] = a[i]
           /\ \A i \in 1 .. Len(b) : (a \o b)[Len(a) + i] = b[i]
OBVIOUS

-----------------------------------------------------------------------------
(* Established sessions.                                                    *)

\* A hook that marks a peer as connected is orderly.
LEMMA ConnectedEdits ==
    ASSUME NEW m \in Manager, Listed(m), NEW p \in Peers, NEW g \in Entry,
           g.state \in {"in", "out"}, NEW n \in Manager,
           n.peers = [m.peers EXCEPT ![p] = g], n.backoffs = m.backoffs,
           n.queue = m.queue \/ n.queue = Append(m.queue, <<"disconnect", p>>),
           g.backed_off => m.peers[p].backed_off
    PROVE  Edits(m, n, p)
<1>1. Change(m, n, p, g, {}) \/ Change(m, n, p, g, {"disconnect"})
  BY Zenon DEF Change, Leaving, Listed
<1> QED BY Zenon, <1>1, ChangeEdits

\* Setting a counter.
LEMMA CounterFields ==
    ASSUME NEW m \in Manager, NEW c \in Int
    PROVE  /\ LET n == [m EXCEPT !.num_outbound = c] IN
              /\ n \in Manager /\ n.peers = m.peers /\ n.queue = m.queue
              /\ n.backoffs = m.backoffs
           /\ LET n == [m EXCEPT !.num_inbound = c] IN
              /\ n \in Manager /\ n.peers = m.peers /\ n.queue = m.queue
              /\ n.backoffs = m.backoffs
           /\ LET n == [m EXCEPT !.num_pending_in = c] IN
              /\ n \in Manager /\ n.peers = m.peers /\ n.queue = m.queue
              /\ n.backoffs = m.backoffs
BY Zenon, SMTT(30) DEF Manager

\* on_active_outgoing_established.
LEMMA OnActiveOutgoingEstablishedEdits ==
    ASSUME NEW m \in Manager, Listed(m), NEW p \in Peers
    PROVE  Edits(m, OnActiveOutgoingEstablished(m, p), p)
<1> DEFINE d == DecrState(m, p)
           o == [d EXCEPT !.num_outbound = @ + 1]
           g == [m.peers[p] EXCEPT !.state = "out"]
           n == OnActiveOutgoingEstablished(m, p)
<1>1. CASE ~Tracked(m, p)
  <2>1. n = m
    BY Zenon, <1>1 DEF OnActiveOutgoingEstablished
  <2> QED BY Zenon, <2>1, OrderlySelf DEF Edits
<1>2. CASE Tracked(m, p)
  <2>1. n = SetState(o, p, "out")
    BY Zenon, <1>2 DEF OnActiveOutgoingEstablished
  <2>2. d \in Manager /\ d.peers = m.peers /\ d.queue = m.queue /\ d.backoffs = m.backoffs
    BY Zenon, DecrStateFields
  <2>3. m.peers[p] \in Entry
    BY Zenon DEF Manager
  <2>4. g \in Entry /\ g.state = "out" /\ g.backed_off = m.peers[p].backed_off
    BY Zenon, <2>3 DEF Entry, States
  <2> HIDE DEF d, n
  <2>5. o \in Manager /\ o.peers = m.peers /\ o.queue = m.queue /\ o.backoffs = m.backoffs
    <3>1. d.num_outbound + 1 \in Int
      BY <2>2 DEF Manager
    <3>2. o = [d EXCEPT !.num_outbound = d.num_outbound + 1]
      BY Zenon
    <3> HIDE DEF o
    <3> QED BY Zenon, <2>2, <3>1, <3>2, CounterFields
  <2> HIDE DEF o
  <2>6. n = [o EXCEPT !.peers[p] = g]
    BY Zenon, <2>1, <2>5 DEF SetState
  <2> HIDE DEF g
  <2>7. n \in Manager /\ n.peers = [m.peers EXCEPT ![p] = g] /\ n.queue = m.queue
        /\ n.backoffs = m.backoffs
    BY SMTT(30), <2>4, <2>5, <2>6, EntryFields
  <2>8. Edits(m, n, p)
    BY Zenon, <2>4, <2>7, ConnectedEdits
  <2> QED BY Zenon, <2>8 DEF n
<1> QED BY Zenon, <1>1, <1>2

\* The admission of an incoming session.
LEMMA EnterIncomingEdits ==
    ASSUME NEW m \in Manager, Listed(m), NEW p \in Peers
    PROVE  Edits(m, EnterIncoming(m, p), p)
<1> DEFINE d == IF m.peers[p].state = "pending_out" THEN DecrState(m, p) ELSE m
           a == [Absent EXCEPT !.remove = TRUE]
           e == IF Tracked(m, p) THEN m.peers[p] ELSE a
           g == [e EXCEPT !.state = "in"]
           o == [d EXCEPT !.peers[p] = g, !.num_inbound = @ + 1]
           n == EnterIncoming(m, p)
<1>1. d \in Manager /\ d.peers = m.peers /\ d.queue = m.queue /\ d.backoffs = m.backoffs
  BY Zenon, DecrStateFields
<1>2. e \in Entry /\ (e.backed_off => m.peers[p].backed_off)
  <2>1. a \in Entry /\ a.backed_off = FALSE
    BY Zenon, EntryTypes DEF Absent, Entry
  <2>2. m.peers[p] \in Entry
    BY Zenon DEF Manager
  <2> HIDE DEF a
  <2> QED BY Zenon, <2>1, <2>2
<1>3. n = o \/ n = Push(o, "disconnect", p)
  BY Zenon DEF EnterIncoming
<1> HIDE DEF d, e, n
<1>4. g \in Entry /\ g.state = "in" /\ (g.backed_off => m.peers[p].backed_off)
  BY Zenon, <1>2 DEF Entry, States
<1> HIDE DEF g
<1>5. o \in Manager /\ o.peers = [m.peers EXCEPT ![p] = g] /\ o.queue = m.queue
      /\ o.backoffs = m.backoffs
  <2> DEFINE r == [d EXCEPT !.peers[p] = g]
  <2>1. r \in Manager /\ r.peers = [m.peers EXCEPT ![p] = g] /\ r.queue = m.queue
        /\ r.backoffs = m.backoffs
    BY <1>1, <1>4, EntryFields
  <2>3. o = [r EXCEPT !.num_inbound = r.num_inbound + 1]
    <3>1. r.num_inbound = d.num_inbound
      BY Zenon, <1>1 DEF Manager
    <3> DEFINE c == d.num_inbound + 1
    <3>2. o = [r EXCEPT !.num_inbound = c]
      <4> HIDE DEF c
      <4>1. o = [d EXCEPT !.peers[p] = g, !.num_inbound = c]
        BY Zenon DEF c
      <4> QED BY Zenon, <1>1, <4>1 DEF Manager
    <3> QED BY Zenon, <3>1, <3>2
  <2> HIDE DEF r, o
  <2>2. r.num_inbound + 1 \in Int
    BY <2>1 DEF Manager
  <2> QED BY Zenon, <2>1, <2>2, <2>3, CounterFields
<1> HIDE DEF o
<1>6. CASE n = o
  BY Zenon, <1>4, <1>5, <1>6, ConnectedEdits DEF n
<1>7. CASE n = Push(o, "disconnect", p)
  <2>1. n \in Manager /\ n.peers = o.peers /\ n.backoffs = o.backoffs
        /\ n.queue = Append(o.queue, <<"disconnect", p>>)
    BY Zenon, <1>5, <1>7, PushFields
  <2>2. Edits(m, n, p)
    BY Zenon, <1>4, <1>5, <2>1, ConnectedEdits
  <2> QED BY Zenon, <2>2 DEF n
<1> QED BY Zenon, <1>3, <1>6, <1>7

\* decr_pending_in.
LEMMA DecrPendingInOrderly ==
    ASSUME NEW m \in Manager, Listed(m)
    PROVE  LET n == DecrPendingIn(m) IN
           /\ n \in Manager /\ Listed(n) /\ Orderly(m, n) /\ n.peers = m.peers
<1> DEFINE n == DecrPendingIn(m)
<1>1. n \in Manager /\ n.peers = m.peers /\ n.queue = m.queue /\ n.backoffs = m.backoffs
  BY SMTT(30) DEF DecrPendingIn, Manager
<1> HIDE DEF n
<1>2. Listed(n)
  BY Zenon, <1>1 DEF Listed
<1> QED BY Zenon, <1>1, <1>2, SameStatesOrderly DEF n

\* on_incoming_session_established.
LEMMA OnIncomingSessionEstablishedOrderly ==
    ASSUME NEW m \in Manager, Listed(m), NEW p \in Peers,
           NEW n \in OnIncomingSessionEstablished(m, p)
    PROVE  Orderly(m, n) /\ \A q \in Peers \ {p} : InSight(m, n, q)
<1> DEFINE d == DecrPendingIn(m)
<1>1. d \in Manager /\ Listed(d) /\ Orderly(m, d) /\ d.peers = m.peers
  BY Zenon, DecrPendingInOrderly
<1>2. \/ n = Push(d, "disconnect", p)
      \/ \E gain \in {0, 1} : \/ n = Push(Ticked(d, gain), "disconnect", p)
                             \/ n = EnterIncoming(Ticked(d, gain), p)
  BY Zenon DEF OnIncomingSessionEstablished
<1> HIDE DEF d
<1>3. ASSUME NEW o \in Manager, Listed(o)
      PROVE  Edits(o, Push(o, "disconnect", p), p)
  <2> DEFINE u == Push(o, "disconnect", p)
  <2>1. u \in Manager /\ u.peers = o.peers /\ u.backoffs = o.backoffs
        /\ u.queue = Append(o.queue, <<"disconnect", p>>)
    BY Zenon, <1>3, PushFields
  <2> HIDE DEF u
  <2>2. u.peers = [o.peers EXCEPT ![p] = o.peers[p]] /\ o.peers[p] \in Entry
    BY Zenon, <1>3, <2>1 DEF Manager
  <2>3. Change(o, u, p, o.peers[p], {"disconnect"})
    BY Zenon, <1>3, <2>1, <2>2 DEF Change, Listed
  <2> QED BY Zenon, <1>3, <2>3, ChangeEdits DEF u
<1>4. ASSUME NEW o, Orderly(m, o), Edits(o, n, p),
             \A q \in Peers : o.peers[q].state = m.peers[q].state
      PROVE  Orderly(m, n) /\ \A q \in Peers \ {p} : InSight(m, n, q)
  BY Zenon, <1>4, OrderlyTwice DEF Edits, InSight, Incoming, Outgoing
<1>5. CASE n = Push(d, "disconnect", p)
  BY Zenon, <1>1, <1>3, <1>4, <1>5
<1>6. ASSUME NEW gain \in {0, 1}, \/ n = Push(Ticked(d, gain), "disconnect", p)
                                 \/ n = EnterIncoming(Ticked(d, gain), p)
      PROVE  Orderly(m, n) /\ \A q \in Peers \ {p} : InSight(m, n, q)
  <2> DEFINE t == Ticked(d, gain)
  <2>1. /\ Orderly(d, t) /\ t \in Manager /\ Listed(t)
        /\ \A q \in Peers : t.peers[q].state = d.peers[q].state
    BY Zenon, <1>1, TickedOrderly
  <2> HIDE DEF t
  <2>2. Edits(t, n, p)
    BY Zenon, <1>3, <1>6, <2>1, EnterIncomingEdits DEF t
  <2>3. Orderly(m, t) /\ \A q \in Peers : t.peers[q].state = m.peers[q].state
    BY Zenon, <1>1, <2>1, OrderlyTwice
  <2> QED BY Zenon, <1>4, <2>2, <2>3
<1> QED BY Zenon, <1>2, <1>5, <1>6

-----------------------------------------------------------------------------
(* What waits for what.                                                     *)

IInv ==
    /\ Sound(pm) /\ pm.num_pending_in = pendingIn
    /\ DOMAIN active = Peers
    /\ ConnectedHasSession

SessionTypes ==
    /\ pendingIn \in Nat /\ dials \in [Peers -> Nat] /\ quits \in [Peers -> Nat]
    /\ active \in [Peers -> {"none", "in", "out"}]
    /\ closing \subseteq Peers
    /\ stimuli \in 0 .. MaxStimuli

\* Relative to IInv, which it needs, this is inductive.
BackedInv ==
    /\ pm \in Manager /\ Listed(pm) /\ SessionTypes
    /\ DisconnectingIsTold
    /\ PendingLimit = {} => DialIsBacked

\* The start.
LEMMA BackedInvInit == Init => BackedInv
<1> SUFFICES ASSUME Init PROVE BackedInv
  BY Zenon
<1>1. PICK kind \in [Peers -> {"absent"} \cup Kinds] :
        pm = [peers |-> [p \in Peers |-> IF kind[p] = "absent" THEN Absent
                                         ELSE Known(kind[p])],
              num_outbound |-> 0, num_pending_out |-> 0,
              num_inbound |-> 0, num_pending_in |-> 0,
              trusted |-> {p \in Peers : kind[p] = "trusted"},
              banned |-> [p \in Peers |-> "no"], backoffs |-> {},
              queue |-> <<>>, net |-> "active"]
  BY Zenon DEF Init
<1> DEFINE K(p) == IF kind[p] = "absent" THEN Absent ELSE Known(kind[p])
<1>2. ASSUME NEW p \in Peers
      PROVE  K(p) \in Entry /\ K(p).state \in {"absent", "idle"} /\ K(p).backed_off = FALSE
  <2>1. CASE kind[p] = "absent"
    <3>1. Absent \in Entry /\ Absent.state = "absent" /\ Absent.backed_off = FALSE
      BY Zenon, EntryTypes DEF Absent
    <3> QED BY Zenon, <2>1, <3>1
  <2>2. CASE kind[p] # "absent"
    <3>1. kind[p] \in Kinds
      BY Zenon, <1>1, <2>2
    <3>2. Known(kind[p]) \in Entry /\ Known(kind[p]).state = "idle"
          /\ Known(kind[p]).backed_off = FALSE
      BY Zenon, <3>1, EntryTypes DEF Known, Absent
    <3> QED BY Zenon, <2>2, <3>2
  <2> QED BY Zenon, <2>1, <2>2
<1>3. pm.peers = [p \in Peers |-> K(p)] /\ pm.queue = <<>>
  BY Zenon, <1>1
<1> HIDE DEF K
<1>4. \A p \in Peers : /\ pm.peers[p].state \in {"absent", "idle"}
                       /\ pm.peers[p].backed_off = FALSE
  BY Zenon, <1>2, <1>3
<1>5. pm.peers \in [Peers -> Entry]
  BY Zenon, <1>2, <1>3
<1>6. pm \in Manager
  <2>1. <<>> \in Seq(Requests)
    OBVIOUS
  <2> QED BY <1>1, <1>5, <2>1 DEF Manager
<1>7. SessionTypes
  BY NetworkAssumption DEF Init, SessionTypes
<1> QED BY Zenon, <1>4, <1>6, <1>7 DEF BackedInv, Listed, DisconnectingIsTold, DialIsBacked

\* An orderly step keeps the invariant if it forgets no disconnect of an entry
\* that is being disconnected, and ends no dial of one that is being dialled.
LEMMA OrderlyStep ==
    ASSUME BackedInv, Orderly(pm, pm'), SessionTypes',
           \A q \in Peers : pm'.peers[q].state \in Leaving /\ q \in closing => q \in closing',
           \A q \in Peers : pm'.peers[q].state = "pending_out" =>
              \/ Waits(pm', "connect", q) \/ active'[q] # "none"
              \/ active[q] = "none" /\ (dials[q] > 0 => dials'[q] > 0)
    PROVE  BackedInv'
<1>1. pm' \in Manager /\ Listed(pm')
  BY Zenon DEF Orderly
<1>2. \A kind, q : /\ Queued(kind, q) <=> Waits(pm, kind, q)
                   /\ Queued(kind, q)' <=> Waits(pm', kind, q)
  BY Zenon DEF Queued, Waits
<1>3. DisconnectingIsTold'
  <2> SUFFICES ASSUME NEW q \in Peers, pm'.peers[q].state \in Leaving
               PROVE  q \in closing' \/ Waits(pm', "disconnect", q)
    BY Zenon, <1>2 DEF DisconnectingIsTold, Doomed, Leaving
  <2>1. CASE Waits(pm', "disconnect", q)
    BY Zenon, <2>1
  <2>2. CASE pm.peers[q].state \in Leaving
    BY Zenon, <1>2, <2>2 DEF BackedInv, DisconnectingIsTold, Doomed, Leaving, Orderly
  <2> QED BY Zenon, <2>1, <2>2 DEF Orderly
<1>4. ASSUME PendingLimit = {} PROVE DialIsBacked'
  <2> SUFFICES ASSUME NEW q \in Peers, pm'.peers[q].state = "pending_out",
                      ~Waits(pm', "connect", q)
               PROVE  dials'[q] > 0 \/ active'[q] # "none"
    BY Zenon, <1>2 DEF DialIsBacked
  <2>1. pm.peers[q].state = "pending_out" /\ ~Waits(pm, "connect", q)
    BY Zenon DEF Orderly
  <2>2. dials[q] > 0 \/ active[q] # "none"
    BY Zenon, <1>2, <1>4, <2>1 DEF BackedInv, DialIsBacked
  <2> QED BY Zenon, <2>2
<1> QED BY Zenon, <1>1, <1>3, <1>4 DEF BackedInv

\* A step of the manager alone.
LEMMA ManagerStep ==
    ASSUME BackedInv, Orderly(pm, pm'), Stimulus, UNCHANGED sessions
    PROVE  BackedInv'
<1>1. UNCHANGED <<pendingIn, dials, quits, active, closing>>
  BY Zenon DEF sessions
<1>2. SessionTypes'
  BY <1>1, NetworkAssumption DEF BackedInv, SessionTypes, Stimulus
<1> QED BY Zenon, <1>1, <1>2, OrderlyStep

\* The messages of a handle or of discovery are orderly, and do not lose sight
\* of a connected peer.
LEMMA PeerCommandEdits ==
    ASSUME pm \in Manager, Listed(pm), NEW p \in Peers, PeerCommand(p)
    PROVE  Edits(pm, pm', p) /\ InSight(pm, pm', p)
<1>1. \/ \E kind \in Kinds \cup {"any"} : pm' = AddPeerKind(pm, p, kind)
      \/ \E kind \in Kinds : pm' = AddAndConnectKind(pm, p, kind)
      \/ pm' = RemovePeer(pm, p) \/ pm' = BanPeerByAdmin(pm, p)
      \/ \E cost \in Nat : pm' = ApplyReputationChange(pm, p, cost)
      \/ pm' = Trust(pm, p, "trusted")
      \/ pm' = AddTrustedPeerId(pm, p) \/ pm' = RemovePeerFromTrustedSet(pm, p)
      \/ pm' = OnResolvedPeer(pm, p) \/ pm' = UnbanPeerByAdmin(pm, p)
      \/ pm' = ResetReputation(pm, p)
  BY Zenon, NetworkAssumption DEF PeerCommand
<1>2. CASE \E kind \in Kinds \cup {"any"} : pm' = AddPeerKind(pm, p, kind)
  BY Zenon, <1>2, AddPeerKindEdits
<1>3. CASE \E kind \in Kinds : pm' = AddAndConnectKind(pm, p, kind)
  BY Zenon, <1>3, AddAndConnectKindEdits
<1>4. CASE pm' = RemovePeer(pm, p) \/ pm' = BanPeerByAdmin(pm, p)
  BY Zenon, <1>4, RemovePeerEdits, BanPeerByAdminEdits
<1>5. CASE \E cost \in Nat : pm' = ApplyReputationChange(pm, p, cost)
  BY Zenon, <1>5, ApplyReputationChangeEdits
<1>6. CASE pm' = Trust(pm, p, "trusted")
  BY Zenon, <1>6, TrustEdits
<1>7. CASE \/ pm' = AddTrustedPeerId(pm, p) \/ pm' = RemovePeerFromTrustedSet(pm, p)
           \/ pm' = OnResolvedPeer(pm, p) \/ pm' = UnbanPeerByAdmin(pm, p)
           \/ pm' = ResetReputation(pm, p)
  BY Zenon, <1>7, KindAndReputationEdits
<1> QED BY Zenon, <1>1, <1>2, <1>3, <1>4, <1>5, <1>6, <1>7

\* Taking the head off the queue.
LEMMA TailWaits ==
    ASSUME NEW m \in Manager, m.queue # <<>>, NEW n, n = [m EXCEPT !.queue = Tail(@)]
    PROVE  /\ n \in Manager /\ n.peers = m.peers /\ n.backoffs = m.backoffs
           /\ Head(m.queue) \in Requests
           /\ \A kind, q : Waits(m, kind, q) =>
                 Head(m.queue) = <<kind, q>> \/ Waits(n, kind, q)
<1>1. m.queue \in Seq(Requests) /\ Len(m.queue) \in Nat /\ Len(m.queue) > 0
  BY DEF Manager
<1>2. Tail(m.queue) \in Seq(Requests) /\ Head(m.queue) \in Requests
      /\ Head(m.queue) = m.queue[1] /\ Len(Tail(m.queue)) = Len(m.queue) - 1
      /\ \A i \in 1 .. Len(m.queue) - 1 : Tail(m.queue)[i] = m.queue[i + 1]
  BY <1>1
<1>3. n \in Manager /\ n.peers = m.peers /\ n.backoffs = m.backoffs
      /\ n.queue = Tail(m.queue)
  <2> DEFINE t == Tail(m.queue)
  <2>1. t \in Seq(Requests) /\ n = [m EXCEPT !.queue = t]
    BY Zenon, <1>2
  <2> HIDE DEF t
  <2>2. n \in Manager /\ n.peers = m.peers /\ n.backoffs = m.backoffs /\ n.queue = t
    BY Zenon, <2>1 DEF Manager
  <2> QED BY Zenon, <2>2 DEF t
<1>4. ASSUME NEW kind, NEW q, Waits(m, kind, q)
      PROVE  Head(m.queue) = <<kind, q>> \/ Waits(n, kind, q)
  <2>1. PICK i \in 1 .. Len(m.queue) : m.queue[i] = <<kind, q>>
    BY Zenon, <1>4 DEF Waits
  <2>2. CASE i = 1
    BY Zenon, <1>2, <2>1, <2>2
  <2>3. CASE i # 1
    <3>1. i - 1 \in 1 .. Len(n.queue) /\ n.queue[i - 1] = <<kind, q>>
      <4>1. i - 1 \in 1 .. Len(m.queue) - 1 /\ (i - 1) + 1 = i
        BY <1>1, <2>3
      <4>2. Tail(m.queue)[i - 1] = m.queue[(i - 1) + 1]
        BY Zenon, <1>2, <4>1
      <4> QED BY Zenon, <1>2, <1>3, <2>1, <4>1, <4>2
    <3> QED BY Zenon, <3>1 DEF Waits
  <2> QED BY Zenon, <2>2, <2>3
<1> QED BY Zenon, <1>2, <1>3, <1>4

\* The swarm handles a queued request: a disconnect finds the session it is
\* meant for, and a dial is started.
LEMMA OnStateActionBacked ==
    ASSUME IInv, BackedInv, OnStateAction
    PROVE  BackedInv'
<1> DEFINE h == Head(pm.queue)
           p == h[2]
<1>1. pm.queue # <<>> /\ pm' = [pm EXCEPT !.queue = Tail(@)] /\ pm \in Manager
  BY Zenon DEF OnStateAction, Idle, BackedInv
<1>2. /\ pm' \in Manager /\ pm'.peers = pm.peers /\ pm'.backoffs = pm.backoffs
      /\ h \in Requests
      /\ \A kind, q : Waits(pm, kind, q) => h = <<kind, q>> \/ Waits(pm', kind, q)
  BY <1>1, TailWaits
<1>3. UNCHANGED <<pendingIn, quits, active, stimuli>>
      /\ IF h[1] = "connect" THEN DialOutbound(p) ELSE Disconnect(p)
  BY Zenon DEF OnStateAction
<1>4. p \in Peers /\ h = <<h[1], p>> /\ h[1] \in {"connect", "disconnect"}
  BY <1>2 DEF Requests
<1> HIDE DEF h
<1>5. CASE h[1] = "connect"
  <2>1. /\ closing' = closing
        /\ dials' = [dials EXCEPT ![p] = @ + 1] \/ dials' = dials
        /\ PendingLimit = {} => dials' = [dials EXCEPT ![p] = @ + 1]
    BY Zenon, <1>3, <1>5 DEF DialOutbound
  <2>2. SessionTypes'
    BY SMTT(30), <1>3, <1>4, <2>1 DEF BackedInv, SessionTypes
  <2>3. DisconnectingIsTold'
    <3> SUFFICES ASSUME NEW q \in Peers, pm'.peers[q].state \in Leaving
                 PROVE  q \in closing' \/ Waits(pm', "disconnect", q)
      BY Zenon DEF DisconnectingIsTold, Doomed, Leaving, Queued, Waits
    <3>1. q \in closing \/ Waits(pm, "disconnect", q)
      BY Zenon, <1>2 DEF BackedInv, DisconnectingIsTold, Doomed, Leaving, Queued, Waits
    <3>2. h # <<"disconnect", q>>
      BY <1>5
    <3> QED BY Zenon, <1>2, <2>1, <3>1, <3>2
  <2>4. ASSUME PendingLimit = {} PROVE DialIsBacked'
    <3> SUFFICES ASSUME NEW q \in Peers, pm'.peers[q].state = "pending_out"
                 PROVE  Waits(pm', "connect", q) \/ dials'[q] > 0 \/ active'[q] # "none"
      BY Zenon DEF DialIsBacked, Queued, Waits
    <3>1. Waits(pm, "connect", q) \/ dials[q] > 0 \/ active[q] # "none"
      BY Zenon, <1>2, <2>4 DEF BackedInv, DialIsBacked, Queued, Waits
    <3>2. dials' = [dials EXCEPT ![p] = @ + 1] /\ dials \in [Peers -> Nat]
      BY Zenon, <2>1, <2>4 DEF BackedInv, SessionTypes
    <3>3. CASE h = <<"connect", q>>
      <4>1. p = q
        BY Zenon, <3>3
      <4> HIDE DEF p
      <4> QED BY <1>4, <3>2, <4>1
    <3>4. CASE dials[q] > 0
      <4> HIDE DEF p
      <4> QED BY SMTT(30), <1>4, <3>2, <3>4
    <3> QED BY Zenon, <1>2, <1>3, <3>1, <3>3, <3>4
  <2> QED BY Zenon, <1>2, <2>2, <2>3, <2>4 DEF BackedInv, Listed
<1>6. CASE h[1] = "disconnect"
  <2>1. /\ closing' = (IF active[p] = "none" THEN closing ELSE closing \cup {p})
        /\ dials' = dials
    BY Zenon, <1>3, <1>6 DEF Disconnect
  <2>2. SessionTypes'
    BY Zenon, <1>3, <1>4, <2>1 DEF BackedInv, SessionTypes
  <2>3. DisconnectingIsTold'
    <3> SUFFICES ASSUME NEW q \in Peers, pm'.peers[q].state \in Leaving
                 PROVE  q \in closing' \/ Waits(pm', "disconnect", q)
      BY Zenon DEF DisconnectingIsTold, Doomed, Leaving, Queued, Waits
    <3>1. q \in closing \/ Waits(pm, "disconnect", q)
      BY Zenon, <1>2 DEF BackedInv, DisconnectingIsTold, Doomed, Leaving, Queued, Waits
    <3>2. active[q] # "none"
      BY Zenon, <1>2 DEF IInv, ConnectedHasSession, Leaving
    <3>3. h = <<"disconnect", q>> => p = q
      OBVIOUS
    <3> QED BY Zenon, <1>2, <2>1, <3>1, <3>2, <3>3
  <2>4. ASSUME PendingLimit = {} PROVE DialIsBacked'
    <3> SUFFICES ASSUME NEW q \in Peers, pm'.peers[q].state = "pending_out"
                 PROVE  Waits(pm', "connect", q) \/ dials'[q] > 0 \/ active'[q] # "none"
      BY Zenon DEF DialIsBacked, Queued, Waits
    <3>1. Waits(pm, "connect", q) \/ dials[q] > 0 \/ active[q] # "none"
      BY Zenon, <1>2, <2>4 DEF BackedInv, DialIsBacked, Queued, Waits
    <3>2. h # <<"connect", q>>
      BY <1>6
    <3> QED BY Zenon, <1>2, <1>3, <2>1, <3>1, <3>2
  <2> QED BY Zenon, <1>2, <2>2, <2>3, <2>4 DEF BackedInv, Listed
<1> QED BY Zenon, <1>4, <1>5, <1>6

\* The end of a dial in the session manager.
LEMMA DialEndsTypes ==
    ASSUME BackedInv, NEW p \in Peers, DialEnds(p),
           active' \in [Peers -> {"none", "in", "out"}]
    PROVE  /\ SessionTypes' /\ closing' = closing /\ dials'[p] < dials[p]
           /\ \A q \in Peers \ {p} : dials'[q] = dials[q]
<1>1. PICK n \in {quits[p] - 1, quits[p]} :
        n >= 0 /\ quits' = [quits EXCEPT ![p] = n]
  BY Zenon DEF DialEnds
<1>2. quits \in [Peers -> Nat] /\ dials \in [Peers -> Nat]
  BY Zenon DEF BackedInv, SessionTypes
<1>3. quits' \in [Peers -> Nat]
  BY <1>1, <1>2
<1>4. dials' = [dials EXCEPT ![p] = @ - 1] /\ dials[p] > 0
      /\ UNCHANGED <<pendingIn, closing, stimuli>>
  BY Zenon DEF DialEnds
<1>5. dials' \in [Peers -> Nat] /\ dials'[p] < dials[p]
      /\ \A q \in Peers \ {p} : dials'[q] = dials[q]
  BY <1>2, <1>4
<1> QED BY Zenon, <1>3, <1>4, <1>5 DEF BackedInv, SessionTypes

\* A step that loses sight of a connected peer ends a dial of it, or changes
\* what session there is.
Watched ==
    \A p \in Peers : \/ InSight(pm, pm', p)
                     \/ dials'[p] < dials[p] \/ active'[p] # active[p]

\* A session is established, in either direction.
LEMMA EstablishedBacked ==
    ASSUME BackedInv, NEW p \in Peers, IncomingEstablished(p) \/ OutgoingEstablished(p)
    PROVE  BackedInv' /\ Watched
<1>0. pm \in Manager /\ Listed(pm) /\ active \in [Peers -> {"none", "in", "out"}]
  BY Zenon DEF BackedInv, SessionTypes
<1>1. CASE IncomingEstablished(p)
  <2>1. pendingIn > 0 /\ pendingIn' = pendingIn - 1 /\ UNCHANGED <<dials, quits, closing, stimuli>>
    BY Zenon, <1>1 DEF IncomingEstablished
  <2>2. CASE pm' = DecrPendingIn(pm) /\ UNCHANGED active
    <3>1. Orderly(pm, pm') /\ pm'.peers = pm.peers
      BY Zenon, <1>0, <2>2, DecrPendingInOrderly
    <3>2. SessionTypes'
      BY <2>1, <2>2 DEF BackedInv, SessionTypes
    <3> QED BY Zenon, <2>1, <2>2, <3>1, <3>2, OrderlyStep DEF Watched, InSight, Incoming, Outgoing
  <2>3. CASE /\ active[p] = "none" /\ active' = [active EXCEPT ![p] = "in"]
             /\ pm' \in OnIncomingSessionEstablished(pm, p)
    <3>1. Orderly(pm, pm') /\ \A q \in Peers \ {p} : InSight(pm, pm', q)
      BY Zenon, <1>0, <2>3, OnIncomingSessionEstablishedOrderly
    <3>2. SessionTypes'
      BY <2>1, <2>3 DEF BackedInv, SessionTypes
    <3>3. active'[p] = "in" /\ \A q \in Peers \ {p} : active'[q] = active[q]
      BY Zenon, <1>0, <2>3
    <3>4. BackedInv'
      BY Zenon, <2>1, <3>1, <3>2, <3>3, OrderlyStep
    <3> QED BY Zenon, <2>3, <3>1, <3>3, <3>4 DEF Watched
  <2> QED BY Zenon, <1>1, <2>2, <2>3 DEF IncomingEstablished
<1>2. CASE OutgoingEstablished(p)
  <2>1. CASE active[p] # "none" /\ UNCHANGED <<pm, active>>
    <3>1. /\ SessionTypes' /\ closing' = closing /\ dials'[p] < dials[p]
          /\ \A q \in Peers \ {p} : dials'[q] = dials[q]
      BY Zenon, <1>0, <1>2, <2>1, DialEndsTypes DEF OutgoingEstablished
    <3>2. Orderly(pm, pm')
      BY Zenon, <1>0, <2>1, OrderlySelf
    <3>3. BackedInv'
      BY Zenon, <2>1, <3>1, <3>2, OrderlyStep
    <3> QED BY Zenon, <2>1, <3>3 DEF Watched, InSight, Incoming, Outgoing
  <2>2. CASE /\ active[p] = "none" /\ active' = [active EXCEPT ![p] = "out"]
             /\ pm' = OnActiveOutgoingEstablished(pm, p)
    <3>1. active' \in [Peers -> {"none", "in", "out"}] /\ active'[p] = "out"
          /\ \A q \in Peers \ {p} : active'[q] = active[q]
      BY Zenon, <1>0, <2>2
    <3>2. /\ SessionTypes' /\ closing' = closing /\ dials'[p] < dials[p]
          /\ \A q \in Peers \ {p} : dials'[q] = dials[q]
      BY Zenon, <1>2, <3>1, DialEndsTypes DEF OutgoingEstablished
    <3>3. Edits(pm, pm', p)
      BY Zenon, <1>0, <2>2, OnActiveOutgoingEstablishedEdits
    <3>4. BackedInv'
      BY Zenon, <3>1, <3>2, <3>3, OrderlyStep DEF Edits
    <3> QED BY Zenon, <3>2, <3>3, <3>4 DEF Watched, Edits, InSight, Incoming, Outgoing
  <2> QED BY Zenon, <1>2, <2>1, <2>2 DEF OutgoingEstablished
<1> QED BY Zenon, <1>1, <1>2

\* An interval of poll expires: a ban, or a back-off with its entry's mark.
LEMMA ExpireBacked ==
    ASSUME BackedInv, NEW p \in Peers, Expire(p)
    PROVE  BackedInv' /\ Watched
<1>0. pm \in Manager /\ Listed(pm) /\ pm.peers[p] \in Entry
  BY Zenon DEF BackedInv, Manager
<1>1. CASE pm' = [pm EXCEPT !.banned[p] = "no", !.peers[p].reputation = 0]
  <2>1. Edits(pm, pm', p) /\ InSight(pm, pm', p)
    BY Zenon, <1>0, <1>1, KindAndReputationEdits
  <2>2. BackedInv'
    BY Zenon, <2>1, ManagerStep DEF Expire, Edits
  <2> QED BY Zenon, <2>1, <2>2 DEF Watched, Edits, InSight, Incoming, Outgoing
<1>2. CASE pm' = [pm EXCEPT !.backoffs = @ \ {p}, !.peers[p].backed_off = FALSE]
  <2> DEFINE g == [pm.peers[p] EXCEPT !.backed_off = FALSE]
  <2>1. g \in Entry /\ g.state = pm.peers[p].state /\ g.backed_off = FALSE
    BY Zenon, <1>0 DEF Entry
  <2>2. pm' \in Manager /\ pm'.peers = [pm.peers EXCEPT ![p] = g]
        /\ pm'.backoffs = pm.backoffs \ {p} /\ pm'.queue = pm.queue
    BY Zenon, <1>0, <1>2, <2>1 DEF Manager
  <2> HIDE DEF g
  <2>3. /\ \A q \in Peers : pm'.peers[q].state = pm.peers[q].state
        /\ pm'.peers[p].backed_off = FALSE
        /\ \A q \in Peers \ {p} : pm'.peers[q] = pm.peers[q]
    BY Zenon, <1>0, <2>1, <2>2 DEF Manager
  <2>4. Listed(pm')
    BY Zenon, <1>0, <2>2, <2>3 DEF Listed
  <2>5. Orderly(pm, pm')
    BY Zenon, <2>2, <2>3, <2>4, SameStatesOrderly
  <2>6. BackedInv'
    BY Zenon, <2>5, ManagerStep DEF Expire
  <2> QED BY Zenon, <2>3, <2>6 DEF Watched, InSight, Incoming, Outgoing
<1> QED BY Zenon, <1>1, <1>2 DEF Expire

-----------------------------------------------------------------------------
(* Counting.                                                                *)

INSTANCE FiniteSetTheorems

\* When one entry changes its state, the size of a class of entries changes
\* by what that entry contributed before and contributes now.
LEMMA Recount ==
    ASSUME NEW m, NEW n, NEW p \in Peers, NEW S,
           \A q \in Peers \ {p} : n.peers[q].state = m.peers[q].state
    PROVE  /\ Cardinality(In(m, S)) \in Nat
           /\ Cardinality(In(n, S)) \in Nat
           /\ Cardinality(In(n, S)) = Cardinality(In(m, S))
                - One(m.peers[p].state, S) + One(n.peers[p].state, S)
<1> DEFINE R == In(m, S) \ {p}
<1>1. IsFiniteSet(In(m, S)) /\ IsFiniteSet(In(n, S)) /\ IsFiniteSet(R)
  BY Zenon, NetworkAssumption, FS_Subset DEF In
<1>2. Cardinality(In(m, S)) \in Nat /\ Cardinality(In(n, S)) \in Nat /\ Cardinality(R) \in Nat
  BY Zenon, <1>1, FS_CardinalityType
<1>r. R = In(m, S) \ {p}
  BY Zenon
<1> HIDE DEF R
<1>3. Cardinality(In(m, S)) = Cardinality(R) + One(m.peers[p].state, S)
  <2>1. CASE m.peers[p].state \in S
    <3>1. p \in In(m, S)
      BY Zenon, <2>1 DEF In
    <3> QED BY <1>1, <1>2, <1>r, <2>1, <3>1, FS_RemoveElement DEF One
  <2>2. CASE m.peers[p].state \notin S
    <3>1. R = In(m, S)
      BY Zenon, <1>r, <2>2 DEF In
    <3> QED BY <1>2, <2>2, <3>1 DEF One
  <2> QED BY Zenon, <2>1, <2>2
<1>4. Cardinality(In(n, S)) = Cardinality(R) + One(n.peers[p].state, S)
  <2>1. CASE n.peers[p].state \in S
    <3>1. In(n, S) = R \cup {p} /\ p \notin R
      BY <1>r, <2>1 DEF In
    <3> QED BY Zenon, <1>1, <1>2, <2>1, <3>1, FS_AddElement DEF One
  <2>2. CASE n.peers[p].state \notin S
    <3>1. R = In(n, S)
      BY <1>r, <2>2 DEF In
    <3> QED BY <1>2, <2>2, <3>1 DEF One
  <2> QED BY Zenon, <2>1, <2>2
<1> QED BY <1>2, <1>3, <1>4 DEF One

\* A manager whose entries have the same states and whose counters are the
\* same is as sound.
LEMMA SameStates ==
    ASSUME NEW m, NEW n, Sound(m), Shape(n),
           \A q \in Peers : n.peers[q].state = m.peers[q].state,
           n.num_outbound = m.num_outbound, n.num_inbound = m.num_inbound,
           n.num_pending_out = m.num_pending_out, n.num_pending_in = m.num_pending_in
    PROVE  Quiet(m, n)
<1>1. \A S : In(n, S) = In(m, S)
  BY Zenon DEF In
<1> QED BY Zenon, <1>1 DEF Quiet, Sound, Calm

\* A manager in which one entry changed its state and the counters were
\* charged for it is sound.
LEMMA OneMoves ==
    ASSUME NEW m, NEW n, Sound(m), Shape(n), NEW p \in Peers,
           \A q \in Peers \ {p} : n.peers[q].state = m.peers[q].state,
           n.num_outbound >= m.num_outbound
               - One(m.peers[p].state, Outgoing) + One(n.peers[p].state, Outgoing),
           n.num_inbound >= m.num_inbound
               - One(m.peers[p].state, Incoming) + One(n.peers[p].state, Incoming),
           n.num_pending_out = m.num_pending_out
               - One(m.peers[p].state, Dial) + One(n.peers[p].state, Dial)
    PROVE  Sound(n)
<1>1. \A S : /\ Cardinality(In(m, S)) \in Nat
             /\ Cardinality(In(n, S)) \in Nat
             /\ Cardinality(In(n, S)) = Cardinality(In(m, S))
                  - One(m.peers[p].state, S) + One(n.peers[p].state, S)
  BY Recount
<1>2. \A s, S : One(s, S) \in Int
  BY DEF One
<1>3. /\ Cardinality(In(m, Outgoing)) \in Nat /\ Cardinality(In(n, Outgoing)) \in Nat
      /\ Cardinality(In(n, Outgoing)) = Cardinality(In(m, Outgoing))
           - One(m.peers[p].state, Outgoing) + One(n.peers[p].state, Outgoing)
  BY Zenon, <1>1
<1>4. /\ Cardinality(In(m, Incoming)) \in Nat /\ Cardinality(In(n, Incoming)) \in Nat
      /\ Cardinality(In(n, Incoming)) = Cardinality(In(m, Incoming))
           - One(m.peers[p].state, Incoming) + One(n.peers[p].state, Incoming)
  BY Zenon, <1>1
<1>5. /\ Cardinality(In(m, Dial)) \in Nat /\ Cardinality(In(n, Dial)) \in Nat
      /\ Cardinality(In(n, Dial)) = Cardinality(In(m, Dial))
           - One(m.peers[p].state, Dial) + One(n.peers[p].state, Dial)
  BY Zenon, <1>1
<1> HIDE DEF One
<1> QED BY SMTT(30), <1>2, <1>3, <1>4, <1>5 DEF Sound, Shape

-----------------------------------------------------------------------------
(* Hooks that concern one peer.                                             *)

\* remove_peer, the second removal of a closing peer included: the slot it
\* leaves behind is one too many, never one too few.
LEMMA RemovePeerQuiet ==
    ASSUME NEW m, Sound(m), NEW p \in Peers
    PROVE  Quiet(m, RemovePeer(m, p))
<1> DEFINE n == RemovePeer(m, p)
<1>1. Shape(n)
  BY Zenon DEF Sound, Shape, RemovePeer, Push, Absent, Disconnecting, States
<1>2. \A q \in Peers \ {p} : n.peers[q] = m.peers[q]
  BY Zenon DEF Sound, Shape, RemovePeer, Push
<1>3. /\ n.num_outbound = m.num_outbound /\ n.num_inbound = m.num_inbound
      /\ n.num_pending_out = m.num_pending_out /\ n.num_pending_in = m.num_pending_in
  BY Zenon DEF Sound, Shape, RemovePeer, Push
<1>4. \/ n.peers[p].state = m.peers[p].state
      \/ m.peers[p].state \notin Dial /\ n.peers[p].state = "absent"
      \/ m.peers[p].state = "in" /\ n.peers[p].state = "disc_in"
      \/ m.peers[p].state = "out" /\ n.peers[p].state = "disc_out"
  BY Zenon DEF Sound, Shape, RemovePeer, Push, Absent, Disconnecting, States, IsConnected, Dial, Tracked
<1> HIDE DEF n
<1>5. Sound(n)
  BY <1>1, <1>2, <1>3, <1>4, OneMoves DEF One, Outgoing, Incoming, Dial, Sound, Shape
<1>6. Calm(m, n)
  BY Zenon, <1>2, <1>4 DEF Calm, Outgoing, Incoming
<1> QED BY Zenon, <1>3, <1>5, <1>6 DEF Quiet, n

\* ban_peer_by_admin is a removal and an entry in the ban list.
LEMMA BanPeerByAdminQuiet ==
    ASSUME NEW m, Sound(m), NEW p \in Peers
    PROVE  Quiet(m, BanPeerByAdmin(m, p))
<1> DEFINE r == RemovePeer(m, p)
           n == [r EXCEPT !.banned[p] = "forever"]
<1>1. Quiet(m, r)
  BY Zenon, RemovePeerQuiet
<1> HIDE DEF r
<1>2. Shape(n) /\ n.peers = r.peers
      /\ n.num_outbound = r.num_outbound /\ n.num_inbound = r.num_inbound
      /\ n.num_pending_out = r.num_pending_out /\ n.num_pending_in = r.num_pending_in
  BY Zenon, <1>1 DEF Quiet, Sound, Shape
<1> HIDE DEF n
<1>3. Quiet(r, n)
  BY Zenon, <1>1, <1>2, SameStates DEF Quiet
<1>4. Quiet(m, n)
  BY Zenon, <1>1, <1>3 DEF Quiet, Calm
<1>5. Quiet(m, m)
  BY Zenon DEF Quiet, Calm
<1> QED BY Zenon, <1>4, <1>5 DEF BanPeerByAdmin, n, r

\* add_peer_kind: an entry that is added is idle, another keeps its state.
LEMMA AddPeerKindQuiet ==
    ASSUME NEW m, Sound(m), NEW p \in Peers, NEW kind
    PROVE  Quiet(m, AddPeerKind(m, p, kind))
<1> DEFINE n == AddPeerKind(m, p, kind)
<1>1. Shape(n)
  BY DEF Sound, Shape, AddPeerKind, Trust, Known, Absent, Tracked, States
<1>2. \A q \in Peers \ {p} : n.peers[q] = m.peers[q]
  BY Zenon DEF Sound, Shape, AddPeerKind, Trust
<1>3. /\ n.num_outbound = m.num_outbound /\ n.num_inbound = m.num_inbound
      /\ n.num_pending_out = m.num_pending_out /\ n.num_pending_in = m.num_pending_in
  BY Zenon DEF Sound, Shape, AddPeerKind, Trust
<1>4. \/ n.peers[p].state = m.peers[p].state
      \/ m.peers[p].state = "absent" /\ n.peers[p].state = "idle"
  BY Zenon DEF Sound, Shape, AddPeerKind, Trust, Known, Absent, Tracked
<1> HIDE DEF n
<1>5. Sound(n)
  BY <1>1, <1>2, <1>3, <1>4, OneMoves DEF One, Outgoing, Incoming, Dial, Sound, Shape
<1>6. Calm(m, n)
  BY Zenon, <1>2, <1>4 DEF Calm, Outgoing, Incoming
<1> QED BY Zenon, <1>3, <1>5, <1>6 DEF Quiet, n

\* add_and_connect_kind takes a dial slot with the state it sets.
LEMMA AddAndConnectKindQuiet ==
    ASSUME NEW m, Sound(m), NEW p \in Peers, NEW kind
    PROVE  Quiet(m, AddAndConnectKind(m, p, kind))
<1> DEFINE o == Push([m EXCEPT !.num_pending_out = @ + 1], "connect", p)
           e == [Known(kind) EXCEPT !.state = "pending_out"]
           c == CASE ~Tracked(m, p) -> [o EXCEPT !.peers[p] = e]
                  [] m.peers[p].state = "idle" ->
                       [o EXCEPT !.peers[p].kind = kind, !.peers[p].state = "pending_out"]
                  [] OTHER -> [m EXCEPT !.peers[p].kind = kind]
<1>1. /\ Shape(c)
      /\ \A q \in Peers \ {p} : c.peers[q].state = m.peers[q].state
      /\ c.num_outbound = m.num_outbound /\ c.num_inbound = m.num_inbound
      /\ c.num_pending_in = m.num_pending_in
      /\ \/ /\ c.peers[p].state = m.peers[p].state
            /\ c.num_pending_out = m.num_pending_out
         \/ /\ m.peers[p].state \in {"absent", "idle"} /\ c.peers[p].state = "pending_out"
            /\ c.num_pending_out = m.num_pending_out + 1
  <2>1. CASE ~Tracked(m, p)
    <3>1. c = [o EXCEPT !.peers[p] = e]
      BY Zenon, <2>1 DEF Tracked
    <3> QED BY <2>1, <3>1 DEF Sound, Shape, Push, Known, Absent, Tracked, States
  <2>2. CASE m.peers[p].state = "idle"
    <3>1. c = [o EXCEPT !.peers[p].kind = kind, !.peers[p].state = "pending_out"]
      BY Zenon, <2>2 DEF Tracked
    <3>2. o.peers = m.peers /\ Shape(o) /\ o.num_outbound = m.num_outbound
          /\ o.num_inbound = m.num_inbound /\ o.num_pending_in = m.num_pending_in
          /\ o.num_pending_out = m.num_pending_out + 1
      BY DEF Sound, Shape, Push
    <3> HIDE DEF c, o
    <3>3. c.peers = [m.peers EXCEPT ![p] =
                       [[m.peers[p] EXCEPT !.kind = kind] EXCEPT !.state = "pending_out"]]
          /\ c.num_outbound = o.num_outbound /\ c.num_inbound = o.num_inbound
          /\ c.num_pending_in = o.num_pending_in
          /\ c.num_pending_out = o.num_pending_out
          /\ DOMAIN c = DOMAIN o
      BY Zenon, <3>1, <3>2 DEF Shape, Sound
    <3> QED BY <2>2, <3>2, <3>3 DEF Sound, Shape, States
  <2>3. CASE Tracked(m, p) /\ m.peers[p].state # "idle"
    <3>1. c = [m EXCEPT !.peers[p].kind = kind]
      BY Zenon, <2>3
    <3> QED BY Zenon, <2>3, <3>1 DEF Sound, Shape
  <2> QED BY ZenonT(30), <2>1, <2>2, <2>3
<1> HIDE DEF c
<1>2. Quiet(m, c)
  <2>1. Sound(c)
    <3>1. /\ One(c.peers[p].state, Outgoing) = One(m.peers[p].state, Outgoing)
          /\ One(c.peers[p].state, Incoming) = One(m.peers[p].state, Incoming)
          /\ One(m.peers[p].state, Outgoing) \in Int /\ One(m.peers[p].state, Incoming) \in Int
          /\ One(m.peers[p].state, Dial) \in Int
          /\ c.num_pending_out = m.num_pending_out
               - One(m.peers[p].state, Dial) + One(c.peers[p].state, Dial)
      BY <1>1 DEF One, Outgoing, Incoming, Dial, Sound, Shape
    <3>2. /\ c.num_outbound >= m.num_outbound
               - One(m.peers[p].state, Outgoing) + One(c.peers[p].state, Outgoing)
          /\ c.num_inbound >= m.num_inbound
               - One(m.peers[p].state, Incoming) + One(c.peers[p].state, Incoming)
      BY <1>1, <3>1 DEF Sound, Shape
    <3> QED BY SMTT(30), <1>1, <3>1, <3>2, OneMoves
  <2>2. Calm(m, c)
    BY Zenon, <1>1 DEF Calm, Outgoing, Incoming
  <2> QED BY Zenon, <1>1, <2>1, <2>2 DEF Quiet
<1>3. Quiet(m, Trust(c, p, kind))
  <2> DEFINE n == Trust(c, p, kind)
  <2>1. Quiet(c, n)
    <3>1. Shape(n) /\ n.peers = c.peers
          /\ n.num_outbound = c.num_outbound /\ n.num_inbound = c.num_inbound
          /\ n.num_pending_out = c.num_pending_out /\ n.num_pending_in = c.num_pending_in
      BY Zenon, <1>1 DEF Trust, Shape
    <3> HIDE DEF n
    <3> QED BY Zenon, <1>2, <3>1, SameStates DEF Quiet
  <2> QED BY Zenon, <1>2, <2>1 DEF Quiet, Calm
<1>4. Quiet(m, m)
  BY Zenon DEF Quiet, Calm
<1> QED BY Zenon, <1>3, <1>4 DEF AddAndConnectKind, c

\* apply_reputation_change: a ban sets out to disconnect, and no counter moves.
LEMMA ApplyReputationChangeQuiet ==
    ASSUME NEW m, Sound(m), NEW p \in Peers, NEW cost
    PROVE  Quiet(m, ApplyReputationChange(m, p, cost))
<1> DEFINE n == ApplyReputationChange(m, p, cost)
<1>2. \A q \in Peers \ {p} : n.peers[q] = m.peers[q]
  BY Zenon DEF Sound, Shape, ApplyReputationChange, SetState, BanPeer, Push
<1>3. /\ n.num_outbound = m.num_outbound /\ n.num_inbound = m.num_inbound
      /\ n.num_pending_out = m.num_pending_out /\ n.num_pending_in = m.num_pending_in
  BY Zenon DEF Sound, Shape, ApplyReputationChange, SetState, BanPeer, Push
<1>4. \/ n.peers[p].state = m.peers[p].state
      \/ m.peers[p].state = "in" /\ n.peers[p].state = "disc_in"
      \/ m.peers[p].state = "out" /\ n.peers[p].state = "disc_out"
  BY DEF Sound, Shape, ApplyReputationChange, SetState, BanPeer, Push, Tracked, Disconnecting
<1> HIDE DEF n
<1>1. Shape(n)
  <2>1. DOMAIN n = DOMAIN m /\ DOMAIN n.peers = Peers
    BY Zenon DEF n, Sound, Shape, ApplyReputationChange, SetState, BanPeer, Push
  <2>2. DOMAIN n.peers[p] = DOMAIN m.peers[p]
    BY Zenon DEF n, Sound, Shape, ApplyReputationChange, SetState, BanPeer, Push
  <2> QED BY Zenon, <1>2, <1>3, <1>4, <2>1, <2>2 DEF Sound, Shape, States
<1>5. Sound(n)
  BY SMTT(30), <1>1, <1>2, <1>3, <1>4, OneMoves DEF One, Outgoing, Incoming, Dial, Sound, Shape
<1>6. Calm(m, n)
  BY Zenon, <1>2, <1>4 DEF Calm, Outgoing, Incoming
<1> QED BY Zenon, <1>3, <1>5, <1>6 DEF Quiet, n

\* Quiet changes add up.
LEMMA QuietTwice ==
    ASSUME NEW m, NEW n, NEW o, Quiet(m, n), Quiet(n, o)
    PROVE  Quiet(m, o)
BY Zenon DEF Quiet, Calm

\* A hook that returns early is quiet.
LEMMA QuietSelf == ASSUME NEW m, Sound(m) PROVE Quiet(m, m)
BY Zenon, SMTT(30) DEF Quiet, Calm

-----------------------------------------------------------------------------
(* Giving a slot back.                                                      *)

\* decr_state charges the counter of the entry's state, and that one only.
LEMMA DecrStateCharges ==
    ASSUME NEW m, Shape(m), NEW p \in Peers
    PROVE  LET d == DecrState(m, p) IN
           /\ Shape(d) /\ d.peers = m.peers
           /\ d.num_outbound = m.num_outbound - One(m.peers[p].state, Outgoing)
           /\ d.num_inbound = m.num_inbound - One(m.peers[p].state, Incoming)
           /\ d.num_pending_out = m.num_pending_out - One(m.peers[p].state, Dial)
           /\ d.num_pending_in = m.num_pending_in
<1> DEFINE s == m.peers[p].state
<1>1. CASE s \in Incoming
  <2>1. DecrState(m, p) = [m EXCEPT !.num_inbound = @ - 1]
    BY Zenon, <1>1 DEF DecrState, Incoming
  <2> QED BY <1>1, <2>1 DEF One, Incoming, Outgoing, Dial, Shape
<1>2. CASE s \in Outgoing
  <2>1. DecrState(m, p) = [m EXCEPT !.num_outbound = @ - 1]
    BY Zenon, <1>2 DEF DecrState, Outgoing
  <2> QED BY <1>2, <2>1 DEF One, Incoming, Outgoing, Dial, Shape
<1>3. CASE s \in Dial
  <2>1. DecrState(m, p) = [m EXCEPT !.num_pending_out = @ - 1]
    BY Zenon, <1>3 DEF DecrState, Dial
  <2> QED BY <1>3, <2>1 DEF One, Incoming, Outgoing, Dial, Shape
<1>4. CASE s \in {"absent", "idle"}
  <2>1. DecrState(m, p) = m
    BY Zenon, <1>4 DEF DecrState
  <2> QED BY <1>4, <2>1 DEF One, Incoming, Outgoing, Dial, Shape
<1> QED BY Zenon, <1>1, <1>2, <1>3, <1>4 DEF Shape, States, Incoming, Outgoing, Dial

\* Whatever else a hook changes, an entry that is charged for its state and
\* becomes idle or is dropped leaves a sound manager.
LEMMA LeavingIsQuiet ==
    ASSUME NEW m, Sound(m), NEW p \in Peers, NEW n, Shape(n),
           \A q \in Peers \ {p} : n.peers[q].state = m.peers[q].state,
           n.peers[p].state \in {"absent", "idle"},
           n.num_outbound = DecrState(m, p).num_outbound,
           n.num_inbound = DecrState(m, p).num_inbound,
           n.num_pending_out = DecrState(m, p).num_pending_out,
           n.num_pending_in = DecrState(m, p).num_pending_in
    PROVE  Quiet(m, n) /\ n.peers[p].state \in Off
<1>1. /\ n.num_outbound = m.num_outbound - One(m.peers[p].state, Outgoing)
      /\ n.num_inbound = m.num_inbound - One(m.peers[p].state, Incoming)
      /\ n.num_pending_out = m.num_pending_out - One(m.peers[p].state, Dial)
      /\ n.num_pending_in = m.num_pending_in
  BY Zenon, DecrStateCharges DEF Sound
<1>2. /\ One(n.peers[p].state, Outgoing) = 0
      /\ One(n.peers[p].state, Incoming) = 0
      /\ One(n.peers[p].state, Dial) = 0
  BY Zenon DEF One, Outgoing, Incoming, Dial
<1>3. Sound(n)
  <2>1. /\ One(m.peers[p].state, Outgoing) \in Int
        /\ One(m.peers[p].state, Incoming) \in Int
        /\ One(m.peers[p].state, Dial) \in Int
    BY DEF One
  <2>2. /\ n.num_outbound >= m.num_outbound
             - One(m.peers[p].state, Outgoing) + One(n.peers[p].state, Outgoing)
        /\ n.num_inbound >= m.num_inbound
             - One(m.peers[p].state, Incoming) + One(n.peers[p].state, Incoming)
        /\ n.num_pending_out = m.num_pending_out
             - One(m.peers[p].state, Dial) + One(n.peers[p].state, Dial)
    BY <1>1, <1>2, <2>1 DEF Shape, Sound
  <2> QED BY Zenon, <2>2, OneMoves
<1>4. Calm(m, n)
  BY Zenon DEF Calm, Outgoing, Incoming
<1> QED BY Zenon, <1>1, <1>3, <1>4 DEF Quiet, Off

\* A dial told to quit gives its slot back (on_outgoing_pending_session_gracefully_closed).
LEMMA OnOutgoingPendingSessionGracefullyClosedQuiet ==
    ASSUME NEW m, Sound(m), NEW p \in Peers
    PROVE  Quiet(m, OnOutgoingPendingSessionGracefullyClosed(m, p))
<1> DEFINE d == DecrState(m, p)
           n == SetState(d, p, "idle")
<1>1. Shape(d) /\ d.peers = m.peers
  BY Zenon, DecrStateCharges DEF Sound
<1> HIDE DEF d
<1>2. /\ Shape(n)
      /\ \A q \in Peers \ {p} : n.peers[q].state = m.peers[q].state
      /\ n.peers[p].state = "idle"
      /\ n.num_outbound = d.num_outbound /\ n.num_inbound = d.num_inbound
      /\ n.num_pending_out = d.num_pending_out /\ n.num_pending_in = d.num_pending_in
  BY Zenon, <1>1 DEF SetState, Shape, States
<1> HIDE DEF n
<1>3. Quiet(m, n)
  BY Zenon, <1>2, LeavingIsQuiet DEF d
<1> QED BY Zenon, <1>3, QuietSelf DEF OnOutgoingPendingSessionGracefullyClosed, n, d

\* The fatal branch of on_connection_failure.
LEMMA FailFatalQuiet ==
    ASSUME NEW m, Sound(m), NEW p \in Peers
    PROVE  Quiet(m, FailFatal(m, p)) /\ FailFatal(m, p).peers[p].state \in Off
<1> DEFINE d == DecrState(m, p)
           n == FailFatal(m, p)
<1>1. Shape(d) /\ d.peers = m.peers
  BY Zenon, DecrStateCharges DEF Sound
<1>2. CASE Tracked(m, p)
  <2> HIDE DEF d
  <2>1. n = BanPeer(IF IsTrusted(m.peers[p]) THEN SetState(d, p, "idle") ELSE Forget(d, p), p)
    BY Zenon, <1>2 DEF FailFatal, d
  <2> HIDE DEF n
  <2>2. /\ Shape(n)
        /\ \A q \in Peers \ {p} : n.peers[q].state = m.peers[q].state
        /\ n.peers[p].state \in {"absent", "idle"}
        /\ n.num_outbound = d.num_outbound /\ n.num_inbound = d.num_inbound
        /\ n.num_pending_out = d.num_pending_out /\ n.num_pending_in = d.num_pending_in
    BY <1>1, <2>1 DEF SetState, Forget, BanPeer, Shape, States, Absent
  <2> QED BY Zenon, <2>2, LeavingIsQuiet DEF d, n
<1>3. CASE ~Tracked(m, p)
  <2>1. n = BanPeer(m, p)
    BY Zenon, <1>3 DEF FailFatal
  <2> HIDE DEF n
  <2>2. /\ Shape(n) /\ n.peers = m.peers
        /\ n.num_outbound = m.num_outbound /\ n.num_inbound = m.num_inbound
        /\ n.num_pending_out = m.num_pending_out /\ n.num_pending_in = m.num_pending_in
    BY Zenon, <2>1 DEF BanPeer, Shape, Sound
  <2>3. Quiet(m, n)
    BY Zenon, <2>2, SameStates
  <2> QED BY Zenon, <1>3, <2>2, <2>3 DEF Tracked, Off, n
<1> QED BY Zenon, <1>2, <1>3

\* The branch for errors that are not fatal.
LEMMA FailSoftQuiet ==
    ASSUME NEW m, Sound(m), NEW p \in Peers, NEW err
    PROVE  Quiet(m, FailSoft(m, p, err)) /\ FailSoft(m, p, err).peers[p].state \in Off
<1> DEFINE d == DecrState(m, p)
           n == FailSoft(m, p, err)
<1>1. Shape(d) /\ d.peers = m.peers
  BY Zenon, DecrStateCharges DEF Sound
<1>2. CASE Tracked(m, p)
  <2> DEFINE e == m.peers[p]
             severe == IF err = "severe" /\ ~Favoured(e) THEN e.severe + 1 ELSE e.severe
             i == [e EXCEPT !.state = "idle", !.severe = severe,
                            !.reputation = IF err = "none" THEN Lowered(@, 1) ELSE @]
             o == [d EXCEPT !.peers[p] = i]
  <2> HIDE DEF d
  <2>1. i.state = "idle" /\ "state" \in DOMAIN i
    BY Zenon DEF Sound, Shape
  <2>2. \/ n = Forget(o, p) \/ n = o
        \/ n = [o EXCEPT !.peers[p].backed_off = TRUE, !.backoffs = @ \cup {p}]
    BY Zenon, <1>2 DEF FailSoft, d
  <2> HIDE DEF n, i
  <2>3. /\ Shape(o)
        /\ \A q \in Peers \ {p} : o.peers[q].state = m.peers[q].state
        /\ o.peers[p] = i
        /\ o.num_outbound = d.num_outbound /\ o.num_inbound = d.num_inbound
        /\ o.num_pending_out = d.num_pending_out /\ o.num_pending_in = d.num_pending_in
    BY Zenon, <1>1, <2>1 DEF Shape, States
  <2> HIDE DEF o
  <2>4. /\ Shape(n)
        /\ \A q \in Peers \ {p} : n.peers[q].state = m.peers[q].state
        /\ n.peers[p].state \in {"absent", "idle"}
        /\ n.num_outbound = d.num_outbound /\ n.num_inbound = d.num_inbound
        /\ n.num_pending_out = d.num_pending_out /\ n.num_pending_in = d.num_pending_in
    <3>1. CASE n = Forget(o, p)
      BY Zenon, <2>3, <3>1 DEF Forget, Shape, States, Absent
    <3>2. CASE n = o
      BY Zenon, <2>1, <2>3, <3>2
    <3>3. CASE n = [o EXCEPT !.peers[p].backed_off = TRUE, !.backoffs = @ \cup {p}]
      BY Zenon, <2>1, <2>3, <3>3 DEF Shape
    <3> QED BY Zenon, <2>2, <3>1, <3>2, <3>3
  <2> QED BY Zenon, <2>4, LeavingIsQuiet DEF d, n
<1>3. CASE ~Tracked(m, p)
  <2>1. n = m
    BY Zenon, <1>3 DEF FailSoft
  <2> HIDE DEF n
  <2> QED BY Zenon, <1>3, <2>1, QuietSelf DEF Tracked, Off, n
<1> QED BY Zenon, <1>2, <1>3

-----------------------------------------------------------------------------
(* Dialling.                                                                *)

\* tick moves reputations only.
LEMMA TickedQuiet ==
    ASSUME NEW m, Sound(m), NEW gain
    PROVE  Quiet(m, Ticked(m, gain))
<1> DEFINE n == Ticked(m, gain)
<1>1. /\ Shape(n)
      /\ \A q \in Peers : n.peers[q].state = m.peers[q].state
      /\ n.num_outbound = m.num_outbound /\ n.num_inbound = m.num_inbound
      /\ n.num_pending_out = m.num_pending_out /\ n.num_pending_in = m.num_pending_in
  BY Zenon DEF Ticked, Sound, Shape
<1> HIDE DEF n
<1> QED BY Zenon, <1>1, SameStates DEF n

\* The loop of fill_outbound_slots takes one dial slot for each peer it
\* picks: no peer is picked twice, and none that holds a slot.
LEMMA DialledQuiet ==
    ASSUME NEW m, Sound(m), NEW s \in Picks(m)
    PROVE  Quiet(m, Dialled(m, s))
<1> DEFINE k == Rounds(m)
           R == {q \in Peers : \E i \in DOMAIN s : s[i] = q}
           n == Dialled(m, s)
<1>1. k \in Nat
  <2>1. Cardinality(Dialable(m)) \in Nat
    BY Zenon, NetworkAssumption, FS_Subset, FS_CardinalityType DEF Dialable
  <2> QED BY <2>1, NetworkAssumption DEF Rounds, Sound, Shape
<1>2. /\ s \in [1 .. k -> Dialable(m)] /\ DOMAIN s = 1 .. k /\ Len(s) = k
      /\ \A i, j \in 1 .. k : i < j => s[i] # s[j]
  BY <1>1 DEF Picks
<1> HIDE DEF k
<1>3. \A i \in 1 .. k : s[i] \in Peers /\ m.peers[s[i]].state = "idle"
  BY Zenon, <1>2 DEF Dialable
<1>4. Cardinality(R) = k /\ IsFiniteSet(R)
  <2>1. s \in Bijection(1 .. k, R)
    <3>1. s \in [1 .. k -> R] /\ \A t \in R : \E i \in 1 .. k : s[i] = t
      BY Zenon, <1>2, <1>3
    <3>2. \A i, j \in 1 .. k : s[i] = s[j] => i = j
      BY <1>1, <1>2
    <3> QED BY Zenon, <1>2, <3>1, <3>2 DEF Bijection, Injection, Surjection, IsInjective
  <2>2. IsFiniteSet(1 .. k) /\ Cardinality(1 .. k) = k
    BY <1>1, FS_Interval
  <2> HIDE DEF R
  <2> QED BY Zenon, <2>1, <2>2, FS_Bijection DEF ExistsBijection
<1>5. /\ Shape(n)
      /\ \A q \in R : n.peers[q].state = "pending_out"
      /\ \A q \in Peers \ R : n.peers[q].state = m.peers[q].state
      /\ n.num_outbound = m.num_outbound /\ n.num_inbound = m.num_inbound
      /\ n.num_pending_out = m.num_pending_out + k /\ n.num_pending_in = m.num_pending_in
  <2>1. n.peers = [p \in Peers |-> IF p \in R
                     THEN [m.peers[p] EXCEPT !.state = "pending_out"] ELSE m.peers[p]]
    BY Zenon DEF Dialled, Sound, Shape
  <2>2. /\ n.num_outbound = m.num_outbound /\ n.num_inbound = m.num_inbound
        /\ n.num_pending_out = m.num_pending_out + k /\ n.num_pending_in = m.num_pending_in
        /\ DOMAIN n = DOMAIN m
    BY Zenon, <1>2 DEF Dialled, Sound, Shape
  <2>3. R \subseteq Peers
    BY Zenon
  <2> HIDE DEF n, R
  <2>4. Shape(n)
    BY SMTT(30), <1>1, <2>1, <2>2 DEF Sound, Shape, States
  <2>5. /\ \A q \in R : n.peers[q].state = "pending_out"
        /\ \A q \in Peers \ R : n.peers[q].state = m.peers[q].state
    BY Zenon, <2>1, <2>3 DEF Sound, Shape
  <2> QED BY Zenon, <2>2, <2>4, <2>5
<1>6. /\ In(n, Outgoing) = In(m, Outgoing) /\ In(n, Incoming) = In(m, Incoming)
      /\ In(n, Dial) = In(m, Dial) \cup R /\ In(m, Dial) \cap R = {}
  <2>1. \A q \in R : q \in Peers /\ m.peers[q].state = "idle"
    BY Zenon, <1>2, <1>3
  <2> HIDE DEF n, R
  <2> QED BY <1>5, <2>1 DEF In, Outgoing, Incoming, Dial
<1> HIDE DEF n, R
<1>7. Cardinality(In(n, Dial)) = Cardinality(In(m, Dial)) + k
  <2>1. IsFiniteSet(In(m, Dial)) /\ Cardinality(In(m, Dial)) \in Nat
    BY Zenon, NetworkAssumption, FS_Subset, FS_CardinalityType DEF In
  <2>2. Cardinality(In(m, Dial) \cup R)
          = Cardinality(In(m, Dial)) + Cardinality(R) - Cardinality(In(m, Dial) \cap R)
    BY Zenon, <1>4, <2>1, FS_Union
  <2>3. Cardinality(In(m, Dial) \cap R) = 0
    BY Zenon, <1>6, FS_EmptySet
  <2> QED BY SMTT(30), <1>1, <1>4, <1>6, <2>1, <2>2, <2>3
<1>8. Sound(n)
  BY Zenon, <1>5, <1>6, <1>7 DEF Sound
<1>9. Calm(m, n)
  BY Zenon, <1>5 DEF Calm, Outgoing, Incoming
<1> QED BY Zenon, <1>5, <1>8, <1>9 DEF Quiet, n

\* fill_outbound_slots: a tick and the dials.
LEMMA FillOutboundSlotsQuiet ==
    ASSUME NEW m, Sound(m), NEW n \in FillOutboundSlots(m)
    PROVE  Quiet(m, n)
<1>1. PICK gain \in {0, 1} :
        \/ n = Ticked(m, gain)
        \/ \E s \in Picks(Ticked(m, gain)) : n = Dialled(Ticked(m, gain), s)
  BY Zenon DEF FillOutboundSlots
<1>2. Quiet(m, Ticked(m, gain))
  BY Zenon, TickedQuiet
<1> QED BY <1>1, <1>2, DialledQuiet, QuietTwice DEF Quiet

\* on_connection_failure: the peer is charged before slots are filled.
LEMMA OnConnectionFailureQuiet ==
    ASSUME NEW m, Sound(m), NEW p \in Peers, NEW err,
           NEW n \in OnConnectionFailure(m, p, err)
    PROVE  Quiet(m, n) /\ n.peers[p].state \in Off
<1> DEFINE f == IF err = "fatal" THEN FailFatal(m, p) ELSE FailSoft(m, p, err)
<1>1. Quiet(m, f) /\ f.peers[p].state \in Off
  BY Zenon, FailFatalQuiet, FailSoftQuiet
<1>2. n \in FillOutboundSlots(f)
  BY Zenon DEF OnConnectionFailure
<1> HIDE DEF f
<1>3. Quiet(f, n)
  BY Zenon, <1>1, <1>2, FillOutboundSlotsQuiet DEF Quiet
<1>4. n.peers[p].state \in Off
  BY Zenon, <1>1, <1>3 DEF Quiet, Calm, Sound, Shape, Off, States, Outgoing, Incoming
<1> QED BY Zenon, <1>1, <1>3, <1>4, QuietTwice

\* on_active_session_gracefully_closed, likewise.
LEMMA OnActiveSessionGracefullyClosedQuiet ==
    ASSUME NEW m, Sound(m), NEW p \in Peers,
           NEW n \in OnActiveSessionGracefullyClosed(m, p)
    PROVE  Quiet(m, n) /\ n.peers[p].state \in Off
<1> DEFINE d == DecrState(m, p)
           i == [m.peers[p] EXCEPT !.state = "idle", !.severe = 0, !.backed_off = TRUE]
           c == IF m.peers[p].remove /\ ~IsTrusted(m.peers[p]) THEN Forget(d, p)
                ELSE [d EXCEPT !.peers[p] = i, !.backoffs = @ \cup {p}]
<1>1. CASE ~Tracked(m, p)
  <2>1. n = m
    BY Zenon, <1>1 DEF OnActiveSessionGracefullyClosed
  <2> QED BY Zenon, <1>1, <2>1, QuietSelf DEF Tracked, Off
<1>2. CASE Tracked(m, p)
  <2>1. n \in FillOutboundSlots(c)
    BY Zenon, <1>2 DEF OnActiveSessionGracefullyClosed
  <2>2. Shape(d) /\ d.peers = m.peers
    BY Zenon, DecrStateCharges DEF Sound
  <2>3. i.state = "idle" /\ "state" \in DOMAIN i
    BY Zenon DEF Sound, Shape
  <2> HIDE DEF d, i
  <2>4. /\ Shape(c)
        /\ \A q \in Peers \ {p} : c.peers[q].state = m.peers[q].state
        /\ c.peers[p].state \in {"absent", "idle"}
        /\ c.num_outbound = d.num_outbound /\ c.num_inbound = d.num_inbound
        /\ c.num_pending_out = d.num_pending_out /\ c.num_pending_in = d.num_pending_in
    <3> c = Forget(d, p) \/ c = [d EXCEPT !.peers[p] = i, !.backoffs = @ \cup {p}]
      BY Zenon
    <3> HIDE DEF c
    <3>1. CASE c = Forget(d, p)
      BY Zenon, <2>2, <3>1 DEF Forget, Shape, States, Absent
    <3>2. CASE c = [d EXCEPT !.peers[p] = i, !.backoffs = @ \cup {p}]
      BY Zenon, <2>2, <2>3, <3>2 DEF Shape, States
    <3> QED BY Zenon, <3>1, <3>2
  <2> HIDE DEF c
  <2>5. Quiet(m, c) /\ c.peers[p].state \in Off
    BY Zenon, <2>4, LeavingIsQuiet DEF d
  <2>6. Quiet(c, n)
    BY Zenon, <2>1, <2>5, FillOutboundSlotsQuiet DEF Quiet
  <2>7. n.peers[p].state \in Off
    BY Zenon, <2>5, <2>6 DEF Quiet, Calm, Sound, Shape, Off, States, Outgoing, Incoming
  <2> QED BY Zenon, <2>5, <2>6, <2>7, QuietTwice
<1> QED BY Zenon, <1>1, <1>2

-----------------------------------------------------------------------------
(* What dialling leaves to be done.                                         *)

\* What may change when slots are filled: an idle entry becomes a dial.
Fills(m, n) ==
    /\ Orderly(m, n)
    /\ \A q \in Peers : \/ n.peers[q].state = m.peers[q].state
                        \/ m.peers[q].state = "idle" /\ n.peers[q].state = "pending_out"

\* The loop of fill_outbound_slots queues one request for each peer it picks.
LEMMA DialledFills ==
    ASSUME NEW m \in Manager, Listed(m), NEW s \in Picks(m)
    PROVE  Fills(m, Dialled(m, s))
<1> DEFINE k == Rounds(m)
           D(p) == \E i \in DOMAIN s : s[i] = p
           P(p) == IF D(p) THEN [m.peers[p] EXCEPT !.state = "pending_out"] ELSE m.peers[p]
           t == [i \in 1 .. Len(s) |-> <<"connect", s[i]>>]
           n == Dialled(m, s)
<1>1. k \in Nat
  <2>1. Cardinality(Dialable(m)) \in Nat
    BY Zenon, NetworkAssumption, FS_Subset, FS_CardinalityType DEF Dialable
  <2> QED BY <2>1, NetworkAssumption DEF Rounds, Manager
<1>2. s \in [1 .. k -> Dialable(m)] /\ DOMAIN s = 1 .. k /\ Len(s) = k
  BY <1>1 DEF Picks
<1> HIDE DEF k
<1>3. \A i \in 1 .. k : s[i] \in Peers /\ m.peers[s[i]].state = "idle"
  BY Zenon, <1>2 DEF Dialable
<1>4. t \in Seq(Requests) /\ Len(t) = k /\ \A i \in 1 .. k : t[i] = <<"connect", s[i]>>
  BY <1>1, <1>2, <1>3 DEF Requests
<1>5. n = [m EXCEPT !.peers = [p \in Peers |-> P(p)],
                    !.num_pending_out = @ + Len(s), !.queue = @ \o t]
  BY Zenon DEF Dialled
<1>6. ASSUME NEW p \in Peers
      PROVE  /\ P(p) \in Entry /\ P(p).backed_off = m.peers[p].backed_off
             /\ \/ P(p).state = m.peers[p].state
                \/ /\ m.peers[p].state = "idle" /\ P(p).state = "pending_out"
                   /\ \E i \in 1 .. k : s[i] = p
  <2>1. m.peers[p] \in Entry
    BY Zenon DEF Manager
  <2>2. D(p) => m.peers[p].state = "idle"
    BY Zenon, <1>2, <1>3
  <2> QED BY Zenon, <1>2, <2>1, <2>2 DEF Entry, States
<1> HIDE DEF P, t, n
<1>7. m.queue \o t \in Seq(Requests)
  BY <1>4 DEF Manager
<1>8. n \in Manager /\ n.peers = [p \in Peers |-> P(p)] /\ n.queue = m.queue \o t
      /\ n.backoffs = m.backoffs
  <2> DEFINE f == [p \in Peers |-> P(p)]
             u == m.queue \o t
             c == m.num_pending_out + Len(s)
  <2>1. f \in [Peers -> Entry] /\ u \in Seq(Requests) /\ c \in Int
    BY SMTT(30), <1>1, <1>2, <1>6, <1>7 DEF Manager
  <2>2. n = [m EXCEPT !.peers = f, !.num_pending_out = c, !.queue = u]
    BY Zenon, <1>5
  <2> HIDE DEF f, u, c
  <2>3. n \in Manager /\ n.peers = f /\ n.queue = u /\ n.backoffs = m.backoffs
    BY Zenon, <2>1, <2>2 DEF Manager
  <2> QED BY Zenon, <2>3 DEF f, u
<1>9. /\ \A kind, q : Waits(m, kind, q) => Waits(n, kind, q)
      /\ \A i \in 1 .. k : Waits(n, "connect", s[i])
  <2>1. m.queue \in Seq(Requests) /\ Len(m.queue) \in Nat
    BY DEF Manager
  <2>2. /\ Len(n.queue) = Len(m.queue) + k
        /\ \A i \in 1 .. Len(m.queue) : n.queue[i] = m.queue[i]
        /\ \A i \in 1 .. k : n.queue[Len(m.queue) + i] = t[i]
    <3>1. /\ Len(m.queue \o t) = Len(m.queue) + Len(t)
          /\ \A i \in 1 .. Len(m.queue) : (m.queue \o t)[i] = m.queue[i]
          /\ \A i \in 1 .. Len(t) : (m.queue \o t)[Len(m.queue) + i] = t[i]
      <4>1. m.queue \in Seq(Requests) /\ t \in Seq(Requests)
        BY Zenon, <1>4, <2>1
      <4> DEFINE a == m.queue
      <4> HIDE DEF a
      <4>2. a \in Seq(Requests)
        BY Zenon, <4>1 DEF a
      <4>3. /\ Len(a \o t) = Len(a) + Len(t)
            /\ \A i \in 1 .. Len(a) : (a \o t)[i] = a[i]
            /\ \A i \in 1 .. Len(t) : (a \o t)[Len(a) + i] = t[i]
        BY <4>1, <4>2, ConcatFacts
      <4> QED BY Zenon, <4>3 DEF a
    <3>2. n.queue = m.queue \o t /\ Len(t) = k
      BY Zenon, <1>4, <1>8
    <3> QED BY Zenon, <3>1, <3>2
  <2>3. ASSUME NEW kind, NEW q, Waits(m, kind, q) PROVE Waits(n, kind, q)
    <3>1. PICK i \in 1 .. Len(m.queue) : m.queue[i] = <<kind, q>>
      BY Zenon, <2>3 DEF Waits
    <3>2. i \in 1 .. Len(n.queue) /\ n.queue[i] = <<kind, q>>
      BY SMTT(30), <1>1, <2>1, <2>2, <3>1
    <3> QED BY Zenon, <3>2 DEF Waits
  <2>4. ASSUME NEW i \in 1 .. k PROVE Waits(n, "connect", s[i])
    <3>1. Len(m.queue) + i \in 1 .. Len(n.queue)
      BY <1>1, <2>1, <2>2
    <3>2. n.queue[Len(m.queue) + i] = <<"connect", s[i]>>
      BY Zenon, <1>4, <2>2
    <3> QED BY Zenon, <3>1, <3>2 DEF Waits
  <2> QED BY Zenon, <2>3, <2>4
<1>10. Listed(n)
  BY <1>6, <1>8 DEF Listed
<1>11. \A q \in Peers :
         \/ n.peers[q].state = m.peers[q].state
         \/ /\ m.peers[q].state = "idle" /\ n.peers[q].state = "pending_out"
            /\ Waits(n, "connect", q)
  BY <1>6, <1>8, <1>9
<1> QED BY Zenon, <1>8, <1>9, <1>10, <1>11 DEF Fills, Orderly, Leaving, n

\* fill_outbound_slots.
LEMMA FillOutboundSlotsFills ==
    ASSUME NEW m \in Manager, Listed(m), NEW n \in FillOutboundSlots(m)
    PROVE  Fills(m, n)
<1>1. PICK gain \in {0, 1} :
        \/ n = Ticked(m, gain)
        \/ \E s \in Picks(Ticked(m, gain)) : n = Dialled(Ticked(m, gain), s)
  BY Zenon DEF FillOutboundSlots
<1> DEFINE t == Ticked(m, gain)
<1>2. /\ Orderly(m, t) /\ t \in Manager /\ Listed(t)
      /\ \A q \in Peers : t.peers[q].state = m.peers[q].state
  BY Zenon, TickedOrderly
<1> HIDE DEF t
<1>3. CASE n = t
  BY Zenon, <1>2, <1>3 DEF Fills
<1>4. ASSUME NEW s \in Picks(t), n = Dialled(t, s) PROVE Fills(m, n)
  <2>1. Fills(t, n)
    BY Zenon, <1>2, <1>4, DialledFills
  <2> QED BY Zenon, <1>2, <2>1, OrderlyTwice DEF Fills
<1> QED BY Zenon, <1>1, <1>3, <1>4 DEF t

\* What a hook does that follows the end of a session or a dial of one peer:
\* if it marks the peer as being dialled, it asks for the dial anew.
Settles(m, n, p) ==
    /\ Orderly(m, n)
    /\ \A q \in Peers \ {p} : InSight(m, n, q)
    /\ n.peers[p].state = "pending_out" => Waits(n, "connect", p)

\* An entry at rest and the slots filled after it.
LEMMA RestThenFill ==
    ASSUME NEW m, NEW p \in Peers, NEW f, Edits(m, f, p),
           f.peers[p].state \in {"absent", "idle"}, NEW n \in FillOutboundSlots(f)
    PROVE  Settles(m, n, p)
<1>1. f \in Manager /\ Listed(f)
  BY Zenon DEF Edits, Orderly
<1>2. Fills(f, n)
  BY Zenon, <1>1, FillOutboundSlotsFills
<1>3. Orderly(m, n)
  BY Zenon, <1>2, OrderlyTwice DEF Fills, Edits
<1>4. \A q \in Peers \ {p} : InSight(m, n, q)
  BY Zenon, <1>2 DEF Fills, Edits, InSight, Incoming, Outgoing
<1> QED BY Zenon, <1>2, <1>3, <1>4 DEF Fills, Orderly, Settles

\* on_connection_failure.
LEMMA OnConnectionFailureSettles ==
    ASSUME NEW m \in Manager, Listed(m), NEW p \in Peers, NEW err,
           NEW n \in OnConnectionFailure(m, p, err)
    PROVE  Settles(m, n, p)
<1> DEFINE f == IF err = "fatal" THEN FailFatal(m, p) ELSE FailSoft(m, p, err)
<1>1. Edits(m, f, p) /\ f.peers[p].state \in {"absent", "idle"}
  BY Zenon, FailFatalEdits, FailSoftEdits
<1>2. n \in FillOutboundSlots(f)
  BY Zenon DEF OnConnectionFailure
<1> HIDE DEF f
<1> QED BY Zenon, <1>1, <1>2, RestThenFill

\* on_active_session_gracefully_closed.
LEMMA OnActiveSessionGracefullyClosedSettles ==
    ASSUME NEW m \in Manager, Listed(m), NEW p \in Peers,
           NEW n \in OnActiveSessionGracefullyClosed(m, p)
    PROVE  Settles(m, n, p)
<1> DEFINE d == DecrState(m, p)
           e == m.peers[p]
           i == [e EXCEPT !.state = "idle", !.severe = 0, !.backed_off = TRUE]
           c == IF e.remove /\ ~IsTrusted(e) THEN Forget(d, p)
                ELSE [d EXCEPT !.peers[p] = i, !.backoffs = @ \cup {p}]
<1>1. CASE ~Tracked(m, p)
  <2>1. n = m
    BY Zenon, <1>1 DEF OnActiveSessionGracefullyClosed
  <2> QED BY Zenon, <1>1, <2>1, OrderlySelf DEF Settles, Tracked, InSight, Incoming, Outgoing
<1>2. CASE Tracked(m, p)
  <2>1. n \in FillOutboundSlots(c)
    BY Zenon, <1>2 DEF OnActiveSessionGracefullyClosed
  <2>2. d \in Manager /\ d.peers = m.peers /\ d.queue = m.queue /\ d.backoffs = m.backoffs
    BY Zenon, DecrStateFields
  <2>3. i \in Entry /\ i.state = "idle"
    <3>1. e \in Entry /\ 0 \in 0 .. MaxBackoff
      BY NetworkAssumption DEF Manager
    <3> QED BY Zenon, <3>1 DEF Entry, States
  <2>4. Absent \in Entry /\ Absent.state = "absent" /\ Absent.backed_off = FALSE
    BY Zenon, EntryTypes DEF Absent
  <2>5. c = [d EXCEPT !.peers[p] = Absent]
        \/ c = [d EXCEPT !.peers[p] = i, !.backoffs = @ \cup {p}]
    BY Zenon DEF Forget
  <2> HIDE DEF c, d, i
  <2>6. CASE c = [d EXCEPT !.peers[p] = Absent]
    <3>1. c \in Manager /\ c.peers = [m.peers EXCEPT ![p] = Absent] /\ c.queue = m.queue
          /\ c.backoffs = m.backoffs
      BY SMTT(30), <2>2, <2>4, <2>6, EntryFields
    <3>2. Edits(m, c, p) /\ c.peers[p].state \in {"absent", "idle"}
      BY Zenon, <2>4, <3>1, RestingEdits
    <3> QED BY Zenon, <2>1, <3>2, RestThenFill
  <2>7. CASE c = [d EXCEPT !.peers[p] = i, !.backoffs = @ \cup {p}]
    <3>1. c \in Manager /\ c.peers = [m.peers EXCEPT ![p] = i] /\ c.queue = m.queue
          /\ c.backoffs = m.backoffs \cup {p}
      BY Zenon, <2>2, <2>3, <2>7 DEF Manager
    <3>2. Edits(m, c, p) /\ c.peers[p].state \in {"absent", "idle"}
      BY Zenon, <2>3, <3>1, RestingEdits
    <3> QED BY Zenon, <2>1, <3>2, RestThenFill
  <2> QED BY Zenon, <2>5, <2>6, <2>7
<1> QED BY Zenon, <1>1, <1>2

-----------------------------------------------------------------------------
(* Establishing a session.                                                  *)

\* Steps that establish a session.  The peer that is named may come to be
\* connected in the session's direction; nobody else may.
CalmBut(p, m, n) ==
    \A q \in Peers \ {p} :
        /\ n.peers[q].state \in Incoming => m.peers[q].state \in Incoming
        /\ n.peers[q].state \in Outgoing => m.peers[q].state \in Outgoing

\* on_active_outgoing_established.
LEMMA OnActiveOutgoingEstablishedSound ==
    ASSUME NEW m, Sound(m), NEW p \in Peers, m.peers[p].state \notin Incoming
    PROVE  LET n == OnActiveOutgoingEstablished(m, p) IN
           /\ Sound(n) /\ CalmBut(p, m, n) /\ n.num_pending_in = m.num_pending_in
           /\ n.peers[p].state \notin Incoming
<1> DEFINE d == DecrState(m, p)
           n == SetState([d EXCEPT !.num_outbound = @ + 1], p, "out")
<1>1. CASE ~Tracked(m, p)
  BY Zenon, <1>1 DEF OnActiveOutgoingEstablished, CalmBut
<1>2. CASE Tracked(m, p)
  <2>1. OnActiveOutgoingEstablished(m, p) = n
    BY Zenon, <1>2 DEF OnActiveOutgoingEstablished
  <2>2. /\ Shape(d) /\ d.peers = m.peers
        /\ d.num_outbound = m.num_outbound - One(m.peers[p].state, Outgoing)
        /\ d.num_inbound = m.num_inbound - One(m.peers[p].state, Incoming)
        /\ d.num_pending_out = m.num_pending_out - One(m.peers[p].state, Dial)
        /\ d.num_pending_in = m.num_pending_in
    BY Zenon, DecrStateCharges DEF Sound
  <2> HIDE DEF d
  <2>3. /\ Shape(n)
        /\ \A q \in Peers \ {p} : n.peers[q].state = m.peers[q].state
        /\ n.peers[p].state = "out"
        /\ n.num_outbound = d.num_outbound + 1 /\ n.num_inbound = d.num_inbound
        /\ n.num_pending_out = d.num_pending_out /\ n.num_pending_in = d.num_pending_in
    BY <2>2 DEF SetState, Shape, States
  <2> HIDE DEF n
  <2>4. Sound(n)
    <3>1. /\ One(n.peers[p].state, Outgoing) = 1 /\ One(n.peers[p].state, Incoming) = 0
          /\ One(n.peers[p].state, Dial) = 0
          /\ One(m.peers[p].state, Outgoing) \in Int /\ One(m.peers[p].state, Dial) \in Int
          /\ One(m.peers[p].state, Incoming) \in Int
      BY SMTT(30), <2>3 DEF One, Outgoing, Incoming, Dial
    <3>2. /\ n.num_outbound >= m.num_outbound
               - One(m.peers[p].state, Outgoing) + One(n.peers[p].state, Outgoing)
          /\ n.num_inbound >= m.num_inbound
               - One(m.peers[p].state, Incoming) + One(n.peers[p].state, Incoming)
          /\ n.num_pending_out = m.num_pending_out
               - One(m.peers[p].state, Dial) + One(n.peers[p].state, Dial)
      BY SMTT(30), <2>2, <2>3, <3>1 DEF Sound, Shape
    <3> QED BY Zenon, <2>3, <3>2, OneMoves
  <2> QED BY Zenon, <2>1, <2>2, <2>3, <2>4 DEF CalmBut, Incoming
<1> QED BY Zenon, <1>1, <1>2

\* The admission of an incoming session gives back the slot of a dial that
\* lost the race.
LEMMA EnterIncomingSound ==
    ASSUME NEW m, Sound(m), NEW p \in Peers, m.peers[p].state \in Off
    PROVE  LET n == EnterIncoming(m, p) IN
           /\ Sound(n) /\ CalmBut(p, m, n) /\ n.num_pending_in = m.num_pending_in
           /\ n.peers[p].state \notin Outgoing
<1> DEFINE d == IF m.peers[p].state = "pending_out" THEN DecrState(m, p) ELSE m
           e == IF Tracked(m, p) THEN m.peers[p] ELSE [Absent EXCEPT !.remove = TRUE]
           i == [e EXCEPT !.state = "in"]
           o == [d EXCEPT !.peers[p] = i, !.num_inbound = @ + 1]
           n == EnterIncoming(m, p)
<1>1. /\ Shape(d) /\ d.peers = m.peers
      /\ d.num_outbound = m.num_outbound /\ d.num_inbound = m.num_inbound
      /\ d.num_pending_out = m.num_pending_out - One(m.peers[p].state, Dial)
      /\ d.num_pending_in = m.num_pending_in
  BY SMTT(30), DecrStateCharges DEF Sound, Shape, One, Off, Dial, Incoming, Outgoing
<1>2. i.state = "in" /\ "state" \in DOMAIN i
  BY Zenon DEF Sound, Shape, Absent
<1>3. n = o \/ n = Push(o, "disconnect", p)
  BY Zenon DEF EnterIncoming
<1> HIDE DEF d, i, n
<1>4. /\ Shape(o)
      /\ \A q \in Peers \ {p} : o.peers[q].state = m.peers[q].state
      /\ o.peers[p].state = "in"
      /\ o.num_outbound = d.num_outbound /\ o.num_inbound = d.num_inbound + 1
      /\ o.num_pending_out = d.num_pending_out /\ o.num_pending_in = d.num_pending_in
  BY <1>1, <1>2 DEF Shape, States
<1> HIDE DEF o
<1>5. /\ Shape(n) /\ n.peers = o.peers
      /\ n.num_outbound = o.num_outbound /\ n.num_inbound = o.num_inbound
      /\ n.num_pending_out = o.num_pending_out /\ n.num_pending_in = o.num_pending_in
  BY Zenon, <1>3, <1>4 DEF Push, Shape
<1>6. Sound(n)
  <2>1. /\ One(n.peers[p].state, Outgoing) = 0 /\ One(n.peers[p].state, Incoming) = 1
        /\ One(n.peers[p].state, Dial) = 0
        /\ One(m.peers[p].state, Outgoing) = 0 /\ One(m.peers[p].state, Incoming) = 0
        /\ One(m.peers[p].state, Dial) \in Int
    BY SMTT(30), <1>4, <1>5 DEF One, Outgoing, Incoming, Dial, Off
  <2>2. /\ n.num_outbound >= m.num_outbound
             - One(m.peers[p].state, Outgoing) + One(n.peers[p].state, Outgoing)
        /\ n.num_inbound >= m.num_inbound
             - One(m.peers[p].state, Incoming) + One(n.peers[p].state, Incoming)
        /\ n.num_pending_out = m.num_pending_out
             - One(m.peers[p].state, Dial) + One(n.peers[p].state, Dial)
    BY SMTT(30), <1>1, <1>4, <1>5, <2>1 DEF Sound, Shape
  <2>3. \A q \in Peers \ {p} : n.peers[q].state = m.peers[q].state
    BY Zenon, <1>4, <1>5
  <2> QED BY ZenonT(30), <1>5, <2>2, <2>3, OneMoves
<1> QED BY ZenonT(30), <1>1, <1>4, <1>5, <1>6 DEF CalmBut, Outgoing, n

\* Commands and timers that touch no connection state and no counter.
SameSlots(m, n) ==
    /\ Shape(n) /\ \A q \in Peers : n.peers[q].state = m.peers[q].state
    /\ n.num_outbound = m.num_outbound /\ n.num_inbound = m.num_inbound
    /\ n.num_pending_out = m.num_pending_out /\ n.num_pending_in = m.num_pending_in

\* These commands and timers are quiet.
LEMMA EditsQuiet ==
    ASSUME NEW m, Sound(m), NEW p \in Peers
    PROVE  /\ \A kind : Quiet(m, Trust(m, p, kind))
           /\ Quiet(m, AddTrustedPeerId(m, p))
           /\ Quiet(m, RemovePeerFromTrustedSet(m, p))
           /\ Quiet(m, OnResolvedPeer(m, p))
           /\ Quiet(m, UnbanPeerByAdmin(m, p))
           /\ Quiet(m, ResetReputation(m, p))
           /\ \A net : Quiet(m, [m EXCEPT !.net = net])
           /\ \A queue : Quiet(m, [m EXCEPT !.queue = queue])
           /\ Quiet(m, [m EXCEPT !.banned[p] = "no", !.peers[p].reputation = 0])
           /\ Quiet(m, [m EXCEPT !.backoffs = @ \ {p}, !.peers[p].backed_off = FALSE])
<1> USE DEF Sound, Shape, SameSlots
<1>1. \A kind : SameSlots(m, Trust(m, p, kind))
  BY Zenon DEF Trust
<1>2. SameSlots(m, AddTrustedPeerId(m, p))
  BY Zenon DEF AddTrustedPeerId, Trust
<1>3. SameSlots(m, RemovePeerFromTrustedSet(m, p))
  BY Zenon DEF RemovePeerFromTrustedSet
<1>4. SameSlots(m, UnbanPeerByAdmin(m, p))
  BY Zenon DEF UnbanPeerByAdmin
<1>5. SameSlots(m, ResetReputation(m, p))
  BY Zenon DEF ResetReputation
<1>6. \A net : SameSlots(m, [m EXCEPT !.net = net])
  BY Zenon
<1>7. \A queue : SameSlots(m, [m EXCEPT !.queue = queue])
  BY Zenon
<1>8. SameSlots(m, [m EXCEPT !.banned[p] = "no", !.peers[p].reputation = 0])
  BY Zenon
<1>9. SameSlots(m, [m EXCEPT !.backoffs = @ \ {p}, !.peers[p].backed_off = FALSE])
  BY Zenon
<1>10. Quiet(m, OnResolvedPeer(m, p))
  BY Zenon, AddPeerKindQuiet, QuietSelf DEF OnResolvedPeer
<1> USE DEF SameSlots
<1>11. \A n : SameSlots(m, n) => Quiet(m, n)
  BY SameStates
<1> HIDE DEF SameSlots, Sound, Shape
<1> QED BY SMTT(30), <1>1, <1>2, <1>3, <1>4, <1>5, <1>6, <1>7, <1>8, <1>9, <1>10, <1>11

-----------------------------------------------------------------------------
(* The slot counters.                                                       *)

\* The node starts with an idle table and no session.
LEMMA IInvInit == Init => IInv
<1> SUFFICES ASSUME Init PROVE IInv
  BY Zenon
<1>1. Shape(pm) /\ \A q \in Peers : pm.peers[q].state \in {"absent", "idle"}
  <2>1. PICK kind :
          /\ pm.peers = [p \in Peers |-> IF kind[p] = "absent" THEN Absent ELSE Known(kind[p])]
          /\ pm.num_outbound = 0 /\ pm.num_pending_out = 0
          /\ pm.num_inbound = 0 /\ pm.num_pending_in = 0
          /\ DOMAIN pm = {"peers", "num_outbound", "num_pending_out", "num_inbound",
                "num_pending_in", "trusted", "banned", "backoffs", "queue", "net"}
    BY DEF Init
  <2>2. /\ "state" \in DOMAIN Absent /\ Absent.state = "absent"
        /\ \A k : "state" \in DOMAIN Known(k) /\ Known(k).state = "idle"
    BY Zenon DEF Absent, Known
  <2>3. \A q \in Peers : /\ "state" \in DOMAIN pm.peers[q]
                          /\ pm.peers[q].state \in {"absent", "idle"}
    BY <2>1, <2>2
  <2> QED BY <2>1, <2>3 DEF Shape, States
<1>2. In(pm, Outgoing) = {} /\ In(pm, Incoming) = {} /\ In(pm, Dial) = {}
  BY Zenon, <1>1 DEF In, Outgoing, Incoming, Dial
<1>3. Sound(pm)
  <2>1. pm.num_outbound = 0 /\ pm.num_pending_out = 0 /\ pm.num_inbound = 0
    BY DEF Init
  <2> QED BY SMTT(30), <1>1, <1>2, <2>1, FS_EmptySet DEF Sound
<1> QED BY <1>1, <1>3 DEF Init, IInv, ConnectedHasSession

\* A step that is quiet for the manager and leaves the sessions alone.
LEMMA QuietStep ==
    ASSUME IInv, Quiet(pm, pm'), UNCHANGED <<pendingIn, active>>
    PROVE  IInv'
BY Zenon DEF IInv, Quiet, Calm, ConnectedHasSession, Incoming, Outgoing, Sound, Shape, States

\* A message of a handle or of discovery keeps the invariant.
LEMMA PeerCommandKeeps ==
    ASSUME IInv, NEW p \in Peers, PeerCommand(p)
    PROVE  IInv'
<1>1. Sound(pm) /\ UNCHANGED <<pendingIn, active>>
  BY Zenon DEF IInv, PeerCommand, sessions
<1>2. \/ \E kind : pm' = AddPeerKind(pm, p, kind)
      \/ \E kind : pm' = AddAndConnectKind(pm, p, kind)
      \/ pm' = RemovePeer(pm, p) \/ pm' = BanPeerByAdmin(pm, p)
      \/ \E cost : pm' = ApplyReputationChange(pm, p, cost)
      \/ \E kind : pm' = Trust(pm, p, kind)
      \/ pm' = AddTrustedPeerId(pm, p) \/ pm' = RemovePeerFromTrustedSet(pm, p)
      \/ pm' = OnResolvedPeer(pm, p) \/ pm' = UnbanPeerByAdmin(pm, p)
      \/ pm' = ResetReputation(pm, p)
  BY Zenon DEF PeerCommand
<1>3. Quiet(pm, pm')
  <2>1. /\ \A kind : Quiet(pm, AddPeerKind(pm, p, kind))
        /\ \A kind : Quiet(pm, AddAndConnectKind(pm, p, kind))
        /\ \A cost : Quiet(pm, ApplyReputationChange(pm, p, cost))
    BY Zenon, <1>1, AddPeerKindQuiet, AddAndConnectKindQuiet, ApplyReputationChangeQuiet
  <2>2. Quiet(pm, RemovePeer(pm, p)) /\ Quiet(pm, BanPeerByAdmin(pm, p))
    BY Zenon, <1>1, RemovePeerQuiet, BanPeerByAdminQuiet
  <2>3. /\ \A kind : Quiet(pm, Trust(pm, p, kind))
        /\ Quiet(pm, AddTrustedPeerId(pm, p))
        /\ Quiet(pm, RemovePeerFromTrustedSet(pm, p))
        /\ Quiet(pm, OnResolvedPeer(pm, p))
        /\ Quiet(pm, UnbanPeerByAdmin(pm, p))
        /\ Quiet(pm, ResetReputation(pm, p))
    BY Zenon, <1>1, EditsQuiet
  <2> QED BY Zenon, <1>2, <2>1, <2>2, <2>3
<1> QED BY Zenon, <1>1, <1>3, QuietStep

\* The end of an incoming handshake is counted once, whatever comes of it.
LEMMA DecrPendingInSound ==
    ASSUME NEW m, Sound(m)
    PROVE  /\ Sound(DecrPendingIn(m)) /\ DecrPendingIn(m).peers = m.peers
           /\ DecrPendingIn(m).num_pending_in = m.num_pending_in - 1
<1> DEFINE n == DecrPendingIn(m)
<1>1. /\ Shape(n) /\ n.peers = m.peers /\ n.num_pending_in = m.num_pending_in - 1
      /\ n.num_outbound = m.num_outbound /\ n.num_inbound = m.num_inbound
      /\ n.num_pending_out = m.num_pending_out
  BY DEF DecrPendingIn, Sound, Shape
<1> HIDE DEF n
<1>2. \A S : In(n, S) = In(m, S)
  BY Zenon, <1>1 DEF In
<1> QED BY Zenon, <1>1, <1>2 DEF Sound, n

\* on_incoming_session_established, for a peer without a session.
LEMMA OnIncomingSessionEstablishedSound ==
    ASSUME NEW m, Sound(m), NEW p \in Peers, m.peers[p].state \in Off,
           NEW n \in OnIncomingSessionEstablished(m, p)
    PROVE  /\ Sound(n) /\ CalmBut(p, m, n) /\ n.num_pending_in = m.num_pending_in - 1
           /\ n.peers[p].state \notin Outgoing
<1> DEFINE d == DecrPendingIn(m)
<1>1. Sound(d) /\ d.peers = m.peers /\ d.num_pending_in = m.num_pending_in - 1
  BY Zenon, DecrPendingInSound
<1>2. \/ n = Push(d, "disconnect", p)
      \/ \E gain \in {0, 1} : \/ n = Push(Ticked(d, gain), "disconnect", p)
                             \/ n = EnterIncoming(Ticked(d, gain), p)
  BY Zenon DEF OnIncomingSessionEstablished
<1> HIDE DEF d
<1>3. \A gain : Quiet(d, Ticked(d, gain))
  BY Zenon, <1>1, TickedQuiet
<1>4. ASSUME NEW o, Quiet(d, o) PROVE Quiet(d, Push(o, "disconnect", p))
  <2>1. \A queue : Quiet(o, [o EXCEPT !.queue = queue])
    BY Zenon, <1>4, EditsQuiet DEF Quiet
  <2> QED BY Zenon, <1>4, <2>1, QuietTwice DEF Push
<1>5. CASE n = Push(d, "disconnect", p)
  <2>1. Quiet(d, n)
    BY SMTT(30), <1>1, <1>4, <1>5, QuietSelf
  <2> QED BY Zenon, <1>1, <2>1 DEF Quiet, Calm, CalmBut, Off, Outgoing
<1>6. ASSUME NEW gain, n = Push(Ticked(d, gain), "disconnect", p)
      PROVE  Quiet(d, n)
  BY Zenon, <1>3, <1>4, <1>6
<1>7. ASSUME NEW gain, n = EnterIncoming(Ticked(d, gain), p)
      PROVE  /\ Sound(n) /\ CalmBut(p, m, n) /\ n.num_pending_in = m.num_pending_in - 1
             /\ n.peers[p].state \notin Outgoing
  <2> DEFINE t == Ticked(d, gain)
  <2>1. Quiet(d, t)
    BY Zenon, <1>3
  <2> HIDE DEF t
  <2>2. t.peers[p].state \in Off
    BY Zenon, <1>1, <2>1 DEF Quiet, Calm, Sound, Shape, Off, States, Outgoing, Incoming
  <2>3. /\ Sound(n) /\ CalmBut(p, t, n) /\ n.num_pending_in = t.num_pending_in
        /\ n.peers[p].state \notin Outgoing
    BY Zenon, <1>7, <2>1, <2>2, EnterIncomingSound DEF Quiet, t
  <2> QED BY Zenon, <1>1, <2>1, <2>3 DEF Quiet, Calm, CalmBut
<1> QED
  <2>1. CASE Quiet(d, n)
    BY Zenon, <1>1, <2>1 DEF Quiet, Calm, CalmBut, Off, Outgoing
  <2> QED BY Zenon, <1>2, <1>5, <1>6, <1>7, <2>1

\* So does an incoming session that ends its handshake,
LEMMA IncomingEstablishedKeeps ==
    ASSUME IInv, NEW p \in Peers, IncomingEstablished(p)
    PROVE  IInv'
<1>1. pendingIn' = pendingIn - 1
  BY Zenon DEF IncomingEstablished
<1>2. CASE active[p] # "none" /\ pm' = DecrPendingIn(pm) /\ UNCHANGED active
  <2>1. Sound(pm') /\ pm'.peers = pm.peers /\ pm'.num_pending_in = pm.num_pending_in - 1
    BY Zenon, <1>2, DecrPendingInSound DEF IInv
  <2> QED BY Zenon, <1>1, <1>2, <2>1 DEF IInv, ConnectedHasSession
<1>3. CASE /\ active[p] = "none" /\ active' = [active EXCEPT ![p] = "in"]
           /\ pm' \in OnIncomingSessionEstablished(pm, p)
  <2>1. pm.peers[p].state \in Off
    BY Zenon, <1>3 DEF IInv, ConnectedHasSession, Sound, Shape, States, Off
  <2>2. /\ Sound(pm') /\ CalmBut(p, pm, pm')
        /\ pm'.num_pending_in = pm.num_pending_in - 1
        /\ pm'.peers[p].state \notin Outgoing
    BY Zenon, <1>3, <2>1, OnIncomingSessionEstablishedSound DEF IInv
  <2>3. ConnectedHasSession'
    BY Zenon, <1>3, <2>2 DEF IInv, ConnectedHasSession, CalmBut, Incoming, Outgoing
  <2> QED BY Zenon, <1>1, <1>3, <2>2, <2>3 DEF IInv
<1> QED BY Zenon, <1>2, <1>3 DEF IncomingEstablished

\* and an outgoing one.
LEMMA OutgoingEstablishedKeeps ==
    ASSUME IInv, NEW p \in Peers, OutgoingEstablished(p)
    PROVE  IInv'
<1>1. pendingIn' = pendingIn
  BY Zenon DEF OutgoingEstablished, DialEnds
<1>2. CASE UNCHANGED <<pm, active>>
  BY Zenon, <1>1, <1>2, QuietStep, QuietSelf DEF IInv
<1>3. CASE /\ active[p] = "none" /\ active' = [active EXCEPT ![p] = "out"]
           /\ pm' = OnActiveOutgoingEstablished(pm, p)
  <2>1. pm.peers[p].state \notin Incoming
    BY Zenon, <1>3 DEF IInv, ConnectedHasSession, Incoming
  <2>2. /\ Sound(pm') /\ CalmBut(p, pm, pm')
        /\ pm'.num_pending_in = pm.num_pending_in
        /\ pm'.peers[p].state \notin Incoming
    BY Zenon, <1>3, <2>1, OnActiveOutgoingEstablishedSound DEF IInv
  <2>3. ConnectedHasSession'
    BY Zenon, <1>3, <2>2 DEF IInv, ConnectedHasSession, CalmBut, Incoming, Outgoing
  <2> QED BY Zenon, <1>1, <1>3, <2>2, <2>3 DEF IInv
<1> QED BY Zenon, <1>2, <1>3 DEF OutgoingEstablished

\* A dial fails, or an active session ends.
LEMMA EndsKeep ==
    ASSUME IInv, NEW p \in Peers,
           \/ OutgoingConnectionError(p) \/ OutgoingPendingSessionClosed(p)
           \/ SessionClosed(p)
    PROVE  IInv'
<1>1. Sound(pm) /\ pendingIn' = pendingIn
  BY Zenon DEF IInv, OutgoingConnectionError, OutgoingPendingSessionClosed, SessionClosed, DialEnds
<1>2. \A err : \A n \in OnConnectionFailure(pm, p, err) :
        Quiet(pm, n) /\ n.peers[p].state \in Off
  BY Zenon, <1>1, OnConnectionFailureQuiet
<1>3. CASE OutgoingConnectionError(p)
  <2>1. Quiet(pm, pm')
    BY Zenon, <1>1, <1>2, <1>3, QuietSelf DEF OutgoingConnectionError, OnOutgoingConnectionFailure
  <2> QED BY Zenon, <1>1, <1>3, <2>1, QuietStep DEF OutgoingConnectionError
<1>4. CASE OutgoingPendingSessionClosed(p)
  <2>1. Quiet(pm, pm')
    BY Zenon, <1>1, <1>2, <1>4, OnOutgoingPendingSessionGracefullyClosedQuiet
       DEF OutgoingPendingSessionClosed
  <2> QED BY Zenon, <1>1, <1>4, <2>1, QuietStep DEF OutgoingPendingSessionClosed
<1>5. CASE SessionClosed(p)
  <2>1. Quiet(pm, pm') /\ pm'.peers[p].state \in Off
    BY Zenon, <1>1, <1>2, <1>5, OnActiveSessionGracefullyClosedQuiet DEF SessionClosed
  <2>2. active' = [active EXCEPT ![p] = "none"]
    BY Zenon, <1>5 DEF SessionClosed
  <2>3. ConnectedHasSession'
    BY Zenon, <2>1, <2>2 DEF IInv, ConnectedHasSession, Quiet, Calm, Incoming, Outgoing, Off
  <2> QED BY Zenon, <1>1, <2>1, <2>2, <2>3 DEF IInv, Quiet
<1> QED BY Zenon, <1>3, <1>4, <1>5

\* Every step of the network task keeps the invariant.
LEMMA IInvNext == IInv /\ [Next]_vars => IInv'
<1> SUFFICES ASSUME IInv, [Next]_vars PROVE IInv'
  BY Zenon
<1>0. Sound(pm)
  BY Zenon DEF IInv
<1>1. CASE OnStateAction
  <2>1. Quiet(pm, pm')
    <3>1. pm' = [pm EXCEPT !.queue = Tail(pm.queue)]
      BY Zenon, <1>1 DEF OnStateAction
    <3>2. CASE Peers = {}
      BY SMTT(30), <1>0, <3>1, <3>2, SameStates DEF Sound, Shape
    <3>3. CASE Peers # {}
      BY Zenon, <1>0, <3>1, <3>3, EditsQuiet
    <3> QED BY Zenon, <3>2, <3>3
  <2> QED BY Zenon, <1>1, <2>1, QuietStep DEF OnStateAction
<1>2. CASE OnConnection
  <2>1. /\ Shape(pm') /\ pm'.peers = pm.peers
        /\ pm'.num_pending_in = pm.num_pending_in + 1 /\ pendingIn' = pendingIn + 1
        /\ pm'.num_outbound = pm.num_outbound /\ pm'.num_inbound = pm.num_inbound
        /\ pm'.num_pending_out = pm.num_pending_out /\ UNCHANGED active
    BY <1>0, <1>2 DEF OnConnection, Sound, Shape
  <2>2. \A S : In(pm', S) = In(pm, S)
    BY Zenon, <2>1 DEF In
  <2>3. Sound(pm')
    BY Zenon, <1>0, <2>1, <2>2 DEF Sound
  <2> QED BY Zenon, <2>1, <2>3 DEF IInv, ConnectedHasSession
<1>3. CASE IncomingPendingSessionClosed
  <2>1. pm' = DecrPendingIn(pm) /\ pendingIn' = pendingIn - 1 /\ UNCHANGED active
    BY Zenon, <1>3 DEF IncomingPendingSessionClosed
  <2>2. Sound(pm') /\ pm'.peers = pm.peers /\ pm'.num_pending_in = pm.num_pending_in - 1
    BY Zenon, <1>0, <2>1, DecrPendingInSound
  <2> QED BY Zenon, <2>1, <2>2 DEF IInv, ConnectedHasSession
<1>4. CASE SetNetworkState \/ PerformNetworkShutdown
  <2>1. PICK net : pm' = [pm EXCEPT !.net = net]
    BY Zenon, <1>4 DEF SetNetworkState, PerformNetworkShutdown
  <2>2. SameSlots(pm, pm')
    BY Zenon, <1>0, <2>1 DEF SameSlots, Sound, Shape
  <2>3. Quiet(pm, pm')
    BY Zenon, <1>0, <2>2, SameStates DEF SameSlots
  <2> QED BY Zenon, <1>4, <2>3, QuietStep DEF SetNetworkState, PerformNetworkShutdown, sessions
<1>5. CASE Refill
  BY Zenon, <1>0, <1>5, FillOutboundSlotsQuiet, QuietStep DEF Refill, sessions
<1>6. CASE Rotate
  <2>1. PICK p \in Peers : pm' = [pm EXCEPT !.queue = Append(pm.queue, <<"disconnect", p>>)]
    BY Zenon, <1>6 DEF Rotate, Rotatable, Push
  <2>2. Quiet(pm, pm')
    BY Zenon, <1>0, <2>1, EditsQuiet
  <2> QED BY Zenon, <1>6, <2>2, QuietStep DEF Rotate, sessions
<1>7. ASSUME NEW p \in Peers, DisconnectPeer(p) PROVE IInv'
  BY Zenon, <1>0, <1>7, QuietSelf, QuietStep DEF DisconnectPeer
<1>8. ASSUME NEW p \in Peers, Expire(p) PROVE IInv'
  <2>1. Quiet(pm, pm')
    <3>1. /\ Quiet(pm, [pm EXCEPT !.banned[p] = "no", !.peers[p].reputation = 0])
          /\ Quiet(pm, [pm EXCEPT !.backoffs = @ \ {p}, !.peers[p].backed_off = FALSE])
      BY Zenon, <1>0, EditsQuiet
    <3>2. \/ pm' = [pm EXCEPT !.banned[p] = "no", !.peers[p].reputation = 0]
          \/ pm' = [pm EXCEPT !.backoffs = @ \ {p}, !.peers[p].backed_off = FALSE]
      BY Zenon, <1>8 DEF Expire
    <3> QED BY Zenon, <3>1, <3>2
  <2> QED BY Zenon, <1>8, <2>1, QuietStep DEF Expire, sessions
<1>9. CASE UNCHANGED vars
  BY Zenon, <1>0, <1>9, QuietSelf, QuietStep DEF vars
<1> QED BY SMTT(30), <1>1, <1>2, <1>3, <1>4, <1>5, <1>6, <1>7, <1>8, <1>9, PeerCommandKeeps,
           IncomingEstablishedKeeps, OutgoingEstablishedKeeps, EndsKeep DEF Next

-----------------------------------------------------------------------------
(* The rest of what waits for what.                                         *)

\* A session or a dial ends: the entry is left as it was asked to be.
LEMMA EndsBacked ==
    ASSUME IInv, BackedInv, NEW p \in Peers,
           \/ OutgoingConnectionError(p) \/ OutgoingPendingSessionClosed(p)
           \/ SessionClosed(p)
    PROVE  /\ BackedInv'
           /\ \A q \in Peers \ {p} : InSight(pm, pm', q)
           /\ dials'[p] < dials[p] \/ active'[p] # active[p]
<1>0. pm \in Manager /\ Listed(pm) /\ active \in [Peers -> {"none", "in", "out"}]
  BY Zenon DEF BackedInv, SessionTypes
<1>1. \A err : \A n \in OnConnectionFailure(pm, p, err) : Settles(pm, n, p)
  BY Zenon, <1>0, OnConnectionFailureSettles
<1>2. ASSUME DialEnds(p), active' = active, Orderly(pm, pm'),
             \A q \in Peers \ {p} : InSight(pm, pm', q),
             pm'.peers[p].state = "pending_out" => Waits(pm', "connect", p)
      PROVE  /\ BackedInv'
             /\ \A q \in Peers \ {p} : InSight(pm, pm', q)
             /\ dials'[p] < dials[p] \/ active'[p] # active[p]
  <2>1. /\ SessionTypes' /\ closing' = closing /\ dials'[p] < dials[p]
        /\ \A q \in Peers \ {p} : dials'[q] = dials[q]
    BY Zenon, <1>0, <1>2, DialEndsTypes
  <2> QED BY Zenon, <1>2, <2>1, OrderlyStep
<1>3. CASE OutgoingConnectionError(p)
  <2>1. DialEnds(p) /\ active' = active
    BY Zenon, <1>3 DEF OutgoingConnectionError
  <2>2. CASE pm.peers[p].state = "in" /\ pm' = pm
    BY SMTT(30), <1>0, <1>2, <2>1, <2>2, OrderlySelf DEF InSight, Incoming, Outgoing
  <2>3. CASE Settles(pm, pm', p)
    BY Zenon, <1>2, <2>1, <2>3 DEF Settles
  <2> QED BY SMTT(30), <1>1, <1>3, <2>2, <2>3
      DEF OutgoingConnectionError, OnOutgoingConnectionFailure
<1>4. CASE OutgoingPendingSessionClosed(p)
  <2>1. DialEnds(p) /\ active' = active
    BY Zenon, <1>4 DEF OutgoingPendingSessionClosed
  <2>2. CASE Settles(pm, pm', p)
    BY Zenon, <1>2, <2>1, <2>2 DEF Settles
  <2>3. CASE pm' = OnOutgoingPendingSessionGracefullyClosed(pm, p)
    <3>1. Edits(pm, pm', p) /\ pm'.peers[p].state \in {"absent", "idle"}
      BY Zenon, <1>0, <2>3, OnOutgoingPendingSessionGracefullyClosedEdits
    <3> QED BY Zenon, <1>2, <2>1, <3>1 DEF Edits, InSight, Incoming, Outgoing
  <2> QED BY Zenon, <1>1, <1>4, <2>2, <2>3 DEF OutgoingPendingSessionClosed
<1>5. CASE SessionClosed(p)
  <2>1. /\ active[p] # "none" /\ active' = [active EXCEPT ![p] = "none"]
        /\ closing' = closing \ {p} /\ UNCHANGED <<pendingIn, dials, quits, stimuli>>
    BY Zenon, <1>5 DEF SessionClosed
  <2>2. Settles(pm, pm', p)
    BY Zenon, <1>0, <1>1, <1>5, OnActiveSessionGracefullyClosedSettles DEF SessionClosed
  <2>3. pm'.peers[p].state \notin Leaving
    <3>1. IInv'
      BY Zenon, <1>5, EndsKeep
    <3>2. active'[p] = "none"
      BY Zenon, <1>0, <2>1
    <3> QED BY Zenon, <3>1, <3>2 DEF IInv, ConnectedHasSession, Leaving
  <2>4. SessionTypes'
    BY Zenon, <2>1 DEF BackedInv, SessionTypes
  <2>5. BackedInv'
    BY SMTT(30), <1>0, <2>1, <2>2, <2>3, <2>4, OrderlyStep DEF Settles
  <2> QED BY Zenon, <1>0, <2>1, <2>2, <2>5 DEF Settles
<1> QED BY Zenon, <1>3, <1>4, <1>5

\* The listener, and the commands and timers that concern no peer's session.
LEMMA OtherStepsBacked ==
    ASSUME IInv, BackedInv,
           \/ OnConnection \/ IncomingPendingSessionClosed \/ SetNetworkState
           \/ PerformNetworkShutdown \/ Refill \/ Rotate
    PROVE  BackedInv' /\ Watched
<1>0. pm \in Manager /\ Listed(pm)
  BY Zenon DEF BackedInv
<1>same. ASSUME pm' \in Manager, pm'.peers = pm.peers, pm'.queue = pm.queue,
                pm'.backoffs = pm.backoffs
         PROVE  Orderly(pm, pm') /\ Watched
  <2>1. Listed(pm')
    BY Zenon, <1>0, <1>same DEF Listed
  <2> QED BY Zenon, <1>same, <2>1, SameStatesOrderly DEF Watched, InSight, Incoming, Outgoing
<1>1. CASE OnConnection
  <2>1. pm' \in Manager /\ pm'.peers = pm.peers /\ pm'.queue = pm.queue
        /\ pm'.backoffs = pm.backoffs
    <3>1. pm' = [pm EXCEPT !.num_pending_in = pm.num_pending_in + 1]
      BY Zenon, <1>1 DEF OnConnection
    <3>2. pm.num_pending_in + 1 \in Int
      BY <1>0 DEF Manager
    <3> QED BY Zenon, <1>0, <3>1, <3>2, CounterFields
  <2>2. SessionTypes' /\ UNCHANGED <<dials, active, closing>>
    BY <1>1, NetworkAssumption DEF OnConnection, Stimulus, BackedInv, SessionTypes
  <2> QED BY <1>same, <2>1, <2>2, OrderlyStep
<1>2. CASE IncomingPendingSessionClosed
  <2>1. Orderly(pm, pm') /\ pm'.peers = pm.peers
    BY Zenon, <1>0, <1>2, DecrPendingInOrderly DEF IncomingPendingSessionClosed
  <2>2. SessionTypes' /\ UNCHANGED <<dials, active, closing>>
    BY <1>2 DEF IncomingPendingSessionClosed, BackedInv, SessionTypes
  <2> QED BY Zenon, <2>1, <2>2, OrderlyStep DEF Watched, InSight, Incoming, Outgoing
<1>3. CASE SetNetworkState
  <2>1. pm' \in Manager /\ pm'.peers = pm.peers /\ pm'.queue = pm.queue
        /\ pm'.backoffs = pm.backoffs
    BY Zenon, <1>0, <1>3 DEF SetNetworkState, Manager
  <2> QED BY Zenon, <1>3, <1>same, <2>1, ManagerStep DEF SetNetworkState
<1>4. CASE PerformNetworkShutdown
  <2>1. pm' \in Manager /\ pm'.peers = pm.peers /\ pm'.queue = pm.queue
        /\ pm'.backoffs = pm.backoffs
    BY Zenon, <1>0, <1>4 DEF PerformNetworkShutdown, Manager
  <2>2. /\ SessionTypes' /\ UNCHANGED <<dials, active>>
        /\ closing' = {p \in Peers : active[p] # "none"}
    BY <1>4, NetworkAssumption DEF PerformNetworkShutdown, Stimulus, BackedInv, SessionTypes
  <2>3. \A q \in Peers : pm'.peers[q].state \in Leaving => q \in closing'
    BY Zenon, <2>1, <2>2 DEF IInv, ConnectedHasSession, Leaving
  <2> QED BY SMTT(30), <1>same, <2>1, <2>2, <2>3, OrderlyStep
<1>5. CASE Refill
  <2>1. Fills(pm, pm')
    BY Zenon, <1>0, <1>5, FillOutboundSlotsFills DEF Refill
  <2>2. BackedInv'
    BY Zenon, <1>5, <2>1, ManagerStep DEF Refill, Fills
  <2> QED BY Zenon, <2>1, <2>2 DEF Watched, Fills, InSight, Incoming, Outgoing
<1>6. CASE Rotate
  <2>1. PICK p \in Peers : pm' = Push(pm, "disconnect", p)
    BY Zenon, <1>6 DEF Rotate, Rotatable
  <2>2. pm' \in Manager /\ pm'.peers = pm.peers /\ pm'.backoffs = pm.backoffs
        /\ pm'.queue = Append(pm.queue, <<"disconnect", p>>)
    BY Zenon, <1>0, <2>1, PushFields
  <2>3. <<"disconnect", p>> \in Requests
    BY Zenon DEF Requests
  <2>4. \A kind, q : Waits(pm, kind, q) => Waits(pm', kind, q)
    BY Zenon, <1>0, <2>2, <2>3, AppendWaits
  <2>5. Orderly(pm, pm')
    BY Zenon, <1>0, <2>2, <2>4 DEF Orderly, Listed
  <2>6. BackedInv'
    BY Zenon, <1>6, <2>5, ManagerStep DEF Rotate
  <2> QED BY Zenon, <2>2, <2>6 DEF Watched, InSight, Incoming, Outgoing
<1> QED BY SMTT(30), <1>1, <1>2, <1>3, <1>4, <1>5, <1>6

\* Every step of the network task keeps the invariant, and keeps sight.
LEMMA BackedInvNext == IInv /\ BackedInv /\ [Next]_vars => BackedInv' /\ Watched
<1> SUFFICES ASSUME IInv, BackedInv, [Next]_vars PROVE BackedInv' /\ Watched
  BY Zenon
<1>0. pm \in Manager /\ Listed(pm)
  BY Zenon DEF BackedInv
<1>1. CASE OnStateAction
  <2>1. pm'.peers = pm.peers
    BY Zenon, <1>0, <1>1, TailWaits DEF OnStateAction, Idle
  <2> QED BY Zenon, <1>1, <2>1, OnStateActionBacked DEF Watched, InSight, Incoming, Outgoing
<1>2. ASSUME NEW p \in Peers, PeerCommand(p) PROVE BackedInv' /\ Watched
  <2>1. Edits(pm, pm', p) /\ InSight(pm, pm', p)
    BY Zenon, <1>0, <1>2, PeerCommandEdits
  <2>2. BackedInv'
    BY Zenon, <1>2, <2>1, ManagerStep DEF PeerCommand, Edits
  <2> QED BY Zenon, <2>1, <2>2 DEF Watched, Edits, InSight, Incoming, Outgoing
<1>3. ASSUME NEW p \in Peers, DisconnectPeer(p) PROVE BackedInv' /\ Watched
  <2>1. SessionTypes' /\ UNCHANGED <<pm, dials, active>> /\ closing \subseteq closing'
    BY <1>3, NetworkAssumption
       DEF DisconnectPeer, Disconnect, Stimulus, BackedInv, SessionTypes
  <2>2. Orderly(pm, pm')
    BY Zenon, <1>0, <2>1, OrderlySelf
  <2> QED BY Zenon, <2>1, <2>2, OrderlyStep DEF Watched, InSight, Incoming, Outgoing
<1>4. ASSUME NEW p \in Peers,
             \/ OutgoingConnectionError(p) \/ OutgoingPendingSessionClosed(p)
             \/ SessionClosed(p)
      PROVE  BackedInv' /\ Watched
  BY Zenon, <1>4, EndsBacked DEF Watched
<1>5. CASE UNCHANGED vars
  <2>1. UNCHANGED <<pm, pendingIn, dials, quits, active, closing, stimuli>>
    BY Zenon, <1>5 DEF vars
  <2>2. SessionTypes'
    BY Zenon, <2>1 DEF BackedInv, SessionTypes
  <2>3. Orderly(pm, pm')
    BY Zenon, <1>0, <2>1, OrderlySelf
  <2> QED BY SMTT(30), <2>1, <2>2, <2>3, OrderlyStep DEF Watched, InSight, Incoming, Outgoing
<1> QED BY SMTT(30), <1>1, <1>2, <1>3, <1>4, <1>5, EstablishedBacked, OtherStepsBacked,
           ExpireBacked DEF Next

-----------------------------------------------------------------------------
(* The theorems.                                                            *)

\* The invariant holds throughout.
LEMMA SpecIInv == Spec => []IInv
BY IInvInit, IInvNext, PTL DEF Spec

\* The counters of ConnectionInfo cover the table, and pending incoming
\* sessions are counted exactly, for every set of peers and all limits.
THEOREM NetworkSlotsCovered == Spec => []SlotsCovered
<1>1. IInv => SlotsCovered
  BY Zenon DEF IInv, Sound, SlotsCovered, Count, In, Outgoing, Incoming, Dial
<1> QED BY <1>1, SpecIInv, PTL

\* An entry of the table that says "connected" has a session of that
\* direction behind it.
THEOREM NetworkConnectedHasSession == Spec => []ConnectedHasSession
<1>1. IInv => ConnectedHasSession
  BY Zenon DEF IInv
<1> QED BY <1>1, SpecIInv, PTL

\* No counter of ConnectionInfo for the table's own connections falls below
\* zero: the unsigned subtractions of decr_in, decr_out and decr_pending_out
\* do not underflow.
THEOREM NetworkCountersNatural ==
    Spec => [](pm.num_outbound \in Nat /\ pm.num_inbound \in Nat /\ pm.num_pending_out \in Nat)
<1>1. IInv => pm.num_outbound \in Nat /\ pm.num_inbound \in Nat /\ pm.num_pending_out \in Nat
  <2>1. \A S : Cardinality(In(pm, S)) \in Nat
    BY Zenon, NetworkAssumption, FS_Subset, FS_CardinalityType DEF In
  <2> QED BY <2>1 DEF IInv, Sound, Shape
<1> QED BY <1>1, SpecIInv, PTL

\* Both invariants hold throughout.
LEMMA SpecBackedInv == Spec => [](IInv /\ BackedInv)
<1>1. Init => IInv /\ BackedInv
  BY Zenon, IInvInit, BackedInvInit
<1>2. IInv /\ BackedInv /\ [Next]_vars => (IInv /\ BackedInv)'
  BY Zenon, IInvNext, BackedInvNext
<1> QED BY <1>1, <1>2, PTL DEF Spec

\* What the invariants say about the types and about entries in passing.
LEMMA BackedInvFacts ==
    ASSUME IInv, BackedInv
    PROVE  TypeOK /\ DisconnectingIsTold /\ BackoffIsListed
<1>1. \A S : Cardinality(In(pm, S)) \in Nat
  BY ZenonT(30), NetworkAssumption, FS_Subset, FS_CardinalityType DEF In
<1>2. /\ pm.num_outbound \in Nat /\ pm.num_inbound \in Nat
      /\ pm.num_pending_out \in Nat /\ pm.num_pending_in \in Nat
  BY <1>1 DEF IInv, Sound, Shape, BackedInv, SessionTypes
<1>3. /\ pm.peers \in [Peers -> Entry]
      /\ pm.trusted \subseteq Peers /\ pm.backoffs \subseteq Peers
      /\ pm.banned \in [Peers -> {"no", "until", "forever"}]
      /\ pm.queue \in Seq(Requests)
      /\ pm.net \in {"active", "hibernate", "shutting_down"}
  BY Zenon DEF BackedInv, Manager
<1>4. \A i \in DOMAIN pm.queue : pm.queue[i] \in {"connect", "disconnect"} \X Peers
  BY <1>3 DEF Requests
<1>5. TypeOK
  BY Zenon, <1>2, <1>3, <1>4 DEF TypeOK, BackedInv, SessionTypes
<1> QED BY Zenon, <1>5 DEF BackedInv, BackoffIsListed, Listed

\* For every set of peers and all limits, an entry being disconnected has a
\* session that was told so or is about to be, and an entry backed off is on
\* the list that lifts it (next_action, SessionManager::disconnect, poll).
THEOREM NetworkDisconnectsAreTold ==
    Spec => [](TypeOK /\ DisconnectingIsTold /\ BackoffIsListed)
BY SpecBackedInv, BackedInvFacts, PTL

\* With the default limits of the session manager, which do not bound the
\* pending outgoing sessions, a peer marked as being dialled has a request, a
\* dial or a session that will change the mark: no dial slot is lost.
THEOREM NetworkPassingIsBacked ==
    ASSUME PendingLimit = {}
    PROVE  Spec => []PassingIsBacked
<1>1. IInv /\ BackedInv => PassingIsBacked
  BY Zenon, BackedInvFacts DEF PassingIsBacked, BackedInv
<1> QED BY <1>1, SpecBackedInv, PTL

\* The table forgets a session that goes on only when another attempt to reach
\* the same peer ends: no command, no timer and no other peer's event does it.
THEOREM NetworkLosesSightOnlyOnDial == Spec => LosesSightOnlyOnDial
<1> DEFINE A == \A p \in Peers :
         /\ pm.peers[p].state \in {"in", "out"} /\ active[p] # "none"
         /\ pm'.peers[p].state \notin {"in", "out", "disc_in", "disc_out"}
         /\ active'[p] = active[p]
         => dials'[p] < dials[p]
<1>1. Watched => A
  BY Zenon DEF Watched, InSight, Incoming, Outgoing
<1>2. IInv /\ BackedInv /\ [Next]_vars => [A]_vars
  BY Zenon, <1>1, BackedInvNext
<1>3. [](IInv /\ BackedInv) /\ [][Next]_vars => [][A]_vars
  BY <1>2, PTL
<1>4. LosesSightOnlyOnDial <=> [][A]_vars
  BY Zenon DEF LosesSightOnlyOnDial
<1> QED BY <1>3, <1>4, SpecBackedInv, PTL DEF Spec
=============================================================================
