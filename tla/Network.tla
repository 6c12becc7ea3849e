------------------------------ MODULE Network ------------------------------
(***************************************************************************)
(* The connection bookkeeping of the p2p network: the PeersManager (which   *)
(* peers are known, in which connection state, and how many slots are      *)
(* taken), the SessionManager (pending and active sessions) and the Swarm  *)
(* and NetworkManager that carry the events of one to the other.           *)
(*                                                                         *)
(* All of it runs in one task, so every handler is one atomic step; the    *)
(* races are between the steps: two nodes that dial each other, a command  *)
(* that arrives while a dial is in flight, a session that ends while a     *)
(* second attempt to the same peer is still in its handshake.              *)
(*                                                                         *)
(* Abstractions.  IP addresses are left out: a connection that the IP ban  *)
(* list, the IP filter or the throttle refuses is a connection that does   *)
(* not come.  Reputation is counted in a few units between MinReputation   *)
(* and the default 0.  Time is left out: a ban or a back-off runs out at   *)
(* any moment, a connection may be old enough for rotation at any moment.  *)
(* The session counter of session/counter.rs is the number of sessions it  *)
(* counts.                                                                 *)
(***************************************************************************)
EXTENDS Integers, Sequences, FiniteSets, Functions

CONSTANTS
    Peers,            \* peer ids
    MaxOutbound,      \* ConnectionsConfig::max_outbound
    MaxDials,         \* ConnectionsConfig::max_concurrent_outbound_dials
    MaxInbound,       \* ConnectionsConfig::max_inbound
    MaxBackoff,       \* PeersConfig::max_backoff_count
    PendingLimit,     \* SessionLimits::max_pending_outbound: {} or {limit}
    TrustedOnly,      \* PeersConfig::trusted_nodes_only
    MaxLoss,          \* units of reputation between the default and a ban
    MaxStimuli        \* bound: commands, timers and incoming connections

ASSUME NetworkAssumption ==
    /\ IsFiniteSet(Peers)
    /\ MaxOutbound \in Nat /\ MaxDials \in Nat /\ MaxInbound \in Nat
    /\ MaxBackoff \in Nat /\ PendingLimit \subseteq Nat /\ MaxStimuli \in Nat
    /\ TrustedOnly \in BOOLEAN
    /\ MaxLoss \in Nat \ {0}

VARIABLES
    pm,          \* the PeersManager
    pendingIn,   \* number of pending incoming sessions
    dials,       \* pending outgoing sessions, by peer
    quits,       \* those of them that were told to disconnect
    active,      \* direction of the active session with a peer, or "none"
    closing,     \* peers whose active session was told to disconnect
    stimuli      \* commands, timers and incoming connections so far

sessions == <<pendingIn, dials, quits, active, closing>>
vars == <<pm, pendingIn, dials, quits, active, closing, stimuli>>

-----------------------------------------------------------------------------
(* A peer of the table.                                                     *)

States == {"absent", "idle", "disc_in", "disc_out", "in", "out", "pending_out"}
Kinds == {"basic", "static", "trusted"}

\* A reputation this low is banned; it does not fall further.
MinReputation == -MaxLoss

\* No entry; an entry that is added starts from these values.
Absent == [state |-> "absent", kind |-> "basic", reputation |-> 0,
           remove |-> FALSE, backed_off |-> FALSE, severe |-> 0]

Known(kind) == [Absent EXCEPT !.state = "idle", !.kind = kind]

Tracked(m, p) == m.peers[p].state # "absent"
IsTrusted(e) == e.kind = "trusted"
Favoured(e) == e.kind \in {"trusted", "static"}
IsBanned(e) == e.reputation = MinReputation
IsConnected(s) == s \in {"in", "out", "pending_out"}

\* PeerConnectionState::disconnect: a pending dial is left as it is.
Disconnecting(s) ==
    CASE s = "in"  -> "disc_in"
      [] s = "out" -> "disc_out"
      [] OTHER     -> s

Lowered(r, by) == IF r - by < MinReputation THEN MinReputation ELSE r - by

Push(m, kind, p) == [m EXCEPT !.queue = Append(@, <<kind, p>>)]
Queued(kind, p) == \E i \in 1 .. Len(pm.queue) : pm.queue[i] = <<kind, p>>

SetState(m, p, s) == [m EXCEPT !.peers[p].state = s]
Forget(m, p) == [m EXCEPT !.peers[p] = Absent]

-----------------------------------------------------------------------------
(* ConnectionInfo.                                                          *)

HasInCapacity(m) == m.num_inbound < MaxInbound

DecrState(m, p) ==
    LET s == m.peers[p].state IN
    CASE s \in {"in", "disc_in"}   -> [m EXCEPT !.num_inbound = @ - 1]
      [] s \in {"out", "disc_out"} -> [m EXCEPT !.num_outbound = @ - 1]
      [] s = "pending_out"         -> [m EXCEPT !.num_pending_out = @ - 1]
      [] OTHER                     -> m

DecrPendingIn(m) == [m EXCEPT !.num_pending_in = @ - 1]

-----------------------------------------------------------------------------
(* Choosing whom to dial.                                                   *)

\* tick: the connected peers below the default reputation gain the time
\* since the last tick, none or one unit of it.
Ticked(m, gain) ==
    [m EXCEPT !.peers = [p \in Peers |->
        IF IsConnected(m.peers[p].state) /\ m.peers[p].reputation < 0
        THEN [m.peers[p] EXCEPT !.reputation = @ + gain]
        ELSE m.peers[p]]]

Dialable(m) ==
    {p \in Peers : /\ m.peers[p].state = "idle"
                   /\ ~m.peers[p].backed_off
                   /\ ~IsBanned(m.peers[p])
                   /\ TrustedOnly => IsTrusted(m.peers[p])}

\* best_unconnected returns the first trusted or static peer it meets, and
\* one of highest reputation when there is none.
Rank(m, p) == IF Favoured(m.peers[p]) THEN 1 ELSE m.peers[p].reputation

\* How often the loop of fill_outbound_slots runs.
Rounds(m) ==
    LET room == IF m.num_outbound < MaxOutbound
                THEN MaxDials - m.num_pending_out ELSE 0
        n == Cardinality(Dialable(m))
    IN IF room < 0 THEN 0 ELSE IF room < n THEN room ELSE n

\* The sequences of peers the loop may pick.
Picks(m) ==
    {s \in [1 .. Rounds(m) -> Dialable(m)] :
        /\ \A i, j \in DOMAIN s :
              i < j => s[i] # s[j] /\ Rank(m, s[i]) >= Rank(m, s[j])
        /\ \A p \in Dialable(m) : \A i \in DOMAIN s :
              (\A j \in DOMAIN s : s[j] # p) => Rank(m, s[i]) >= Rank(m, p)}

Dialled(m, s) ==
    [m EXCEPT
        !.peers = [p \in Peers |->
            IF \E i \in DOMAIN s : s[i] = p
            THEN [m.peers[p] EXCEPT !.state = "pending_out"] ELSE m.peers[p]],
        !.num_pending_out = @ + Len(s),
        !.queue = @ \o [i \in 1 .. Len(s) |-> <<"connect", s[i]>>]]

FillOutboundSlots(m) ==
    UNION {LET t == Ticked(m, gain) IN
           IF t.net # "active" THEN {t} ELSE {Dialled(t, s) : s \in Picks(t)}
           : gain \in {0, 1}}

-----------------------------------------------------------------------------
(* The hooks of the PeersManager.  Each takes the manager to the set of     *)
(* managers it may leave.                                                   *)

BanPeer(m, p) == [m EXCEPT !.banned[p] = "until"]

\* on_incoming_pending_session: whether a TCP connection is let in.
AcceptsIncoming(m) ==
    IF HasInCapacity(m)
    THEN m.num_pending_in < MaxInbound
    ELSE /\ m.trusted # {}
         /\ Cardinality({p \in Peers : IsTrusted(m.peers[p])
                                       /\ m.peers[p].state = "idle"})
                <= Cardinality(m.trusted)
         /\ \/ m.num_pending_in < Cardinality(m.trusted)
            \/ m.num_pending_in < MaxInbound

\* Variation: the slot of the dial that lost the race is kept.
EnterIncomingKeepsDial(m, p) ==
    LET e == IF Tracked(m, p) THEN m.peers[p] ELSE [Absent EXCEPT !.remove = TRUE]
        o == [m EXCEPT !.peers[p] = [e EXCEPT !.state = "in"],
                       !.num_inbound = @ + 1]
    IN IF p \in m.trusted \/ IsTrusted(e) \/ HasInCapacity(m)
       THEN o ELSE Push(o, "disconnect", p)

EnterIncoming(m, p) ==
    LET n == IF m.peers[p].state = "pending_out" THEN DecrState(m, p) ELSE m
        e == IF Tracked(m, p) THEN m.peers[p] ELSE [Absent EXCEPT !.remove = TRUE]
        o == [n EXCEPT !.peers[p] = [e EXCEPT !.state = "in"],
                       !.num_inbound = @ + 1]
    IN IF p \in m.trusted \/ IsTrusted(e) \/ HasInCapacity(m)
       THEN o ELSE Push(o, "disconnect", p)

OnIncomingSessionEstablished(m, p) ==
    LET n == DecrPendingIn(m) IN
    IF n.banned[p] # "no" \/ (TrustedOnly /\ p \notin n.trusted)
    THEN {Push(n, "disconnect", p)}
    ELSE {LET t == Ticked(n, gain) IN
          IF Tracked(t, p) /\ IsBanned(t.peers[p])
          THEN Push(t, "disconnect", p) ELSE EnterIncoming(t, p)
          : gain \in {0, 1}}

OnActiveOutgoingEstablished(m, p) ==
    IF ~Tracked(m, p) THEN m
    ELSE SetState([DecrState(m, p) EXCEPT !.num_outbound = @ + 1], p, "out")

OnOutgoingPendingSessionGracefullyClosed(m, p) ==
    IF ~Tracked(m, p) THEN m ELSE SetState(DecrState(m, p), p, "idle")

\* Variation: a peer that is being dialled is left alone.
OnActiveSessionGracefullyClosedSkipsDial(m, p) ==
    LET e == m.peers[p]
        n == DecrState(m, p)
    IN IF ~Tracked(m, p) \/ e.state = "pending_out" THEN {m}
       ELSE FillOutboundSlots(
              IF e.remove /\ ~IsTrusted(e) THEN Forget(n, p)
              ELSE [n EXCEPT !.peers[p] = [e EXCEPT !.state = "idle", !.severe = 0,
                                                    !.backed_off = TRUE],
                             !.backoffs = @ \cup {p}])

OnActiveSessionGracefullyClosed(m, p) ==
    LET e == m.peers[p]
        n == DecrState(m, p)
    IN IF ~Tracked(m, p) THEN {m}
       ELSE FillOutboundSlots(
              IF e.remove /\ ~IsTrusted(e) THEN Forget(n, p)
              ELSE [n EXCEPT !.peers[p] = [e EXCEPT !.state = "idle", !.severe = 0,
                                                    !.backed_off = TRUE],
                             !.backoffs = @ \cup {p}])

\* Variation: the state of a trusted peer is not reset.
FailFatalKeepsTrusted(m, p) ==
    LET n == DecrState(m, p) IN
    BanPeer(IF ~Tracked(m, p) THEN m
            ELSE IF IsTrusted(m.peers[p]) THEN n
            ELSE Forget(n, p), p)

\* The classes of errors SessionError tells apart: fatal, a back-off that is
\* or is not severe, and an error that costs reputation instead.
FailFatal(m, p) ==
    LET n == DecrState(m, p) IN
    BanPeer(IF ~Tracked(m, p) THEN m
            ELSE IF IsTrusted(m.peers[p]) THEN SetState(n, p, "idle")
            ELSE Forget(n, p), p)

FailSoft(m, p, err) ==
    LET e == m.peers[p]
        severe == IF err = "severe" /\ ~Favoured(e) THEN e.severe + 1 ELSE e.severe
        n == [DecrState(m, p) EXCEPT !.peers[p] =
                 [e EXCEPT !.state = "idle", !.severe = severe,
                           !.reputation = IF err = "none" THEN Lowered(@, 1) ELSE @]]
    IN CASE ~Tracked(m, p) -> m
         [] Tracked(m, p) /\ severe > MaxBackoff /\ ~Favoured(e) -> Forget(n, p)
         [] OTHER -> IF err = "none" THEN n
                     ELSE [n EXCEPT !.peers[p].backed_off = TRUE,
                                    !.backoffs = @ \cup {p}]

OnConnectionFailure(m, p, err) ==
    FillOutboundSlots(IF err = "fatal" THEN FailFatal(m, p) ELSE FailSoft(m, p, err))

\* A failure to set up the TCP connection is ignored when the peer has
\* connected to us in the meantime.
OnOutgoingConnectionFailure(m, p, err) ==
    IF m.peers[p].state = "in" THEN {m} ELSE OnConnectionFailure(m, p, err)

-----------------------------------------------------------------------------
(* Commands of the node's operator, of discovery and of other tasks.        *)

Trust(m, p, kind) == IF kind = "trusted" THEN [m EXCEPT !.trusted = @ \cup {p}] ELSE m

\* kind is "any" for a discovered peer.
AddPeerKind(m, p, kind) ==
    LET e == m.peers[p]
        k == IF kind = "any" THEN e.kind ELSE kind
    IN IF m.banned[p] # "no" THEN m
       ELSE Trust([m EXCEPT !.peers[p] =
              IF Tracked(m, p)
              THEN [e EXCEPT !.kind = k, !.remove = @ /\ e.state # "in"]
              ELSE Known(k)], p, kind)

AddAndConnectKind(m, p, kind) ==
    LET n == Push([m EXCEPT !.num_pending_out = @ + 1], "connect", p)
        e == [Known(kind) EXCEPT !.state = "pending_out"]
    IN IF m.banned[p] # "no" THEN m
       ELSE Trust(CASE ~Tracked(m, p) -> [n EXCEPT !.peers[p] = e]
                    [] m.peers[p].state = "idle" ->
                         [n EXCEPT !.peers[p].kind = kind, !.peers[p].state = "pending_out"]
                    [] OTHER -> [m EXCEPT !.peers[p].kind = kind], p, kind)

\* Variation: a connected peer is removed at once.
RemovePeerAtOnce(m, p) ==
    LET e == m.peers[p] IN
    IF ~Tracked(m, p) \/ IsTrusted(e) THEN m
    ELSE IF IsConnected(e.state)
    THEN Push([m EXCEPT !.peers[p] = Absent], "disconnect", p)
    ELSE [m EXCEPT !.peers[p] = Absent]

RemovePeer(m, p) ==
    LET e == m.peers[p] IN
    IF ~Tracked(m, p) \/ IsTrusted(e) THEN m
    ELSE IF IsConnected(e.state)
    THEN Push([m EXCEPT !.peers[p] = [e EXCEPT !.remove = TRUE,
                                               !.state = Disconnecting(@)]],
              "disconnect", p)
    ELSE [m EXCEPT !.peers[p] = Absent]

AddTrustedPeerId(m, p) ==
    LET n == Trust(m, p, "trusted") IN
    IF Tracked(m, p) THEN [n EXCEPT !.peers[p].kind = "trusted"] ELSE n

RemovePeerFromTrustedSet(m, p) ==
    IF Tracked(m, p) /\ ~IsTrusted(m.peers[p]) THEN m
    ELSE [m EXCEPT !.peers[p].kind = "basic", !.trusted = @ \ {p}]

\* The address of a trusted node was resolved.
OnResolvedPeer(m, p) ==
    IF p \notin m.trusted \/ Tracked(m, p) THEN m ELSE AddPeerKind(m, p, "trusted")

BanPeerByAdmin(m, p) ==
    IF p \in m.trusted \/ IsTrusted(m.peers[p]) THEN m
    ELSE [RemovePeer(m, p) EXCEPT !.banned[p] = "forever"]

UnbanPeerByAdmin(m, p) ==
    [m EXCEPT !.banned[p] = "no",
              !.peers[p].reputation = IF IsBanned(m.peers[p]) THEN 0 ELSE @]

\* The cost is capped for trusted and static peers.
ApplyReputationChange(m, p, cost) ==
    LET e == m.peers[p]
        r == Lowered(e.reputation, IF Favoured(e) /\ cost > 1 THEN 1 ELSE cost)
        n == [m EXCEPT !.peers[p].reputation = r]
    IN CASE ~Tracked(m, p) -> m
         [] Tracked(m, p) /\ IsConnected(e.state) /\ r = MinReputation ->
              BanPeer(Push(SetState(n, p, Disconnecting(e.state)), "disconnect", p), p)
         [] Tracked(m, p) /\ ~IsConnected(e.state) /\ r = MinReputation /\ ~IsBanned(e) ->
              BanPeer(n, p)
         [] OTHER -> n

ResetReputation(m, p) ==
    IF Tracked(m, p) THEN [m EXCEPT !.peers[p].reputation = 0] ELSE m

\* Peers try_rotate_peer may disconnect to open a slot.
Rotatable(m) ==
    {p \in Peers :
        /\ ~Favoured(m.peers[p]) /\ p \notin m.trusted
        /\ \/ m.peers[p].state = "out" /\ m.num_outbound >= MaxOutbound
           \/ m.peers[p].state = "in" /\ m.num_inbound >= MaxInbound}

-----------------------------------------------------------------------------
(* The steps of the network task.  The swarm handles everything the         *)
(* PeersManager has queued before it looks at a session or at the listener. *)

Init ==
    /\ \E kind \in [Peers -> {"absent"} \cup Kinds] :
          pm = [peers |-> [p \in Peers |-> IF kind[p] = "absent" THEN Absent
                                           ELSE Known(kind[p])],
                num_outbound |-> 0, num_pending_out |-> 0,
                num_inbound |-> 0, num_pending_in |-> 0,
                trusted |-> {p \in Peers : kind[p] = "trusted"},
                banned |-> [p \in Peers |-> "no"], backoffs |-> {},
                queue |-> <<>>, net |-> "active"]
    /\ pendingIn = 0
    /\ dials = [p \in Peers |-> 0] /\ quits = [p \in Peers |-> 0]
    /\ active = [p \in Peers |-> "none"]
    /\ closing = {}
    /\ stimuli = 0

Idle == pm.queue = <<>>

Stimulus == stimuli < MaxStimuli /\ stimuli' = stimuli + 1

\* SessionCounter::pending_outbound.
Dialling == SumFunction(dials)

\* dial_outbound: no session is started at the limit, and nobody is told.
DialOutbound(p) ==
    /\ dials' = IF \A limit \in PendingLimit : Dialling < limit
                THEN [dials EXCEPT ![p] = @ + 1] ELSE dials
    /\ UNCHANGED closing

\* Variation: only sessions we opened are told.
DisconnectOutgoingOnly(p) ==
    /\ closing' = IF active[p] = "out" THEN closing \cup {p} ELSE closing
    /\ UNCHANGED dials

\* disconnect: only an active session is told.
Disconnect(p) ==
    /\ closing' = IF active[p] = "none" THEN closing ELSE closing \cup {p}
    /\ UNCHANGED dials

OnStateAction ==
    /\ ~Idle
    /\ pm' = [pm EXCEPT !.queue = Tail(@)]
    /\ LET p == Head(pm.queue)[2] IN
       IF Head(pm.queue)[1] = "connect" THEN DialOutbound(p) ELSE Disconnect(p)
    /\ UNCHANGED <<pendingIn, quits, active, stimuli>>

\* A TCP connection is accepted.
OnConnection ==
    /\ Stimulus /\ Idle
    /\ pm.net # "shutting_down" /\ AcceptsIncoming(pm)
    /\ pm' = [pm EXCEPT !.num_pending_in = @ + 1]
    /\ pendingIn' = pendingIn + 1
    /\ UNCHANGED <<dials, quits, active, closing>>

\* A handshake of an incoming session reveals who it is.
IncomingEstablished(p) ==
    /\ Idle /\ pendingIn > 0
    /\ pendingIn' = pendingIn - 1
    /\ \/ /\ active[p] # "none"
          /\ pm' = DecrPendingIn(pm)
          /\ UNCHANGED active
       \/ /\ active[p] = "none"
          /\ active' = [active EXCEPT ![p] = "in"]
          /\ pm' \in OnIncomingSessionEstablished(pm, p)
    /\ UNCHANGED <<dials, quits, closing, stimuli>>

IncomingPendingSessionClosed ==
    /\ Idle /\ pendingIn > 0
    /\ pendingIn' = pendingIn - 1
    /\ pm' = DecrPendingIn(pm)
    /\ UNCHANGED <<dials, quits, active, closing, stimuli>>

\* A dial of p ends; if some of them were told to quit it may be one of those.
DialEnds(p) ==
    /\ Idle /\ dials[p] > 0
    /\ dials' = [dials EXCEPT ![p] = @ - 1]
    /\ \E n \in {quits[p] - 1, quits[p]} :
          n >= 0 /\ n < dials[p] /\ quits' = [quits EXCEPT ![p] = n]
    /\ UNCHANGED <<pendingIn, closing, stimuli>>

OutgoingEstablished(p) ==
    /\ DialEnds(p)
    /\ \/ active[p] # "none" /\ UNCHANGED <<pm, active>>
       \/ /\ active[p] = "none"
          /\ active' = [active EXCEPT ![p] = "out"]
          /\ pm' = OnActiveOutgoingEstablished(pm, p)

OutgoingConnectionError(p) ==
    /\ DialEnds(p) /\ UNCHANGED active
    /\ \E err \in {"low", "severe"} : pm' \in OnOutgoingConnectionFailure(pm, p, err)

OutgoingPendingSessionClosed(p) ==
    /\ DialEnds(p) /\ UNCHANGED active
    /\ \/ \E err \in {"fatal", "low", "severe", "none"} :
             pm' \in OnConnectionFailure(pm, p, err)
       \/ /\ quits[p] > 0 /\ quits'[p] < quits[p]
          /\ pm' = OnOutgoingPendingSessionGracefullyClosed(pm, p)

SessionClosed(p) ==
    /\ Idle /\ active[p] # "none"
    /\ active' = [active EXCEPT ![p] = "none"]
    /\ closing' = closing \ {p}
    /\ \/ pm' \in OnActiveSessionGracefullyClosed(pm, p)
       \/ \E err \in {"fatal", "low", "severe", "none"} :
             pm' \in OnConnectionFailure(pm, p, err)
    /\ UNCHANGED <<pendingIn, dials, quits, stimuli>>

\* Messages of the NetworkHandle, of the PeersHandle and of discovery.
PeerCommand(p) ==
    /\ Stimulus
    /\ \/ \E kind \in Kinds :
             pm.net # "shutting_down" /\ pm' = AddPeerKind(pm, p, kind)
       \/ pm' = AddPeerKind(pm, p, "any")
       \/ \E kind \in Kinds : pm' = AddAndConnectKind(pm, p, kind)
       \/ pm' = RemovePeer(pm, p)
       \/ pm' = AddTrustedPeerId(pm, p)
       \/ pm' = RemovePeerFromTrustedSet(pm, p)
       \/ pm.net # "shutting_down" /\ pm' = Trust(pm, p, "trusted")
       \/ pm' = OnResolvedPeer(pm, p)
       \/ pm' = BanPeerByAdmin(pm, p)
       \/ pm' = UnbanPeerByAdmin(pm, p)
       \/ \E cost \in {1, MaxLoss} : pm' = ApplyReputationChange(pm, p, cost)
       \/ pm' = ResetReputation(pm, p)
    /\ UNCHANGED sessions

DisconnectPeer(p) ==
    /\ Stimulus /\ Disconnect(p)
    /\ UNCHANGED <<pm, pendingIn, quits, active>>

SetNetworkState ==
    /\ Stimulus
    /\ \E state \in {"active", "hibernate"} : pm' = [pm EXCEPT !.net = state]
    /\ UNCHANGED sessions

PerformNetworkShutdown ==
    /\ Stimulus
    /\ pm' = [pm EXCEPT !.net = "shutting_down"]
    /\ closing' = {p \in Peers : active[p] # "none"}
    /\ quits' = dials
    /\ UNCHANGED <<pendingIn, dials, active>>

\* The intervals of PeersManager::poll, served when nothing is queued.
Expire(p) ==
    /\ Stimulus /\ Idle
    /\ \/ /\ pm.banned[p] = "until"
          /\ pm' = [pm EXCEPT !.banned[p] = "no", !.peers[p].reputation = 0]
       \/ /\ p \in pm.backoffs
          /\ pm' = [pm EXCEPT !.backoffs = @ \ {p}, !.peers[p].backed_off = FALSE]
    /\ UNCHANGED sessions

Refill ==
    /\ Stimulus /\ Idle
    /\ pm' \in FillOutboundSlots(pm)
    /\ UNCHANGED sessions

Rotate ==
    /\ Stimulus /\ Idle
    /\ \E p \in Rotatable(pm) : pm' = Push(pm, "disconnect", p)
    /\ UNCHANGED sessions

Next ==
    \/ OnStateAction \/ OnConnection \/ IncomingPendingSessionClosed
    \/ SetNetworkState \/ PerformNetworkShutdown \/ Refill \/ Rotate
    \/ \E p \in Peers :
         \/ IncomingEstablished(p) \/ OutgoingEstablished(p)
         \/ OutgoingConnectionError(p) \/ OutgoingPendingSessionClosed(p)
         \/ SessionClosed(p) \/ PeerCommand(p) \/ DisconnectPeer(p) \/ Expire(p)

Spec == Init /\ [][Next]_vars

\* The task keeps polling, so what is queued is handled; and a session that
\* was told to disconnect ends, which it does as soon as the socket has taken
\* the last message or has failed.
Fairness == []<>Idle /\ \A p \in Peers : []<>(p \notin closing)

FairSpec == Spec /\ Fairness

-----------------------------------------------------------------------------
(* Properties.                                                              *)

Count(S) == Cardinality({p \in Peers : pm.peers[p].state \in S})
Doomed(p) == p \in closing \/ Queued("disconnect", p)

Entry == [state : States, kind : Kinds, reputation : MinReputation .. 0,
          remove : BOOLEAN, backed_off : BOOLEAN, severe : 0 .. MaxBackoff]

\* The types of the manager's and the sessions' state; with an unsigned slot
\* counter in place of a negative one, no decrement of ConnectionInfo
\* (decr_in, decr_out, decr_pending_in, decr_pending_out) ever underflows.
TypeOK ==
    /\ pm.peers \in [Peers -> Entry]
    /\ pm.num_outbound \in Nat /\ pm.num_pending_out \in Nat
    /\ pm.num_inbound \in Nat /\ pm.num_pending_in \in Nat
    /\ pm.trusted \subseteq Peers /\ pm.backoffs \subseteq Peers
    /\ pm.banned \in [Peers -> {"no", "until", "forever"}]
    /\ \A i \in DOMAIN pm.queue : pm.queue[i] \in {"connect", "disconnect"} \X Peers
    /\ pm.net \in {"active", "hibernate", "shutting_down"}
    /\ pendingIn \in Nat /\ dials \in [Peers -> Nat] /\ quits \in [Peers -> Nat]
    /\ active \in [Peers -> {"none", "in", "out"}]
    /\ closing \subseteq Peers
    /\ stimuli \in 0 .. MaxStimuli

\* The slot counters never fall below what the table holds: every entry in a
\* connected state is paid for, so that leaving the state (decr_state) can be
\* charged, and every pending incoming session has been counted exactly once,
\* whichever of its six ends it meets.
SlotsCovered ==
    /\ pm.num_outbound >= Count({"out", "disc_out"})
    /\ pm.num_inbound >= Count({"in", "disc_in"})
    /\ pm.num_pending_out = Count({"pending_out"})
    /\ pm.num_pending_in = pendingIn

\* An entry that says "connected" has a session of that direction behind it;
\* on_incoming_session_established relies on it when it overwrites the state
\* of an entry without giving its slot back.
ConnectedHasSession ==
    \A p \in Peers :
        /\ pm.peers[p].state \in {"in", "disc_in"} => active[p] = "in"
        /\ pm.peers[p].state \in {"out", "disc_out"} => active[p] = "out"

\* An entry being disconnected has a session that was told so, or is about to
\* be: the disconnect queued by remove_peer or by a ban always finds the
\* session it was meant for.
DisconnectingIsTold ==
    \A p \in Peers : pm.peers[p].state \in {"disc_in", "disc_out"} => Doomed(p)

\* A peer marked as being dialled has something that will end the dial: the
\* queued request, a pending session, or an active session whose end resets
\* the state.  Without one the peer would never be dialled again and its
\* dial slot never freed.  This is a claim about the default session limits,
\* PendingLimit = {}: a limit below MaxDials drops requests silently.
DialIsBacked ==
    \A p \in Peers : pm.peers[p].state = "pending_out" =>
        Queued("connect", p) \/ dials[p] > 0 \/ active[p] # "none"

\* A backed-off peer is on the list whose expiry lifts the back-off, however
\* often it was removed from the table and added again.
BackoffIsListed == \A p \in Peers : pm.peers[p].backed_off => p \in pm.backoffs

\* Every passing state of an entry has something that ends it: a disconnect, a
\* dial and a back-off each wait for an event that is sure to be delivered to
\* the entry (next_action, SessionManager, poll).
PassingIsBacked == TypeOK /\ DisconnectingIsTold /\ DialIsBacked /\ BackoffIsListed

\* The table loses sight of a session that goes on only in a step that ends
\* another attempt to reach the same peer: no command, timer or other peer's
\* event makes it forget a connection it is not closing.
LosesSightOnlyOnDial ==
    [][\A p \in Peers :
         /\ pm.peers[p].state \in {"in", "out"} /\ active[p] # "none"
         /\ pm'.peers[p].state \notin {"in", "out", "disc_in", "disc_out"}
         /\ active'[p] = active[p]
         => dials'[p] < dials[p]]_vars

\* A peer that remove_peer or a ban set out to disconnect does not stay in
\* that state: its session ends and the entry is idle or gone.
DisconnectingEnds ==
    \A p \in Peers : []<>(pm.peers[p].state \notin {"disc_in", "disc_out"})

\* A slot that ConnectionInfo counts as occupied by an active connection is
\* occupied by one.
SlotsOccupied ==
    /\ pm.num_outbound <= Cardinality({p \in Peers : active[p] = "out"})
    /\ pm.num_inbound <= Cardinality({p \in Peers : active[p] = "in"})
=============================================================================
