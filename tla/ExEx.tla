-------------------------------- MODULE ExEx --------------------------------
(***************************************************************************)
(* Execution extensions (crates/exex/exex): the task that forwards the     *)
(* engine's notifications, the manager that logs, buffers and sends them,  *)
(* the write-ahead log, and the stream through which an extension that     *)
(* remembers its own head catches up after a launch and then follows.      *)
(*                                                                         *)
(* One poll of the manager is one step, and it is polled only when it has  *)
(* been woken.  A chain of blocks is the set of its blocks.  An extension  *)
(* is modelled by the head it keeps in storage of its own, and by what it  *)
(* reports as finished after each notification.                            *)
(***************************************************************************)
EXTENDS Wal, ExExHandle

CONSTANTS
  ExExes,       \* the extensions
  Capacity,     \* max_capacity of the manager's buffer
  Lag,          \* CANON_STATE_NOTIFICATION_CHANNEL_SIZE
  Reporting,    \* what each extension reports: "tip", "finalized" or "nothing"
  Hardships,    \* what may happen besides, by the names below
  MaxUpdates,   \* bound on the changes of the canonical head
  MaxCrashes    \* bound on the restarts

ASSUME ExExAssumption ==
  /\ ExExes # {} /\ IsFiniteSet(ExExes)
  /\ {Capacity, Lag, MaxUpdates, MaxCrashes} \subseteq Nat /\ Capacity > 0
  /\ None \notin Nat /\ None \notin Block
  /\ None \notin [old : SUBSET Block, new : SUBSET Block]

VARIABLES
  canon,        \* the canonical head
  db,           \* the persisted head
  finalized,    \* the block the consensus client has finalized
  told,         \* the finalized block the node knows of
  news,         \* a finalized header the manager has not seen yet
  broadcast,    \* CanonStateNotifications not forwarded yet
  lagged,       \* some of them were overwritten
  forwarding,   \* the forwarding task runs
  rx,           \* handle_rx: notifications with their source
  buffer,       \* the manager's buffer, from min_id on
  ready,        \* the is_ready watch
  listening,    \* handle_rx has the manager's waker
  wake,         \* the manager has been woken
  height,       \* the FinishedExExHeight watch
  wal,          \* the write-ahead log: files, the block cache, the next file id
  exex,         \* per extension: its handle, its stream and its own head
  failed,       \* extensions whose stream has ended with an error
  updates, crashes

node == <<canon, db, finalized, told>>
manager == <<rx, buffer, ready, listening, height, wal>>
vars == <<canon, db, finalized, told, news, broadcast, lagged, forwarding, rx, buffer, ready, listening,
          wake, height, wal, exex, failed, updates, crashes>>

----------------------------------------------------------------------------
(***************************************************************************)
(* The node.                                                               *)
(***************************************************************************)

\* BlockchainProvider::is_known: canonical blocks in memory and the database
IsKnown(b) == b \in chain[canon] \cup chain[db]

Init ==
  /\ canon = Genesis /\ db = Genesis /\ finalized = Genesis /\ told = Genesis /\ news = None
  /\ broadcast = <<>> /\ lagged = FALSE /\ forwarding = TRUE
  /\ rx = <<>> /\ buffer = <<>> /\ ready = TRUE /\ listening = FALSE /\ wake = TRUE
  /\ height = None /\ wal = EmptyWal
  /\ exex = [e \in ExExes |-> Launched(Genesis, FALSE, Genesis)]
  /\ failed = {} /\ updates = 0 /\ crashes = 0

\* the consensus client never leaves a finalized block
OnFinalized(b) == finalized \in chain[b] \/ b \in chain[finalized]

\* notifications that some extension has not been given yet
Undelivered ==
  Range(broadcast) \cup {r.n : r \in Range(rx)} \cup Range(buffer)
  \cup UNION {Range(exex[e].chan \o exex[e].pending) : e \in ExExes}

(***************************************************************************)
(* What the properties do not cover, each by its name in Hardships:        *)
(*  "return": the chain takes up a block again whose revert some extension *)
(*    has not been given yet;                                              *)
(*  "catching up": persisted blocks are left before an extension has read  *)
(*    the database up to where it was launched;                            *)
(*  "unlogged": persisted blocks are left that the log does not have, as   *)
(*    an extension that reads them from the database finds them;           *)
(*  "lag": the broadcast channel overflows;                                *)
(*  "overtaking": the pipeline sends while the tree's notifications wait;  *)
(*  "unpersisted": the pipeline starts below the canonical head, with      *)
(*    canonical blocks in memory that are not in the database;             *)
(*  "stale disk": a block is finalized while the database is still on a    *)
(*    branch that the canonical chain has left.                            *)
(***************************************************************************)
May(hardship) == hardship \in Hardships

NoReturn(b) == \A m \in Undelivered : m.old \cap chain[b] = {}

\* leaving persisted blocks for b is covered
Shallow(b) ==
  LET left == chain[db] \ chain[b]
  IN  /\ May("unlogged") \/ left \subseteq DOMAIN wal.cache
      /\ May("catching up") \/ left = {} \/ \A e \in ExExes : exex[e].phase = "live"

\* on_canonical_chain_update: the engine commits or reorgs, and tells; a full channel
\* loses its oldest notification but for the one the forwarding task holds, and what comes
\* after a loss is not forwarded
Update(b) ==
  LET fork == number[ForkPoint(canon, b)]
      n == Notification(ChainAbove(canon, fork), ChainAbove(b, fork))
      full == Len(broadcast) > Lag
  IN  /\ updates < MaxUpdates
      /\ b \notin chain[canon]
      /\ OnFinalized(b)
      /\ Shallow(b)
      /\ May("return") \/ NoReturn(b)
      /\ May("lag") \/ ~full
      /\ canon' = b
      /\ updates' = updates + 1
      /\ broadcast' = IF lagged THEN broadcast
                      ELSE IF full THEN <<Head(broadcast)>> ELSE Append(broadcast, n)
      /\ lagged' = (lagged \/ full)
      /\ UNCHANGED <<db, finalized, told, news, forwarding, manager, wake, exex, failed, crashes>>

\* the consensus client finalizes a block, which the node may not have
Finalize(b) ==
  /\ finalized \in chain[b] \ {b}
  /\ finalized' = b
  /\ UNCHANGED <<canon, db, told, news, broadcast, lagged, forwarding, manager, wake, exex, failed,
                 updates, crashes>>

\* update_finalized_block, for a block that is found
UpdateFinalized ==
  /\ told # finalized
  /\ IsKnown(finalized)
  /\ May("stale disk") \/ db \in chain[canon]
  /\ told' = finalized
  /\ news' = finalized
  /\ wake' = TRUE
  /\ UNCHANGED <<canon, db, finalized, broadcast, lagged, forwarding, manager, exex, failed, updates,
                 crashes>>

\* the persistence service saves canonical blocks, or removes those that are not
Persist(b) ==
  /\ db # canon
  /\ IF db \in chain[canon] THEN b \in ChainAbove(canon, number[db]) ELSE b = ForkPoint(canon, db)
  /\ db' = b
  /\ UNCHANGED <<canon, finalized, told, news, broadcast, lagged, forwarding, manager, wake, exex, failed,
                 updates, crashes>>

\* the task "exex manager blockchain tree notifications": it ends when it has lagged
Forward ==
  /\ forwarding
  /\ \/ /\ broadcast # <<>> /\ ready
        /\ rx' = Append(rx, [source |-> "tree", n |-> Head(broadcast)])
        /\ broadcast' = Tail(broadcast)
        /\ wake' = (wake \/ listening)
        /\ listening' = FALSE
        /\ UNCHANGED forwarding
     \/ /\ broadcast = <<>> /\ lagged
        /\ forwarding' = FALSE
        /\ UNCHANGED <<rx, broadcast, wake, listening>>
  /\ UNCHANGED <<node, news, lagged, buffer, ready, height, wal, exex, failed, updates, crashes>>

\* a backfill run of the pipeline, which works on the database and tells the manager, past
\* the forwarding task, and after which the database's tip is the canonical head
PipelineSends(b, n) ==
  /\ updates < MaxUpdates
  /\ updates' = updates + 1
  /\ May("unpersisted") \/ db = canon
  /\ May("overtaking") \/ broadcast = <<>>
  /\ canon' = b /\ db' = b
  /\ rx' = Append(rx, [source |-> "pipeline", n |-> n])
  /\ wake' = (wake \/ listening)
  /\ listening' = FALSE
  /\ UNCHANGED <<finalized, told, news, broadcast, lagged, forwarding, buffer, ready, height, wal,
                 exex, failed, crashes>>

\* ExecutionStage::poll_execute_ready and post_execute_commit
PipelineCommit(b) ==
  /\ ready
  /\ db \in chain[b] \ {b}
  /\ OnFinalized(b)
  /\ May("return") \/ NoReturn(b)
  /\ PipelineSends(b, Notification({}, ChainAbove(b, number[db])))

\* ExecutionStage::post_unwind_commit
PipelineUnwind(b) ==
  /\ b \in chain[db] \ {db}
  /\ chain[db] \cap chain[finalized] \subseteq chain[b]
  /\ Shallow(b)
  /\ PipelineSends(b, Notification(ChainAbove(db, number[b]), {}))

----------------------------------------------------------------------------
(***************************************************************************)
(* The manager.                                                            *)
(***************************************************************************)

\* the events that the extensions have sent
HandleEvents(x) ==
  [e \in ExExes |-> [x[e] EXCEPT !.finished = IF x[e].events = <<>> THEN @ ELSE x[e].events[Len(x[e].events)],
                                 !.events = <<>>]]

\* a variation: the finished heights are not asked for
FinalizedFilesOfHeader(w, x, f) == IF f # None THEN Removable(w, number[f]) ELSE {}

\* finalize_wal: the files to remove, if all extensions are on the canonical chain
FinalizedFiles(w, x, f) ==
  IF f # None /\ \A e \in ExExes : x[e].finished # None /\ IsKnown(x[e].finished)
    THEN Removable(w, Min({number[x[e].finished] : e \in ExExes} \cup {number[f]}))
    ELSE {}

\* the drained notifications, logged unless they come from the pipeline
Log(w, taken) == Commit(w, taken, {i \in DOMAIN taken : taken[i].source = "tree"})

\* notifications that all have been sent are removed
Shift(x, least) == [e \in ExExes |-> [x[e] EXCEPT !.pos = @ - least]]

\* the lowest finished height, once all have reported one
LowestFinished(x) ==
  IF \E e \in ExExes : x[e].finished = None THEN height
  ELSE Min({number[x[e].finished] : e \in ExExes})

\* the end of poll, after x has been sent what buf has for it
Settle(x, buf, least) ==
  /\ exex' = Shift(x, least)
  /\ buffer' = SubSeq(buf, least + 1, Len(buf))
  /\ ready' = (Len(buf) - least < Capacity)
  /\ wake' = (Len(buf) >= Capacity /\ Len(buf) - least < Capacity)
  /\ listening' = (listening \/ Len(buf) < Capacity)
  /\ height' = LowestFinished(x)

\* a variation: what any extension has been sent is removed
SendAllFastest(x, buf) ==
  LET sent == [e \in ExExes |-> Send(x[e], buf)]
  IN  Settle(sent, buf, Max({sent[e].pos : e \in ExExes}))

SendAll(x, buf) ==
  LET sent == [e \in ExExes |-> Send(x[e], buf)]
  IN  Settle(sent, buf, Min({sent[e].pos : e \in ExExes}))

\* how many notifications the buffer has room for
Room == LeastOf(SaturatingSub(Capacity, Len(buffer)), Len(rx))

Drain(x, w, taken) ==
  /\ wal' = Log(w, taken)
  /\ rx' = SubSeq(rx, Len(taken) + 1, Len(rx))
  /\ SendAll(x, buffer \o [i \in DOMAIN taken |-> taken[i].n])

\* ExExManager::poll
Poll ==
  /\ wake
  /\ LET x == HandleEvents(exex)
     IN  Drain(x, RemoveFiles(wal, FinalizedFiles(wal, x, news)), SubSeq(rx, 1, Room))
  /\ news' = None
  /\ UNCHANGED <<node, broadcast, lagged, forwarding, failed, updates, crashes>>

----------------------------------------------------------------------------
(***************************************************************************)
(* ExExNotificationsWithHead::poll_next, step by step.                     *)
(***************************************************************************)

Runs(e) == e \notin failed

StreamStep(e, x) ==
  /\ exex' = [exex EXCEPT ![e] = x]
  /\ UNCHANGED <<node, news, broadcast, lagged, forwarding, manager, updates, crashes>>

\* what the extension e reports as finished when its head is b
Finished(e, b) ==
  CASE Reporting[e] = "tip" -> <<b>>
    [] Reporting[e] = "finalized" -> <<ForkPoint(b, finalized)>>
    [] Reporting[e] = "nothing" -> <<>>

\* x, the extension e, gets n, moves its head, and sends ExExEvent::FinishedHeight for a commit
Got(e, x, n) == [x EXCEPT !.view = After(n),
                          !.events = IF n.new = {} THEN @ ELSE @ \o Finished(e, After(n))]

\* which wakes the manager
Reports(e, n) == n.new # {} /\ Reporting[e] # "nothing"

\* the head is known and not above the node's
HeadIsCanonical(x) == IsKnown(x.head) /\ number[x.head] <= number[x.local]

\* check_canonical: go on to check_backfill, revert what the log has for the head, or fail
CheckCanonical(e) ==
  LET x == exex[e]
      n == CommittedBy(wal, x.head)
  IN  /\ Runs(e) /\ x.phase = "canonical"
      /\ IF ~HeadIsCanonical(x) /\ n # None
           THEN /\ StreamStep(e, [Got(e, x, Inverted(n)) EXCEPT
                                   !.head = Parent(First(n.new)),
                                   !.astray = @ \/ n.old # {}])
                /\ wake' = (wake \/ Reports(e, Inverted(n)))
                /\ UNCHANGED failed
         ELSE IF HeadIsCanonical(x) \/ number[x.head] > number[x.local]
           THEN StreamStep(e, CheckBackfill(x)) /\ UNCHANGED <<failed, wake>>
         ELSE StreamStep(e, x) /\ failed' = failed \cup {e} /\ UNCHANGED wake

\* the backfill job reads the next block of its range from the provider
BackfillReads(e) ==
  LET x == exex[e]
  IN  /\ Runs(e) /\ x.phase = "job" /\ x.next <= number[x.local]
      /\ IF x.next > number[canon]
           THEN failed' = failed \cup {e} /\ StreamStep(e, x)
           ELSE /\ StreamStep(e, [x EXCEPT !.read = @ \cup {BlockAt(canon, x.next)}, !.next = @ + 1])
                /\ UNCHANGED failed
      /\ UNCHANGED wake

\* and returns a batch
BackfillYields(e) ==
  LET x == exex[e]
  IN  /\ Runs(e) /\ x.phase = "job" /\ x.read # {}
      /\ StreamStep(e, [Got(e, x, Notification({}, x.read)) EXCEPT !.read = {}])
      /\ wake' = (wake \/ Reports(e, Notification({}, x.read)))
      /\ UNCHANGED failed

BackfillEnds(e) ==
  LET x == exex[e]
  IN  /\ Runs(e) /\ x.phase = "job" /\ x.read = {} /\ x.next > number[x.local]
      /\ StreamStep(e, [x EXCEPT !.phase = "live"])
      /\ UNCHANGED <<failed, wake>>

\* a notification leaves the channel, which wakes a manager that waits to send
Taken(e, reports) ==
  /\ exex[e].chan # <<>>
  /\ wake' = (wake \/ exex[e].blocked \/ reports)
  /\ UNCHANGED failed

DrainChannel(e) ==
  LET x == exex[e]
      n == Head(x.chan)
  IN  /\ Runs(e) /\ x.phase = "job"
      /\ Taken(e, FALSE)
      /\ StreamStep(e, [Rest(x) EXCEPT !.pending = IF Covered(x, n) THEN @ ELSE Append(@, n)])

DeliverPending(e) ==
  LET x == exex[e]
  IN  /\ Runs(e) /\ x.phase = "live" /\ x.pending # <<>>
      /\ StreamStep(e, [Got(e, x, Head(x.pending)) EXCEPT !.pending = Tail(@)])
      /\ wake' = (wake \/ Reports(e, Head(x.pending)))
      /\ UNCHANGED failed

Deliver(e) ==
  LET x == exex[e]
      n == Head(x.chan)
  IN  /\ Runs(e) /\ x.phase = "live" /\ x.pending = <<>>
      /\ Taken(e, ~Passed(x, n) /\ Reports(e, n))
      /\ StreamStep(e, IF Passed(x, n)
                         THEN [Rest(x) EXCEPT !.astray = @ \/ Tip(n.new) \notin chain[x.view]]
                         ELSE Got(e, Rest(x), n))

----------------------------------------------------------------------------

\* the node is launched again from what is on disk
Restart(w) ==
  /\ crashes < MaxCrashes
  /\ crashes' = crashes + 1
  /\ canon' = db
  /\ told' = Genesis /\ news' = None /\ broadcast' = <<>> /\ lagged' = FALSE /\ forwarding' = TRUE
  /\ rx' = <<>> /\ buffer' = <<>> /\ ready' = TRUE /\ listening' = FALSE /\ wake' = TRUE
  /\ height' = None
  /\ wal' = Reload(w)
  /\ exex' = [e \in ExExes |-> Launched(exex[e].view, exex[e].astray, db)]
  /\ failed' = {}
  /\ UNCHANGED <<db, finalized, updates>>

Crash == Restart(wal)

\* the node crashes while the manager is polled: some of the finalized files have been
\* removed, or all of them and some of the drained notifications logged
CrashInPoll ==
  /\ wake
  /\ LET ids == FinalizedFiles(wal, HandleEvents(exex), news)
     IN  \/ \E some \in SUBSET ids : Restart(RemoveFiles(wal, some))
         \/ \E k \in 1..Room : Restart(Log(RemoveFiles(wal, ids), SubSeq(rx, 1, k)))

ExExStep(e) ==
  \/ CheckCanonical(e)
  \/ BackfillReads(e)
  \/ BackfillYields(e)
  \/ BackfillEnds(e)
  \/ DrainChannel(e)
  \/ DeliverPending(e)
  \/ Deliver(e)

Next ==
  \/ \E b \in Block : Update(b) \/ Finalize(b) \/ Persist(b)
                      \/ PipelineCommit(b) \/ PipelineUnwind(b)
  \/ UpdateFinalized
  \/ Forward
  \/ Poll
  \/ \E e \in ExExes : ExExStep(e)
  \/ Crash
  \/ CrashInPoll

\* the extension has something to do
Busy(e) == LET x == exex[e] IN
  /\ Runs(e)
  /\ x.phase \in {"canonical", "job"} \/ x.pending # <<>> \/ x.chan # <<>>

\* the forwarding task has something to do
Forwards == forwarding /\ IF broadcast = <<>> THEN lagged ELSE ready

Fairness == []<>~wake /\ []<>~Forwards /\ \A e \in ExExes : []<>~Busy(e)

Spec == Init /\ [][Next]_vars /\ Fairness

----------------------------------------------------------------------------

TypeOK ==
  /\ {canon, db, finalized, told} \subseteq Block /\ news \in Block \cup {None}
  /\ height \in Nat \cup {None}
  /\ \A e \in ExExes : exex[e].view \in Block /\ exex[e].finished \in Block \cup {None}

\* The bookkeeping of the manager: its buffer stays within its capacity, the id of the next
\* notification of every extension is within the range of the buffer (or poll would panic),
\* a notification stays buffered only while some extension has not been sent the first, the
\* is_ready watch tells of space and of nothing else, and what waits in handle_rx waits for
\* space or for a poll that is on its way.
ManagerSound ==
  /\ Len(buffer) <= Capacity
  /\ \A e \in ExExes : exex[e].pos \in 0..Len(buffer) /\ Len(exex[e].chan) <= 1
  /\ buffer # <<>> => \E e \in ExExes : exex[e].pos = 0
  /\ ready <=> Len(buffer) < Capacity
  /\ rx # <<>> => wake \/ Len(buffer) = Capacity

\* what the extension is given next
Offered(e) ==
  LET x == exex[e]
      n == CommittedBy(wal, x.head)
  IN  CASE x.phase = "canonical" /\ n # None /\ ~HeadIsCanonical(x) -> {Inverted(n)}
        [] x.phase = "job" /\ x.read # {} -> {Notification({}, x.read)}
        [] x.phase = "live" /\ x.pending # <<>> -> {Head(x.pending)}
        [] x.phase = "live" /\ x.pending = <<>> /\ x.chan # <<>> ->
             {n1 \in {Head(x.chan)} : ~Passed(x, n1)}
        [] OTHER -> {}

\* extensions that have been told of every reorg, of none in reverse, and that no commit was
\* kept from
OnCourse == {e \in ExExes : ~exex[e].astray /\ ~lagged}

\* Each notification an extension is given continues the chain it has: across the reverts of
\* check_canonical, the backfill, the notifications that wait for its end and the live
\* stream, whatever was skipped, discarded or logged on the way, and across restarts.
NotificationsFit == \A e \in OnCourse \ failed : \A n \in Offered(e) : Fits(exex[e].view, n)

\* No extension's stream ends with an error: check_canonical finds the notification of a
\* head that is not canonical in the log, and the backfill finds the blocks of its range.
\* Nor would one if the node were to stop now, or in the middle of what the manager does to
\* the log: the head of each extension is on disk, finalized, or in a file of the log.
WalCovers ==
  /\ failed \cap OnCourse = {}
  /\ \A e \in OnCourse : exex[e].view \in chain[db] \cup chain[finalized] \cup DOMAIN Reload(wal).cache

\* A commit that ExExHandle::send skips because of its number is one that the extension has
\* processed.
SkippedIsProcessed(e) ==
  LET x == HandleEvents(exex)[e]
  IN  x.pos < Len(buffer) /\ Skips(x, buffer[x.pos + 1])
        => Tip(buffer[x.pos + 1].new) \in chain[x.view]

\* The height up to which the node may prune is not above what the extension has.
PruneSafe(e) == height # None => height <= number[exex[e].view]

\* the block that the extension reported last is on its chain, and no revert waits for it
UpToDate(e) ==
  LET x == exex[e]
      reports == Range(x.events) \cup ({x.finished} \ {None})
  IN  /\ reports \subseteq chain[x.view]
      /\ \A n \in Range(x.chan) \cup Range(x.pending) : n.old = {}

\* What the manager concludes from the heights that extensions report, which are numbers,
\* is true of the chain of an extension that still has the block it reported: what it skips
\* and how far it lets the node prune.
HeightsTold ==
  TypeOK /\ \A e \in OnCourse : UpToDate(e) => SkippedIsProcessed(e) /\ PruneSafe(e)

\* The comment in ExExHandle::send, "the ExEx has already processed the notification", of
\* all extensions.
SkippedAlwaysProcessed == \A e \in OnCourse : SkippedIsProcessed(e)

\* A notification that the stream drops because the extension was ahead of it when it was
\* launched leads to a block that the extension has.
DroppedIsKnown ==
  \A e \in ExExes : LET x == exex[e] IN
    x.phase = "live" /\ x.pending = <<>> /\ x.chan # <<>> /\ Passed(x, Head(x.chan))
      => Tip(Head(x.chan).new) \in chain[x.view]

\* the manager has something to send, the extension's channel is empty, and nothing wakes it
Dormant(e) == ~wake /\ exex[e].pos < Len(buffer) /\ exex[e].chan = <<>>

AtHead(e) ==
  \/ exex[e].view = canon
  \/ canon \in chain[exex[e].view] /\ exex[e].view \in chain[finalized]

\* Every extension ends up at the canonical head, or at a finalized block ahead of it: no
\* notification is stuck in a full buffer or an occupied channel.
InSync == <>[](\A e \in OnCourse : AtHead(e))

\* The same, but for notifications that the manager keeps because it is not woken after one
\* that an extension took without a report, or after one that was skipped.
InSyncUnlessDormant == <>[](\A e \in OnCourse : AtHead(e) \/ Dormant(e))
=============================================================================
