----------------------------- MODULE ExExHandle -----------------------------
(***************************************************************************)
(* One execution extension: what the manager keeps for it (ExExHandle) and *)
(* how it sends, and the stream through which the extension is given its   *)
(* notifications (ExExNotificationsWithHead).                              *)
(***************************************************************************)
EXTENDS ExExNotification, Sequences

\* an extension and its handle when the node is launched: with_head at its own head
Launched(view, astray, local) ==
  [view |-> view, astray |-> astray, head |-> view, local |-> local,
   phase |-> "canonical", next |-> 0, read |-> {}, pending |-> <<>>,
   chan |-> <<>>, events |-> <<>>, finished |-> None, pos |-> 0, blocked |-> FALSE]

\* a variation: a commit that starts at the finished height counts as processed
SkipsEarly(x, n) ==
  n.old = {} /\ x.finished # None /\ number[x.finished] >= number[First(n.new)] - 1

\* ExExHandle::send takes the notification for one that has been processed
Skips(x, n) ==
  n.old = {} /\ x.finished # None /\ number[x.finished] >= number[Tip(n.new)]

Skip(x, n) == [x EXCEPT !.pos = @ + 1, !.astray = @ \/ Tip(n.new) \notin chain[x.view]]

\* a variation: no slot is reserved in the channel
SendUnreserved(x, buf) ==
  IF x.pos >= Len(buf) THEN x
  ELSE IF Skips(x, buf[x.pos + 1]) THEN Skip(x, buf[x.pos + 1])
  ELSE [x EXCEPT !.chan = <<buf[x.pos + 1]>>, !.pos = @ + 1]

\* ExExHandle::send for the next notification of one extension, if there is one
Send(x, buf) ==
  IF x.pos >= Len(buf) THEN x
  ELSE IF Skips(x, buf[x.pos + 1]) THEN Skip(x, buf[x.pos + 1])
  ELSE IF x.chan # <<>> THEN [x EXCEPT !.blocked = TRUE]
  ELSE [x EXCEPT !.chan = <<buf[x.pos + 1]>>, !.pos = @ + 1]

\* check_backfill
CheckBackfill(x) ==
  [x EXCEPT !.phase = IF number[x.head] < number[x.local] THEN "job" ELSE "live",
            !.next = number[x.head] + 1]

\* the handle once the notification in its channel has been taken
Rest(x) == [x EXCEPT !.chan = <<>>, !.blocked = FALSE]

\* a variation: one block more is discarded
CoveredBeyond(x, n) == n.old = {} /\ number[Tip(n.new)] <= number[x.local] + 1

\* during backfill the channel is drained: what backfill covers is discarded
Covered(x, n) == n.old = {} /\ number[Tip(n.new)] <= number[x.local]

\* the regular stream, which skips what the extension was ahead of
Passed(x, n) == n.new # {} /\ number[x.head] >= number[Tip(n.new)]
=============================================================================
