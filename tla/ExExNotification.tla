-------------------------- MODULE ExExNotification --------------------------
(***************************************************************************)
(* ExExNotification (crates/exex/types): the blocks that are reverted and  *)
(* those that are committed.  A chain of blocks is the set of its blocks.  *)
(***************************************************************************)
EXTENDS BlockTree

CONSTANT None

Notification(old, new) == [old |-> old, new |-> new]

Tip(blocks) == CHOOSE b \in blocks : \A a \in blocks : number[a] <= number[b]

First(blocks) == CHOOSE b \in blocks : \A a \in blocks : number[b] <= number[a]

\* into_inverted
Inverted(n) == Notification(n.new, n.old)

\* the head after the notification
After(n) == IF n.new # {} THEN Tip(n.new) ELSE Parent(First(n.old))

MaxBlock(n) == number[Tip(n.old \cup n.new)]

\* the notification continues the chain v of an extension: a revert starts from its head
\* and a commit leaves neither a gap nor a block of v out
Fits(v, n) ==
  IF n.old # {} THEN v \in n.old /\ (n.new # {} => Parent(First(n.new)) = Parent(First(n.old)))
  ELSE v \in chain[Tip(n.new)] /\ Parent(First(n.new)) \in chain[v]
=============================================================================
