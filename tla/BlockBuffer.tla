---------------------------- MODULE BlockBuffer ----------------------------
(***************************************************************************)
(* BlockBuffer (crates/engine/tree/src/tree/block_buffer.rs): blocks whose *)
(* parent is missing, kept in four collections that every operation has to *)
(* change together, and evicted in the order in which they came.  The      *)
(* children of a block are taken in some fixed order.                      *)
(***************************************************************************)
EXTENDS BlockTree, Sequences, SequencesExt, MapOfSets

CONSTANT MaxBlocks     \* max_blocks

VARIABLES
  blocks,          \* keys of blocks
  parentToChild,   \* parent_to_child
  earliest,        \* earliest_blocks
  queue,           \* block_queue
  returned         \* what the last remove_block_with_children returned

vars == <<blocks, parentToChild, earliest, queue, returned>>

\* the collections, and the blocks that an operation has taken out of them
Buffer == [blocks |-> blocks, parentToChild |-> parentToChild, earliest |-> earliest,
           queue |-> queue, removed |-> <<>>]

Become(b) ==
  /\ blocks' = b.blocks
  /\ parentToChild' = b.parentToChild
  /\ earliest' = b.earliest
  /\ queue' = b.queue

----------------------------------------------------------------------------
\* variation: leaves the hash in the eviction queue
RemoveBlockKeepsQueue(b, h) ==
  IF h \notin b.blocks THEN b
  ELSE [blocks |-> b.blocks \ {h},
        parentToChild |-> TakeFrom(b.parentToChild, Parent(h), h),
        earliest |-> TakeFrom(b.earliest, number[h], h),
        queue |-> b.queue,
        removed |-> Append(b.removed, h)]

\* remove_block with remove_from_earliest_blocks and remove_from_parent
RemoveBlock(b, h) ==
  IF h \notin b.blocks THEN b
  ELSE [blocks |-> b.blocks \ {h},
        parentToChild |-> TakeFrom(b.parentToChild, Parent(h), h),
        earliest |-> TakeFrom(b.earliest, number[h], h),
        queue |-> SelectSeq(b.queue, LAMBDA x : x # h),
        removed |-> Append(b.removed, h)]

RemoveEach(b, hashes) == FoldLeft(RemoveBlock, b, hashes)

\* remove_children: the stack of parents whose children are still to be removed
RECURSIVE RemoveChildren(_, _)
RemoveChildren(b, stack) ==
  IF stack = <<>> THEN b
  ELSE LET parent == Last(stack)
           children == SetToSeq(EntryOf(b.parentToChild, parent))
           unlisted == [b EXCEPT !.parentToChild = Without(@, parent)]
       IN  RemoveChildren(RemoveEach(unlisted, children), Front(stack) \o children)

\* lowest_ancestor
RECURSIVE LowestAncestor(_)
LowestAncestor(h) == IF Parent(h) \in blocks THEN LowestAncestor(Parent(h)) ELSE h

----------------------------------------------------------------------------
Init ==
  /\ blocks = {} /\ parentToChild = EmptyMap /\ earliest = EmptyMap
  /\ queue = <<>> /\ returned = <<>>

\* insert_block: the oldest block makes room once the limit is reached
InsertBlock(h) ==
  LET added == [Buffer EXCEPT !.blocks = @ \cup {h},
                              !.parentToChild = AddTo(@, Parent(h), h),
                              !.earliest = AddTo(@, number[h], h)]
      evicted == IF Len(queue) >= MaxBlocks /\ queue # <<>>
                   THEN RemoveBlock([added EXCEPT !.queue = Tail(@)], Head(queue))
                   ELSE added
  IN  /\ h \notin blocks
      /\ Become([evicted EXCEPT !.queue = Append(@, h)])
      /\ UNCHANGED returned

\* remove_block_with_children, when `parent` has been connected to the chain
RemoveBlockWithChildren(parent) ==
  LET b == RemoveChildren(RemoveBlock(Buffer, parent), <<parent>>)
  IN  Become(b) /\ returned' = b.removed

\* variation: only discards the blocks themselves
RemoveOldBlocksOnly(n) ==
  LET old == {m \in DOMAIN earliest : m <= n}
      hashes == SetToSeq(UNION {earliest[m] : m \in old})
      b == [Buffer EXCEPT !.earliest = Restrict(@, DOMAIN @ \ old)]
  IN  Become(RemoveEach(b, hashes)) /\ returned' = <<>>

\* remove_old_blocks: blocks up to number n and what hangs on them
RemoveOldBlocks(n) ==
  LET old == {m \in DOMAIN earliest : m <= n}
      hashes == SetToSeq(UNION {earliest[m] : m \in old})
      b == [Buffer EXCEPT !.earliest = Restrict(@, DOMAIN @ \ old)]
  IN  Become(RemoveChildren(RemoveEach(b, hashes), hashes)) /\ returned' = <<>>

Next ==
  \/ \E h \in Block \ {Genesis} : InsertBlock(h)
  \/ \E h \in Block : RemoveBlockWithChildren(h)
  \/ \E n \in Range(number) : RemoveOldBlocks(n)

Spec == Init /\ [][Next]_vars

----------------------------------------------------------------------------
(***************************************************************************)
(* The four collections hold the same blocks: no operation leaves a hash   *)
(* behind in the queue, in the children of a parent or among the blocks of *)
(* a number, and no block is queued twice.  They never hold more than the  *)
(* limit (one block for a limit of zero), counting blocks whose ancestors  *)
(* have been evicted.                                                      *)
(***************************************************************************)
CollectionsAgree ==
  /\ ToSet(queue) = blocks /\ IsInjective(queue)
  /\ earliest = [n \in {number[h] : h \in blocks} |-> {h \in blocks : number[h] = n}]
  /\ parentToChild = [p \in {Parent(h) : h \in blocks} |-> {h \in blocks : Parent(h) = p}]
  /\ Cardinality(blocks) <= GreatestOf(MaxBlocks, 1)

\* in an order in which the blocks can be executed
InOrder(s) == \A i, j \in DOMAIN s : Parent(s[i]) = s[j] => j < i

\* the buffered blocks that hang on block a through buffered blocks
Connected(a) == {h \in blocks : a \in chain[h] /\ ChainAbove(h, number[a]) \subseteq blocks}

(***************************************************************************)
(* A step that connects a block takes out that block and all buffered      *)
(* blocks connected to it, and nothing else, and returns no block before   *)
(* its parent ("the blocks with lower block number in the chain will come  *)
(* first"); discarding old blocks takes out every block up to the number   *)
(* with all that is connected to them.  lowest_ancestor ends at the block  *)
(* whose parent is missing.                                                *)
(***************************************************************************)
RemovesConnected ==
  /\ \A p \in Block : RemoveBlockWithChildren(p) =>
       /\ blocks' = blocks \ Connected(p)
       /\ ToSet(returned') = Connected(p) /\ InOrder(returned')
  /\ \A n \in Range(number) : RemoveOldBlocks(n) =>
       blocks' = blocks \ UNION {Connected(h) : h \in {x \in blocks : number[x] <= n}}
  /\ \A h \in blocks : /\ h \in Connected(LowestAncestor(h))
                       /\ Parent(LowestAncestor(h)) \notin blocks
=============================================================================
