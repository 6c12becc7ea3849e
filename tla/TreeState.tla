----------------------------- MODULE TreeState -----------------------------
(***************************************************************************)
(* TreeState (crates/engine/tree/src/tree/state.rs) with the indexes it    *)
(* keeps: executed blocks by hash, by number and by parent, and the        *)
(* overlays of the same blocks.  EnginePersistence sees only the set of    *)
(* blocks and describes remove_until by a closed form; here the walks run  *)
(* step by step over the indexes, and are compared with that form.         *)
(***************************************************************************)
EXTENDS BlockTree, Sequences, MapOfSets

CONSTANT None

VARIABLES
  byHash,          \* keys of blocks_by_hash
  byNumber,        \* blocks_by_number
  parentToChild,   \* parent_to_child
  head,            \* current_canonical_head
  overlays,        \* blocks the overlay manager holds
  anchor           \* the database block below the tree: its state/trie frontier

vars == <<byHash, byNumber, parentToChild, head, overlays, anchor>>

Indexes == [byHash |-> byHash, byNumber |-> byNumber,
            parentToChild |-> parentToChild, removed |-> {}]

----------------------------------------------------------------------------
\* variation: leaves the block among its parent's children
RemoveByHashKeepsParent(s, h) ==
  IF h \notin s.byHash THEN s
  ELSE [byHash |-> s.byHash \ {h},
        byNumber |-> TakeFrom(s.byNumber, number[h], h),
        parentToChild |-> Without(s.parentToChild, h),
        removed |-> s.removed \cup {h}]

\* remove_by_hash, for a caller that records the hash it removed
RemoveByHash(s, h) ==
  IF h \notin s.byHash THEN s
  ELSE [byHash |-> s.byHash \ {h},
        byNumber |-> TakeFrom(s.byNumber, number[h], h),
        parentToChild |-> Without(TakeFrom(s.parentToChild, Parent(h), h), h),
        removed |-> s.removed \cup {h}]

\* is_canonical: walk from the head through blocks that are in the tree
RECURSIVE WalkMeets(_, _)
WalkMeets(b, target) ==
  \/ b = target
  \/ b \in byHash /\ WalkMeets(Parent(b), target)

\* the walk of remove_canonical_until from block b
RECURSIVE RemoveWalk(_, _, _)
RemoveWalk(s, b, upper) ==
  IF b \notin s.byHash THEN s
  ELSE RemoveWalk(IF number[b] <= upper THEN RemoveByHash(s, b) ELSE s, Parent(b), upper)

RemoveCanonicalUntil(s, upper, persisted) ==
  IF WalkMeets(head, persisted) THEN RemoveWalk(s, head, upper) ELSE s

RECURSIVE RemoveAll(_, _)
RemoveAll(s, hashes) ==
  IF hashes = {} THEN s
  ELSE LET h == CHOOSE x \in hashes : TRUE
       IN  RemoveAll(RemoveByHash(s, h), hashes \ {h})

\* the queue of blocks to remove, each adding its children when it is removed
RECURSIVE RemoveSubtrees(_, _)
RemoveSubtrees(s, queue) ==
  IF queue = {} THEN s
  ELSE LET h == CHOOSE x \in queue : TRUE
           children == IF h \in s.byHash THEN EntryOf(s.parentToChild, h) ELSE {}
       IN  RemoveSubtrees(RemoveByHash(s, h), (queue \ {h}) \cup children)

\* variation: takes the children from the index after it has been cleared
PruneFinalizedNoChildren(s, f) ==
  LET below == UNION {s.byNumber[n] : n \in {m \in DOMAIN s.byNumber : m < number[f]}}
      low == RemoveAll(s, below)
      at == EntryOf(low.byNumber, number[f])
      kept == IF f \in at THEN AddTo(Without(low.byNumber, number[f]), number[f], f)
              ELSE Without(low.byNumber, number[f])
  IN  RemoveAll([low EXCEPT !.byNumber = kept], at \ {f})

\* prune_finalized_sidechains
PruneFinalizedSidechains(s, f) ==
  LET below == UNION {s.byNumber[n] : n \in {m \in DOMAIN s.byNumber : m < number[f]}}
      low == RemoveAll(s, below)
      at == EntryOf(low.byNumber, number[f])
      kept == IF f \in at THEN AddTo(Without(low.byNumber, number[f]), number[f], f)
              ELSE Without(low.byNumber, number[f])
  IN  RemoveSubtrees([low EXCEPT !.byNumber = kept], at \ {f})

\* remove_until; the finalized block f is None or capped by the upper bound t
RemoveUntil(t, persisted, f) ==
  LET s == RemoveCanonicalUntil(Indexes, number[t], persisted)
  IN  IF f = None THEN s
      ELSE PruneFinalizedSidechains(s, IF number[t] < number[f] THEN t ELSE f)

----------------------------------------------------------------------------
Init ==
  /\ byHash = {} /\ byNumber = EmptyMap /\ parentToChild = EmptyMap
  /\ head = Genesis /\ overlays = {} /\ anchor = Genesis

\* insert_executed, for a block whose parent is in the tree or in the database
InsertExecuted(b) ==
  /\ b # Genesis
  /\ Parent(b) \in byHash \cup chain[anchor]
  /\ b \notin byHash
  /\ byHash' = byHash \cup {b}
  /\ byNumber' = AddTo(byNumber, number[b], b)
  /\ parentToChild' = AddTo(parentToChild, Parent(b), b)
  /\ overlays' = overlays \cup {b}
  /\ UNCHANGED <<head, anchor>>

SetCanonicalHead(h) ==
  /\ h \in byHash \cup {anchor}
  /\ head' = h
  /\ UNCHANGED <<byHash, byNumber, parentToChild, overlays, anchor>>

\* remove_until once the database is the chain of p, with state up to t
Evict(p, t, f) ==
  LET s == RemoveUntil(t, p, f)
  IN  /\ p \in chain[head] /\ t \in chain[p] /\ anchor \in chain[t]
      /\ byHash' = s.byHash
      /\ byNumber' = s.byNumber
      /\ parentToChild' = s.parentToChild
      /\ overlays' = overlays \ s.removed
      /\ anchor' = t
      /\ UNCHANGED head

\* reset, after a backfill sync has moved the database to b
Reset(b) ==
  /\ overlays' = overlays \ byHash
  /\ byHash' = {} /\ byNumber' = EmptyMap /\ parentToChild' = EmptyMap
  /\ head' = b /\ anchor' = b

Next ==
  \/ \E b \in Block : InsertExecuted(b) \/ SetCanonicalHead(b) \/ Reset(b)
  \/ \E p, t \in Block, f \in Block \cup {None} : Evict(p, t, f)

Spec == Init /\ [][Next]_vars

----------------------------------------------------------------------------
(***************************************************************************)
(* The indexes stay within the tree: blocks_by_number holds exactly the    *)
(* blocks of blocks_by_hash, parent_to_child lists only blocks that are    *)
(* still there, and neither keeps an empty entry after any eviction.  The  *)
(* overlay manager holds exactly the same blocks, because remove_until and *)
(* reset hand it every hash they removed.                                  *)
(***************************************************************************)
IndexesAgree ==
  /\ byNumber = [n \in {number[b] : b \in byHash} |-> {b \in byHash : number[b] = n}]
  /\ \A p \in DOMAIN parentToChild :
       /\ parentToChild[p] # {}
       /\ parentToChild[p] \subseteq {b \in byHash : Parent(b) = p}
  /\ overlays = byHash

\* the blocks that parent_to_child lists under their parent
LinkedIn(map) == UNION Range(map)

\* the same tree as EnginePersistence sees it, with f the finalized block
Persistence(f) ==
  INSTANCE EnginePersistence WITH
    tree <- byHash, linked <- LinkedIn(parentToChild), finalized <- f, mem <- {}, disk <- Block, pc <- "loop",
    lastPersisted <- anchor, lastTrie <- anchor, rx <- FALSE, handoff <- None,
    job <- None, reply <- None, dbTip <- 0, dbTrie <- 0,
    builds <- 0, dropping <- 0, token <- FALSE,
    PersistenceThreshold <- 0, MemoryBlockBufferTarget <- 0, NumStateMaskingBlocks <- 0,
    BackpressureThreshold <- 1, SuppressDuringBuild <- FALSE, MaxBuilds <- 0

(***************************************************************************)
(* The walks of remove_until, is_canonical included, remove exactly the    *)
(* blocks that EnginePersistence's RemoveUntil says and forget exactly the *)
(* children that its LinksAfter says, whatever frontiers and finalized     *)
(* block they are given.                                                   *)
(***************************************************************************)
RemoveUntilAsSpecified ==
  \A p, t \in Block, f \in Block \cup {None} :
    /\ WalkMeets(head, p) <=> Persistence(f)!IsCanonical(p)
    /\ LET s == RemoveUntil(t, p, f)
       IN  /\ s.byHash = Persistence(f)!RemoveUntil(p, t)
           /\ LinkedIn(s.parentToChild) = Persistence(f)!LinksAfter(s.byHash)
=============================================================================
