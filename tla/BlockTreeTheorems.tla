------------------------- MODULE BlockTreeTheorems -------------------------
(***************************************************************************)
(* Facts about chains of blocks, for every block tree that satisfies       *)
(* BlockTreeAssumption.                                                    *)
(***************************************************************************)
EXTENDS BlockTree, TLAPS

(***************************************************************************)
(* Chains are made of blocks, and a chain is ordered by block number.      *)
(***************************************************************************)
LEMMA ChainFacts ==
  ASSUME NEW b \in Block
  PROVE  /\ number[b] \in Nat
         /\ chain[b] \subseteq Block
         /\ b \in chain[b]
         /\ Genesis \in chain[b]
         /\ \A a \in chain[b] : number[a] <= number[b] /\ chain[a] \subseteq chain[b]
         /\ \A a, c \in chain[b] : number[a] <= number[c] => a \in chain[c]
         /\ \A a, c \in chain[b] : number[a] = number[c] => a = c
BY BlockTreeAssumption

(***************************************************************************)
(* A chain has a block of every number up to its own.                      *)
(***************************************************************************)
LEMMA BlockAtFacts ==
  ASSUME NEW b \in Block, NEW n \in Nat, n <= number[b]
  PROVE  /\ BlockAt(b, n) \in chain[b]
         /\ BlockAt(b, n) \in Block
         /\ number[BlockAt(b, n)] = n
<1>1. \E a \in chain[b] : number[a] = n
  BY BlockTreeAssumption
<1>2. BlockAt(b, n) \in chain[b] /\ number[BlockAt(b, n)] = n
  BY <1>1 DEF BlockAt
<1> QED
  BY <1>2, ChainFacts

(***************************************************************************)
(* Every block but the genesis block has a parent, and its chain is the    *)
(* parent's and itself.                                                    *)
(***************************************************************************)
LEMMA ParentFacts ==
  ASSUME NEW b \in Block, b # Genesis
  PROVE  /\ Parent(b) \in Block
         /\ Parent(b) \in chain[b]
         /\ number[Parent(b)] = number[b] - 1
         /\ number[b] > 0
         /\ chain[b] = {b} \cup chain[Parent(b)]
<1>1. number[b] \in Nat /\ number[b] # 0
  BY ChainFacts, BlockTreeAssumption
<1>2. /\ Parent(b) \in chain[b]
      /\ Parent(b) \in Block
      /\ number[Parent(b)] = number[b] - 1
  BY <1>1, BlockAtFacts DEF Parent
<1>3. chain[Parent(b)] \subseteq chain[b] /\ b \in chain[b]
  BY <1>2, ChainFacts
<1>4. ASSUME NEW c \in chain[b], c # b
      PROVE  c \in chain[Parent(b)]
  <2>1. number[c] \in Nat /\ number[c] <= number[b] /\ number[c] # number[b]
    BY <1>4, ChainFacts
  <2>2. number[c] <= number[Parent(b)]
    BY <2>1, <1>1, <1>2
  <2> QED
    BY <2>2, <1>2, ChainFacts
<1> QED
  BY <1>1, <1>2, <1>3, <1>4

(***************************************************************************)
(* The fork point of two chains is their highest common block: above it    *)
(* they have nothing in common, up to it everything.                       *)
(***************************************************************************)
LEMMA ForkPointFacts ==
  ASSUME NEW a \in Block, NEW b \in Block
  PROVE  /\ ForkPoint(a, b) \in chain[a] \cap chain[b]
         /\ ForkPoint(a, b) \in Block
         /\ number[ForkPoint(a, b)] \in Nat
         /\ ChainAbove(a, number[ForkPoint(a, b)]) = chain[a] \ chain[b]
         /\ ChainAbove(b, number[ForkPoint(a, b)]) = chain[b] \ chain[a]
<1> DEFINE f == ForkPoint(a, b)
<1>1. \E x \in chain[a] \cap chain[b] : \A c \in chain[a] \cap chain[b] : c \in chain[x]
  BY BlockTreeAssumption
<1>2. f \in chain[a] \cap chain[b] /\ \A c \in chain[a] \cap chain[b] : c \in chain[f]
  BY <1>1 DEF ForkPoint
<1>3. f \in Block /\ number[f] \in Nat
  BY <1>2, ChainFacts
<1>4. \A c \in chain[a] : number[c] <= number[f] <=> c \in chain[b]
  <2>1. ASSUME NEW c \in chain[a], number[c] <= number[f] PROVE c \in chain[b]
    BY <2>1, <1>2, <1>3, ChainFacts
  <2>2. ASSUME NEW c \in chain[a], c \in chain[b] PROVE number[c] <= number[f]
    BY <2>2, <1>2, <1>3, ChainFacts
  <2> QED
    BY <2>1, <2>2
<1>5. \A c \in chain[b] : number[c] <= number[f] <=> c \in chain[a]
  <2>1. ASSUME NEW c \in chain[b], number[c] <= number[f] PROVE c \in chain[a]
    BY <2>1, <1>2, <1>3, ChainFacts
  <2>2. ASSUME NEW c \in chain[b], c \in chain[a] PROVE number[c] <= number[f]
    BY <2>2, <1>2, <1>3, ChainFacts
  <2> QED
    BY <2>1, <2>2
<1>6. \A c \in chain[a] \cup chain[b] : number[c] \in Nat
  BY ChainFacts
<1>7. ChainAbove(a, number[f]) = chain[a] \ chain[b]
  BY <1>3, <1>4, <1>6 DEF ChainAbove
<1>8. ChainAbove(b, number[f]) = chain[b] \ chain[a]
  BY <1>3, <1>5, <1>6 DEF ChainAbove
<1> QED
  BY <1>2, <1>3, <1>7, <1>8
=============================================================================
