----------------------------- MODULE BlockTree -----------------------------
(***************************************************************************)
(* Blocks as the engine sees them: every block has a number and a parent   *)
(* hash, so that a block stands for the whole chain that ends in it.  The  *)
(* modules of the engine take the blocks, their numbers and their chains   *)
(* as constants.                                                           *)
(***************************************************************************)
EXTENDS Integers

CONSTANTS
  Block,      \* all the blocks (hashes) that can ever be seen
  Genesis,    \* block 0
  number,     \* number[b]: the number in b's header
  chain       \* chain[b]: b and all its ancestors

(***************************************************************************)
(* Headers linked by parent hashes form a tree rooted in the genesis block:*)
(* the chain of b has exactly one block of every number up to b's own, the *)
(* chains of its members are its prefixes, and two chains share a prefix.  *)
(***************************************************************************)
ASSUME BlockTreeAssumption ==
  /\ Genesis \in Block
  /\ number \in [Block -> Nat]
  /\ chain \in [Block -> SUBSET Block]
  /\ number[Genesis] = 0
  /\ \A b \in Block :
       /\ b \in chain[b]
       /\ Genesis \in chain[b]
       /\ \A n \in 0..number[b] : \E a \in chain[b] : number[a] = n
       /\ \A a \in chain[b] : number[a] <= number[b] /\ chain[a] \subseteq chain[b]
       /\ \A a, c \in chain[b] : number[a] <= number[c] => a \in chain[c]
       /\ \A a, c \in chain[b] : number[a] = number[c] => a = c
  /\ \A a, b \in Block : \E f \in chain[a] \cap chain[b] :
       \A c \in chain[a] \cap chain[b] : c \in chain[f]

(***************************************************************************)
(* The block numbered n on the chain of b.                                 *)
(***************************************************************************)
BlockAt(b, n) == CHOOSE a \in chain[b] : number[a] = n

Parent(b) == BlockAt(b, number[b] - 1)

(***************************************************************************)
(* The highest block that the chains of a and b have in common.            *)
(***************************************************************************)
ForkPoint(a, b) ==
  CHOOSE f \in chain[a] \cap chain[b] : \A c \in chain[a] \cap chain[b] : c \in chain[f]

(***************************************************************************)
(* The blocks of b's chain that are numbered above n.                      *)
(***************************************************************************)
ChainAbove(b, n) == {a \in chain[b] : number[a] > n}

(***************************************************************************)
(* u64::saturating_sub                                                     *)
(***************************************************************************)
SaturatingSub(m, n) == IF m >= n THEN m - n ELSE 0

LeastOf(m, n) == IF m <= n THEN m ELSE n

GreatestOf(m, n) == IF m >= n THEN m ELSE n
=============================================================================
