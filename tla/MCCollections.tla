--------------------------- MODULE MCCollections ---------------------------
(***************************************************************************)
(* The two collections of blocks that the engine keeps, TreeState and      *)
(* BlockBuffer, on one tree of seven blocks: block b > 0 has the parent    *)
(* parents[b].  They share no state, so a behaviour is one of either.      *)
(***************************************************************************)
EXTENDS TreeState

CONSTANT MaxBlocks

VARIABLES
  part,       \* which collection the behaviour is about
  blocks, children, earliest, queue, returned   \* BlockBuffer

Buffered == INSTANCE BlockBuffer WITH parentToChild <- children

allVars == <<vars, part, blocks, children, earliest, queue, returned>>

MCInit ==
  /\ part \in {"tree", "buffer"}
  /\ Init
  /\ Buffered!Init

MCNext ==
  \/ part = "tree" /\ Next /\ UNCHANGED <<part, blocks, children, earliest, queue, returned>>
  \/ part = "buffer" /\ Buffered!Next /\ UNCHANGED <<part, vars>>

MCSpec == MCInit /\ [][MCNext]_allVars

\* 0-1-2-3, a branch 1-4-5 and a branch 0-6
parents == <<0, 1, 2, 1, 4, 0>>

MCBlock == 0..Len(parents)

MCChain ==
  LET up[b \in MCBlock] == IF b = 0 THEN {0} ELSE {b} \cup up[parents[b]]
  IN  up

MCNumber ==
  LET num[b \in MCBlock] == IF b = 0 THEN 0 ELSE 1 + num[parents[b]]
  IN  num

\* TreeState: the walks of remove_until remove what EnginePersistence says.
WalksAsSpecified == part = "tree" => RemoveUntilAsSpecified

\* BlockBuffer: no operation leaves a hash behind in one of the four collections,
\* and the limit holds.
CollectionsAgree == Buffered!CollectionsAgree

\* BlockBuffer: connecting a block, or discarding old ones, takes out exactly what
\* is connected to them, parents first.
ConnectedOut == [][part = "buffer" => Buffered!RemovesConnected]_allVars
=============================================================================
