----------------------------- MODULE MCPipeline -----------------------------
(***************************************************************************)
(* Pipeline on small block trees: block b > 0 has the parent parents[b],   *)
(* and block 0 is the genesis block.                                       *)
(***************************************************************************)
EXTENDS Pipeline, Sequences

ChainIn(parents) ==
  LET up[b \in 0..Len(parents)] == IF b = 0 THEN {0} ELSE {b} \cup up[parents[b]]
  IN  up

NumberIn(parents) ==
  LET num[b \in 0..Len(parents)] == IF b = 0 THEN 0 ELSE 1 + num[parents[b]]
  IN  num

\* 0-1-2-3, a branch 1-4-5-6-7, and a longer chain 3-8-9-10 with bad blocks:
\* stage 2 fails on 9, stage 3 on 8.
Forked == <<0, 1, 2, 1, 4, 5, 6, 3, 8, 9>>
ForkedBlock == 0..Len(Forked)
ForkedChain == ChainIn(Forked)
ForkedNumber == NumberIn(Forked)
ForkedRejects == {<<2, 9>>, <<3, 8>>}

\* 0-1-2-3-4-5, a branch 1-6-7-8-9-10-11 that three unwinds reach with an unwind
\* depth of 1 (5 to 4, to 2, to 1), and a longer chain 5-12-13-14 with bad blocks.
Deep == <<0, 1, 2, 3, 4, 1, 6, 7, 8, 9, 10, 5, 12, 13>>
DeepBlock == 0..Len(Deep)
DeepChain == ChainIn(Deep)
DeepNumber == NumberIn(Deep)
DeepRejects == {<<2, 13>>, <<3, 12>>}

\* 0-1-2-3-4 with a block that the second stage fails on.
Straight == <<0, 1, 2, 3>>
StraightBlock == 0..Len(Straight)
StraightChain == ChainIn(Straight)
StraightNumber == NumberIn(Straight)
StraightRejects == {<<2, 3>>}
=============================================================================
