---------------------------- MODULE MCEngineTree ----------------------------
(***************************************************************************)
(* EngineTree on small block trees: block b > 0 has the parent parents[b]. *)
(***************************************************************************)
EXTENDS EngineTree

ChainIn(parents) ==
  LET up[b \in 0..Len(parents)] == IF b = 0 THEN {0} ELSE {b} \cup up[parents[b]]
  IN  up

NumberIn(parents) ==
  LET num[b \in 0..Len(parents)] == IF b = 0 THEN 0 ELSE 1 + num[parents[b]]
  IN  num

\* 0-1-2-3-4-5, a branch 1-6, and a branch 1-7-8 where 7 and 8 are bad
Forked == <<0, 1, 2, 3, 4, 1, 1, 7>>
ForkedBlock == 0..Len(Forked)
ForkedChain == ChainIn(Forked)
ForkedNumber == NumberIn(Forked)
ForkedForkchoices ==
  {[head |-> 5, safe |-> 4, finalized |-> 3],
   [head |-> 6, safe |-> None, finalized |-> None],
   [head |-> 8, safe |-> None, finalized |-> None]}
ForkedPayloads == {4, 6, 7, 8}
ForkedBad == {7, 8}
ForkedMalformed == {8}

NoBlock == {}

\* nothing is finalized yet, and the second head is a safe block of the third
EarlyForkchoices ==
  {[head |-> 6, safe |-> None, finalized |-> None],
   [head |-> 2, safe |-> None, finalized |-> None],
   [head |-> 5, safe |-> 2, finalized |-> None]}

ZeroForkchoice == [head |-> None, safe |-> None, finalized |-> None]

AllForkchoices == ForkedForkchoices \cup EarlyForkchoices \cup {ZeroForkchoice}

\* the finalized block is the parent of the head
LateForkchoices ==
  {[head |-> 5, safe |-> 4, finalized |-> 4],
   [head |-> 6, safe |-> None, finalized |-> None]}
=============================================================================
