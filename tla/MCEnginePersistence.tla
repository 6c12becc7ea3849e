------------------------ MODULE MCEnginePersistence ------------------------
(***************************************************************************)
(* EnginePersistence on small block trees: block b > 0 has the parent      *)
(* parents[b], and block 0 is the genesis block.                           *)
(***************************************************************************)
EXTENDS EnginePersistence, Sequences

\* 0-1-2-3 and a branch 1-4-5-6
TwoBranches == <<0, 1, 2, 1, 4, 5>>

\* 0-1-2-3 and a shorter branch 1-4
UnevenBranches == <<0, 1, 2, 1>>

\* 0-1-2 and a branch 0-3-4
ShortBranches == <<0, 1, 0, 3>>

ChainIn(parents) ==
  LET up[b \in 0..Len(parents)] == IF b = 0 THEN {0} ELSE {b} \cup up[parents[b]]
  IN  up

NumberIn(parents) ==
  LET num[b \in 0..Len(parents)] == IF b = 0 THEN 0 ELSE 1 + num[parents[b]]
  IN  num

TwoBranchesBlock == 0..Len(TwoBranches)
TwoBranchesChain == ChainIn(TwoBranches)
TwoBranchesNumber == NumberIn(TwoBranches)

UnevenBlock == 0..Len(UnevenBranches)
UnevenChain == ChainIn(UnevenBranches)
UnevenNumber == NumberIn(UnevenBranches)

ShortBlock == 0..Len(ShortBranches)
ShortChain == ChainIn(ShortBranches)
ShortNumber == NumberIn(ShortBranches)
=============================================================================
