---------------------- MODULE EnginePersistence_proofs ----------------------
(***************************************************************************)
(* Proofs that the safety properties of EnginePersistence hold for every   *)
(* block tree and every configuration that TreeConfig accepts: first what  *)
(* its operators return and that the steps of the engine preserve its      *)
(* invariant, then the results and the commits of the persistence thread,  *)
(* then starting, restarting and the theorems.                             *)
(***************************************************************************)
EXTENDS EnginePersistence, BlockTreeTheorems

(***************************************************************************)
(* How tree, memory and database relate when the database is the chain of  *)
(* block p with state and trie up to block t.                              *)
(***************************************************************************)
Core(p, t) ==
  /\ tree \subseteq Block /\ head \in Block
  /\ p \in Block /\ t \in Block /\ t \in chain[p]
  /\ disk = chain[p] /\ dbTip = number[p] /\ dbTrie = number[t]
  /\ chain[head] \subseteq tree \cup chain[t]
  /\ chain[p] \ chain[head] \subseteq tree
  /\ mem \subseteq chain[head]
  /\ chain[head] \subseteq mem \cup disk
  /\ Genesis \notin tree

LEMMA CoreFacts ==
  ASSUME IInv
  PROVE  /\ Core(DiskFrontier.block, DiskFrontier.trie)
         /\ DiskFrontier \in Result
         /\ job = None \/ job.op # "reply" =>
              (reply = None => DiskFrontier = [block |-> lastPersisted, trie |-> lastTrie])
<1>1. DiskFrontier \in Result
  BY Zenon DEF IInv, TypeOK, DiskFrontier, Result, Job
<1>2. DiskFrontier.block \in Block /\ DiskFrontier.trie \in Block
  BY Zenon, <1>1 DEF Result
<1>3. Core(DiskFrontier.block, DiskFrontier.trie)
  BY Zenon, <1>2 DEF Core, IInv, TypeOK, DiskMatchesFrontier, HeadOnFrontier, StaleDiskInTree,
              CanonicalReadable
<1> QED
  BY Zenon, <1>1, <1>3 DEF DiskFrontier

(***************************************************************************)
(* With no request in flight the database is at the engine's frontiers.    *)
(***************************************************************************)
LEMMA IdleFacts ==
  ASSUME IInv, ~rx
  PROVE  /\ job = None /\ reply = None
         /\ Core(lastPersisted, lastTrie)
<1>1. job = None /\ reply = None
  BY Zenon DEF IInv, OneRequest
<1>2. DiskFrontier = [block |-> lastPersisted, trie |-> lastTrie]
  BY Zenon, <1>1 DEF DiskFrontier
<1>3. DiskFrontier.block = lastPersisted /\ DiskFrontier.trie = lastTrie
  BY Zenon, <1>2
<1> QED
  BY Zenon, <1>1, <1>3, CoreFacts

(***************************************************************************)
(* find_disk_reorg finds every header it walks over.                       *)
(***************************************************************************)
LEMMA WalkSucceeds ==
  ASSUME NEW p, NEW t, Core(p, t)
  PROVE  WalkFinds(p)
BY Zenon DEF Core, WalkFinds, ChainAbove, Known, Readable

(***************************************************************************)
(* When the persisted chain has left the canonical one, unwinding it to    *)
(* the fork removes blocks, and nothing that is needed.                    *)
(***************************************************************************)
LEMMA UnwindFacts ==
  ASSUME NEW p, NEW t, Core(p, t), DiskReorg(p),
         NEW n, n = number[ForkPoint(head, p)]
  PROVE  /\ n \in Nat /\ n < number[p] /\ n <= dbTip
         /\ ChainAbove(head, n) \subseteq mem
         /\ ChainAbove(head, n) \subseteq tree
<1>1. /\ ForkPoint(head, p) \in chain[head] \cap chain[p]
      /\ n \in Nat
      /\ ChainAbove(head, n) = chain[head] \ chain[p]
      /\ ChainAbove(p, n) = chain[p] \ chain[head]
  BY Zenon, ForkPointFacts DEF Core
<1>2. n < number[p] /\ number[p] \in Nat
  <2>1. n <= number[p] /\ number[p] \in Nat
    BY Zenon, <1>1, ChainFacts DEF Core
  <2>2. n # number[p]
    BY Zenon, <1>1, ChainFacts DEF Core, DiskReorg
  <2> QED
    BY <2>1, <2>2, <1>1
<1>3. ChainAbove(head, n) \subseteq mem
  BY Zenon, <1>1 DEF Core
<1>4. ASSUME NEW c \in ChainAbove(head, n)
      PROVE  c \in tree
  <2>1. c \in chain[head] /\ number[c] > n
    BY Zenon DEF ChainAbove
  <2>2. c \in tree \/ c \in chain[p]
    BY Zenon, <2>1, ChainFacts DEF Core
  <2>3. CASE c \in chain[p]
    <3>1. c \in ChainAbove(p, n)
      BY Zenon, <2>1, <2>3 DEF ChainAbove
    <3> QED
      BY Zenon, <3>1, <1>1 DEF Core
  <2> QED
    BY Zenon, <2>2, <2>3
<1> QED
  BY <1>1, <1>2, <1>3, <1>4 DEF Core

(***************************************************************************)
(* Evicting after a save (remove_until) leaves the canonical chain         *)
(* connected to the persisted state and trie.                              *)
(***************************************************************************)
LEMMA RemoveUntilFacts ==
  ASSUME NEW p, NEW t, Core(p, t), p \in chain[head], finalized \in Block \cup {None}
  PROVE  /\ RemoveUntil(p, t) \subseteq tree
         /\ chain[head] \subseteq RemoveUntil(p, t) \cup chain[t]
<1> DEFINE T == tree \ RemovedCanonical(p, t)
           f == IF number[t] < number[finalized] THEN t ELSE finalized
           P == PrunedSidechains(T, f)
<1>1. t \in chain[head] /\ t \in Block /\ head \in Block /\ T \subseteq Block
  BY Zenon, ChainFacts DEF Core
<1>2. RemovedCanonical(p, t) \subseteq chain[t]
  BY Zenon, <1>1, ChainFacts DEF RemovedCanonical
<1>3. chain[head] \subseteq T \cup chain[t]
  BY Zenon, <1>2 DEF Core
<1>4. CASE finalized = None \/ finalized \notin Readable
  BY Zenon, <1>3, <1>4 DEF RemoveUntil
<1>5. CASE ~(finalized = None \/ finalized \notin Readable)
  <2>1. finalized \in Block /\ finalized \in chain[head]
    BY Zenon, <1>5, ChainFacts DEF Core, Readable
  <2>2. f \in Block /\ f \in chain[head] /\ number[f] \in Nat /\ number[f] <= number[t]
    BY <1>1, <2>1, ChainFacts
  <2>3. RemoveUntil(p, t) = T \ P
    BY Zenon, <1>5 DEF RemoveUntil
  <2> HIDE DEF f
  <2>4. ASSUME NEW c \in chain[head], c \in P
        PROVE  c \in chain[t]
    <3>1. c \in T /\ c \in Block /\ number[c] \in Nat
      BY Zenon, <1>1, <2>4, ChainFacts DEF PrunedSidechains
    <3>2. CASE number[c] < number[f]
      BY <3>1, <3>2, <2>2, <2>4, <1>1, ChainFacts
    <3>3. CASE \E a \in chain[c] \cap T : number[a] = number[f] /\ a # f
      BY Zenon, <3>1, <3>3, <2>2, <2>4, <1>1, ChainFacts
    <3> QED
      BY Zenon, <3>2, <3>3, <2>4 DEF PrunedSidechains
  <2> HIDE DEF T, P
  <2>5. T \subseteq tree
    BY Zenon DEF T
  <2> QED
    BY Zenon, <2>3, <2>4, <2>5, <1>3
<1> QED
  BY Zenon, <1>4, <1>5

(***************************************************************************)
(* Evicting from memory only drops blocks that are on disk.                *)
(***************************************************************************)
LEMMA RemovePersistedFacts ==
  ASSUME NEW p, NEW t, Core(p, t), p \in chain[head]
  PROVE  /\ RemovePersisted(p, t) \subseteq mem
         /\ chain[head] \subseteq RemovePersisted(p, t) \cup disk
<1>1. RemovePersisted(p, t) \subseteq mem
  BY Zenon DEF RemovePersisted
<1>2. ASSUME NEW c \in chain[head], c \notin RemovePersisted(p, t), c \in mem
      PROVE  c \in disk
  <2>1. number[c] \in Nat /\ number[p] \in Nat /\ number[t] \in Nat
    BY Zenon, ChainFacts DEF Core
  <2>2. ~(number[c] > LeastOf(number[t], number[p]))
    BY Zenon, <1>2 DEF RemovePersisted
  <2>3. number[c] <= number[p]
    BY <2>1, <2>2 DEF LeastOf
  <2> QED
    BY Zenon, <2>3, ChainFacts DEF Core
<1> QED
  BY Zenon, <1>1, <1>2 DEF Core

(***************************************************************************)
(* get_save_blocks_input never trips an assertion of SaveBlocksInput::new: *)
(* what it collects is the canonical chain above the state/trie frontier.  *)
(***************************************************************************)
LEMMA SaveInputFacts ==
  ASSUME Core(lastPersisted, lastTrie), ~DiskReorg(lastPersisted),
         NEW target \in {"head", "threshold"}, SaveWanted(target)
  PROVE  LET j == SaveInput(target)
         IN  /\ SaveInputValid(j)
             /\ j \in Job
             /\ j.op = "save"
             /\ j.prevTip = dbTip /\ j.prevTrie = dbTrie
             /\ j.prevTrie <= j.newTrie /\ j.newTrie <= j.newTip
             /\ j.blocks \subseteq tree
             /\ \E tip \in j.blocks : /\ number[tip] = j.newTip
                                      /\ lastPersisted \in chain[tip]
                                      /\ j.blocks = ChainAbove(tip, j.prevTrie)
<1> DEFINE lp == number[lastPersisted]
           lt == number[lastTrie]
           hd == number[head]
           nt == NewTip(target)
           nr == NewTrie(target)
           tip == BlockAt(head, nt)
           B == SaveBlocks(target)
<1>1. /\ lastPersisted \in chain[head] /\ lastPersisted \in Block
      /\ lastTrie \in chain[head] /\ lastTrie \in Block /\ head \in Block
  BY Zenon, ChainFacts DEF Core, DiskReorg
<1>2. lp \in Nat /\ lt \in Nat /\ hd \in Nat /\ lt <= lp /\ lp <= hd
  BY Zenon, <1>1, ChainFacts DEF Core
<1>3. nt \in Nat /\ nr \in Nat /\ lp <= nt /\ lt < nt /\ nt <= hd /\ lt <= nr /\ nr <= nt
      /\ (lp < nt \/ lt < nr)
  <2>1. CASE target = "head"
    BY <2>1, <1>2 DEF NewTip, NewTrie, SaveWanted
  <2>2. CASE target = "threshold"
    <3>1. nt = SaturatingSub(hd, MemoryBlockBufferTarget) /\ nt > lp
      BY Zenon, <2>2 DEF NewTip, SaveWanted
    <3>2. nt \in Nat /\ nt <= hd
      BY <3>1, <1>2, ConfigAssumption DEF SaturatingSub
    <3>3. nr = GreatestOf(SaturatingSub(nt, NumStateMaskingBlocks), lt)
      BY Zenon, <2>2 DEF NewTrie
    <3> HIDE DEF nt, nr, lp, lt, hd
    <3>4. nr \in Nat /\ lt <= nr /\ nr <= nt
      BY <3>1, <3>2, <3>3, <1>2, ConfigAssumption DEF SaturatingSub, GreatestOf
    <3> QED
      BY <3>1, <3>2, <3>4, <1>2
  <2> QED
    BY Zenon, <2>1, <2>2
<1>4. tip \in chain[head] /\ tip \in Block /\ number[tip] = nt
  BY Zenon, <1>1, <1>3, BlockAtFacts
<1> HIDE DEF tip
<1>5. B = ChainAbove(tip, lt)
  <2>1. ASSUME NEW b \in chain[head], number[b] > lt
        PROVE  ChainAbove(head, number[b] - 1) \subseteq tree
    <3> SUFFICES ASSUME NEW c \in ChainAbove(head, number[b] - 1) PROVE c \in tree
      BY Zenon
    <3>1. c \in chain[head] /\ number[c] > number[b] - 1
      BY Zenon DEF ChainAbove
    <3>2. number[c] \in Nat /\ number[b] \in Nat
      BY Zenon, <3>1, <1>1, ChainFacts
    <3>3. number[c] > lt
      BY <3>1, <3>2, <2>1, <1>2
    <3>4. c \notin chain[lastTrie]
      BY <3>2, <3>3, <1>1, <1>2, ChainFacts
    <3> QED
      BY Zenon, <3>1, <3>4 DEF Core
  <2>2. \A b \in chain[head] : number[b] \in Nat /\ (number[b] <= nt <=> b \in chain[tip])
    <3> SUFFICES ASSUME NEW b \in chain[head]
                 PROVE  number[b] \in Nat /\ (number[b] <= nt <=> b \in chain[tip])
      BY Zenon
    <3>1. number[b] \in Nat
      BY Zenon, <1>1, ChainFacts
    <3>2. number[b] <= nt => b \in chain[tip]
      BY <1>1, <1>4, ChainFacts
    <3>3. b \in chain[tip] => number[b] <= nt
      BY <1>4, ChainFacts
    <3> QED
      BY Zenon, <3>1, <3>2, <3>3
  <2>3. chain[tip] \subseteq chain[head]
    BY Zenon, <1>1, <1>4, ChainFacts
  <2> QED
    BY Zenon, <2>1, <2>2, <2>3 DEF SaveBlocks, ChainAbove
<1>6. B \subseteq tree
  <2> SUFFICES ASSUME NEW b \in B PROVE b \in tree
    BY Zenon
  <2>1. b \in chain[head] /\ number[b] > lt
    BY Zenon DEF SaveBlocks
  <2>2. number[b] \in Nat
    BY Zenon, <2>1, <1>1, ChainFacts
  <2>3. b \notin chain[lastTrie]
    BY <2>1, <2>2, <1>1, <1>2, ChainFacts
  <2> QED
    BY Zenon, <2>1, <2>3 DEF Core
<1>7. tip \in B /\ lastPersisted \in chain[tip]
  BY <1>1, <1>2, <1>3, <1>4, <1>5, ChainFacts DEF ChainAbove
<1>8. {number[b] : b \in B} = (lt + 1)..nt
  <2>1. ASSUME NEW b \in B PROVE number[b] \in (lt + 1)..nt
    BY <1>2, <1>3, <1>4, <1>5, ChainFacts DEF ChainAbove
  <2>2. ASSUME NEW n \in (lt + 1)..nt PROVE \E b \in B : number[b] = n
    <3>1. n \in Nat /\ n <= number[tip] /\ n > lt
      BY <1>2, <1>3, <1>4
    <3>2. BlockAt(tip, n) \in chain[tip] /\ number[BlockAt(tip, n)] = n
      BY Zenon, <3>1, <1>4, BlockAtFacts
    <3> QED
      BY Zenon, <3>1, <3>2, <1>5 DEF ChainAbove
  <2> QED
    BY Zenon, <2>1, <2>2
<1> DEFINE j == SaveInput(target)
<1>9. /\ j.op = "save" /\ j.blocks = B /\ j.prevTip = lp /\ j.prevTrie = lt
      /\ j.newTip = nt /\ j.newTrie = nr
      /\ j = [op |-> "save", blocks |-> B, prevTip |-> lp, prevTrie |-> lt,
              newTip |-> nt, newTrie |-> nr]
  BY Zenon DEF SaveInput
<1>10. dbTip = lp /\ dbTrie = lt
  BY Zenon DEF Core
<1> HIDE DEF j, B, nt, nr, lp, lt, hd
<1>11. SaveInputValid(j)
  BY Zenon, <1>2, <1>3, <1>8, <1>9 DEF SaveInputValid
<1>12. j \in Job
  <2>1. B \in SUBSET Block
    BY Zenon, <1>6 DEF Core
  <2> QED
    BY Zenon, <2>1, <1>2, <1>3, <1>9 DEF Job
<1>13. j.prevTip = dbTip /\ j.prevTrie = dbTrie /\ j.prevTrie <= j.newTrie /\ j.newTrie <= j.newTip
  BY Zenon, <1>3, <1>9, <1>10
<1>14. \E x \in j.blocks : /\ number[x] = j.newTip
                           /\ lastPersisted \in chain[x]
                           /\ j.blocks = ChainAbove(x, j.prevTrie)
  BY Zenon, <1>4, <1>5, <1>7, <1>9
<1> QED
  BY Zenon, <1>6, <1>9, <1>11, <1>12, <1>13, <1>14 DEF j

----------------------------------------------------------------------------
(***************************************************************************)
(* Every step preserves IInv.  The two lemmas below collect what has to be *)
(* shown about the state after a step.                                     *)
(***************************************************************************)

LEMMA IInvIntro ==
  ASSUME NEW p \in Block, NEW t \in chain[p],
         DiskFrontier' = [block |-> p, trie |-> t],
         TypeOK', pc' # "failed", OneRequest', SaveExtendsDisk', RemoveKeepsNeeded',
         HandoffExclusive', pc' = "terminating" => handoff' = None,
         pc' = "terminated" => ~rx' /\ lastPersisted' = head' /\ lastTrie' = head',
         disk' = chain[p], dbTip' = number[p], dbTrie' = number[t],
         chain[head'] \subseteq tree' \cup chain[t],
         chain[p] \ chain[head'] \subseteq tree',
         mem' \subseteq chain[head'], chain[head'] \subseteq mem' \cup disk',
         Genesis \notin tree'
  PROVE  IInv'
<1>1. DiskFrontier'.block = p /\ DiskFrontier'.trie = t
  BY Zenon
<1>2. DiskMatchesFrontier' /\ HeadOnFrontier' /\ StaleDiskInTree' /\ CanonicalReadable'
  BY Zenon, <1>1 DEF DiskMatchesFrontier, HeadOnFrontier, StaleDiskInTree, CanonicalReadable
<1> QED
  BY Zenon, <1>2 DEF IInv

LEMMA QuietStep ==
  ASSUME IInv, TypeOK', pc' # "failed",
         pc' = "terminating" => handoff' = None,
         pc' = "terminated" => ~rx' /\ lastPersisted' = head' /\ lastTrie' = head',
         UNCHANGED <<tree, linked, head, mem, persistVars, job, reply, dbVars>>
  PROVE  IInv'
BY Zenon DEF IInv, OneRequest, DiskMatchesFrontier, SaveExtendsDisk, RemoveKeepsNeeded, HeadOnFrontier,
       StaleDiskInTree, CanonicalReadable, HandoffExclusive, DiskFrontier, persistVars, dbVars

(***************************************************************************)
(* insert_executed only adds a block to the tree.                          *)
(***************************************************************************)
LEMMA InsertExecutedStep ==
  ASSUME IInv, NEW b \in Block, InsertExecuted(b)
  PROVE  IInv'
<1> DEFINE p == DiskFrontier.block
           t == DiskFrontier.trie
<1>1. Core(p, t) /\ DiskFrontier \in Result
  BY Zenon, CoreFacts
<1>2. /\ b # Genesis /\ tree' = tree \cup {b} /\ linked' = linked \cup {b}
      /\ UNCHANGED <<head, mem, pc, lastPersisted, lastTrie, rx, handoff, job, reply, disk,
                     dbTip, dbTrie, finalized, builds, dropping, token>>
  BY Zenon DEF InsertExecuted, persistVars, dbVars, buildVars
<1>3. DiskFrontier' = DiskFrontier /\ DiskFrontier = [block |-> p, trie |-> t]
  BY Zenon, <1>1, <1>2 DEF DiskFrontier, Result
<1> HIDE DEF p, t
<1>4. SaveExtendsDisk' /\ OneRequest' /\ HandoffExclusive' /\ RemoveKeepsNeeded'
  BY Zenon, <1>2 DEF IInv, SaveExtendsDisk, OneRequest, HandoffExclusive, RemoveKeepsNeeded
<1>5. TypeOK' /\ pc' # "failed"
  BY Zenon, <1>2 DEF IInv, TypeOK
<1>6. /\ pc' = "terminating" => handoff' = None
      /\ pc' = "terminated" => ~rx' /\ lastPersisted' = head' /\ lastTrie' = head'
  BY Zenon, <1>2 DEF IInv
<1>7. p \in Block /\ t \in chain[p] /\ disk' = chain[p] /\ dbTip' = number[p] /\ dbTrie' = number[t]
      /\ chain[head'] \subseteq tree' \cup chain[t]
      /\ chain[p] \ chain[head'] \subseteq tree' /\ mem' \subseteq chain[head']
      /\ chain[head'] \subseteq mem' \cup disk' /\ Genesis \notin tree'
  BY Zenon, <1>1, <1>2 DEF Core
<1> QED
  BY Zenon, <1>3, <1>4, <1>5, <1>6, <1>7, IInvIntro

(***************************************************************************)
(* on_canonical_chain_update: the blocks that leave the canonical chain    *)
(* stay in the tree, the ones that join it come from the tree.             *)
(***************************************************************************)
LEMMA CanonicalChainUpdateStep ==
  ASSUME IInv, NEW h \in Block, CanonicalChainUpdate(h)
  PROVE  IInv'
<1> DEFINE p == DiskFrontier.block
           t == DiskFrontier.trie
           F == ForkPoint(head, Parent(h))
           new == ChainAbove(h, number[F])
           old == ChainAbove(head, number[F])
<1>1. Core(p, t) /\ DiskFrontier \in Result
  BY Zenon, CoreFacts
<1>2. h # Genesis /\ new \subseteq tree
  BY Zenon DEF CanonicalChainUpdate
<1>3. old \subseteq chain[head] /\ chain[head] \subseteq mem \cup disk
  BY Zenon, <1>1 DEF Core, ChainAbove
<1>4. /\ head' = h /\ tree' = tree \cup old /\ mem' = (mem \ old) \cup new
      /\ linked' = linked \cup (old \ tree)
      /\ UNCHANGED <<pc, lastPersisted, lastTrie, rx, handoff, job, reply, disk,
                     dbTip, dbTrie, finalized, builds, dropping, token>>
  BY Zenon, <1>3 DEF CanonicalChainUpdate, Known, Readable, persistVars, dbVars, buildVars
<1>5. /\ Parent(h) \in Block /\ chain[h] = {h} \cup chain[Parent(h)]
      /\ number[Parent(h)] = number[h] - 1 /\ number[h] \in Nat /\ number[Parent(h)] \in Nat
  BY Zenon, <1>2, ParentFacts, ChainFacts
<1>6. /\ F \in chain[head] /\ F \in chain[Parent(h)] /\ F \in Block /\ number[F] \in Nat
      /\ old = chain[head] \ chain[Parent(h)]
  BY Zenon, <1>1, <1>5, ForkPointFacts DEF Core
<1>7. number[F] <= number[Parent(h)]
  BY Zenon, <1>5, <1>6, ChainFacts
<1>8. h \in new /\ h \in tree
  BY <1>2, <1>5, <1>6, <1>7, ChainFacts DEF ChainAbove
<1>9. DiskFrontier' = DiskFrontier /\ DiskFrontier = [block |-> p, trie |-> t]
  BY Zenon, <1>1, <1>4 DEF DiskFrontier, Result
<1> HIDE DEF p, t, F
<1>10. /\ chain[F] \subseteq chain[head] /\ chain[F] \subseteq chain[h]
       /\ chain[head] \subseteq old \cup chain[F]
       /\ chain[h] \subseteq new \cup chain[F]
       /\ old \cap chain[F] = {}
  <2>1. chain[F] \subseteq chain[head] /\ chain[F] \subseteq chain[h]
    BY Zenon, <1>1, <1>5, <1>6, ChainFacts DEF Core
  <2>2. head \in Block /\ F \in chain[h]
    BY Zenon, <1>1, <1>5, <1>6, ChainFacts DEF Core
  <2>3. ASSUME NEW c \in chain[head], c \notin old PROVE c \in chain[F]
    BY <2>2, <2>3, <1>6, ChainFacts DEF ChainAbove
  <2>4. ASSUME NEW c \in chain[h], c \notin new PROVE c \in chain[F]
    <3>1. number[c] \in Nat /\ ~(number[c] > number[F])
      BY Zenon, <2>4, ChainFacts DEF ChainAbove
    <3> QED
      BY <3>1, <2>2, <1>6, ChainFacts
  <2>5. ASSUME NEW c \in chain[F] PROVE c \notin old
    BY <1>6, ChainFacts DEF ChainAbove
  <2> QED
    BY Zenon, <2>1, <2>3, <2>4, <2>5
<1>11. chain[head'] \subseteq tree' \cup chain[t]
  BY Zenon, <1>1, <1>2, <1>4, <1>10 DEF Core
<1>12. RemoveKeepsNeeded'
  <2> SUFFICES ASSUME job' # None, job'.op = "remove"
               PROVE  /\ job'.newTip <= dbTip'
                      /\ ChainAbove(head', job'.newTip) \subseteq mem'
                      /\ ChainAbove(head', job'.newTip) \subseteq tree'
    BY Zenon DEF RemoveKeepsNeeded
  <2>1. /\ job.newTip <= dbTip
        /\ ChainAbove(head, job.newTip) \subseteq mem
        /\ ChainAbove(head, job.newTip) \subseteq tree
    BY Zenon, <1>4 DEF IInv, RemoveKeepsNeeded
  <2>2. ChainAbove(h, job.newTip) \subseteq mem'
    <3> SUFFICES ASSUME NEW c \in chain[h], number[c] > job.newTip PROVE c \in mem'
      BY Zenon DEF ChainAbove
    <3>1. CASE c \in new
      BY Zenon, <3>1, <1>4
    <3>2. CASE c \in chain[F]
      <4>1. c \in ChainAbove(head, job.newTip)
        BY Zenon, <3>2, <1>10 DEF ChainAbove
      <4> QED
        BY Zenon, <4>1, <3>2, <2>1, <1>4, <1>10
    <3> QED
      BY Zenon, <3>1, <3>2, <1>10
  <2>3. ChainAbove(h, job.newTip) \subseteq tree
    <3> SUFFICES ASSUME NEW c \in chain[h], number[c] > job.newTip, c \notin new PROVE c \in tree
      BY Zenon, <1>2 DEF ChainAbove
    <3>1. c \in ChainAbove(head, job.newTip)
      BY Zenon, <1>10 DEF ChainAbove
    <3> QED
      BY Zenon, <3>1, <2>1
  <2> QED
    BY Zenon, <2>1, <2>2, <2>3, <1>4
<1>13. SaveExtendsDisk' /\ OneRequest' /\ HandoffExclusive'
  BY Zenon, <1>4 DEF IInv, SaveExtendsDisk, OneRequest, HandoffExclusive
<1>14. TypeOK' /\ pc' # "failed"
  <2>1. old \subseteq Block /\ new \subseteq Block
    BY Zenon, <1>1, <1>2, <1>3, ChainFacts DEF Core
  <2> QED
    BY Zenon, <2>1, <1>4 DEF IInv, TypeOK
<1>15. pc = "handle" /\ pc' = "handle"
  BY Zenon, <1>4 DEF CanonicalChainUpdate
<1>16. chain[p] \ chain[head'] \subseteq tree'
  BY Zenon, <1>1, <1>4, <1>6, <1>5 DEF Core
<1>17. mem' \subseteq chain[head'] /\ chain[head'] \subseteq mem' \cup disk'
  <2>1. new \subseteq chain[h]
    BY Zenon DEF ChainAbove
  <2> QED
    BY Zenon, <2>1, <1>1, <1>4, <1>10 DEF Core
<1>18. Genesis \notin tree'
  <2>1. Genesis \in chain[F]
    BY Zenon, <1>6, ChainFacts
  <2> QED
    BY Zenon, <2>1, <1>1, <1>4, <1>10 DEF Core
<1>19. p \in Block /\ t \in chain[p] /\ disk' = chain[p] /\ dbTip' = number[p] /\ dbTrie' = number[t]
  BY Zenon, <1>1, <1>4 DEF Core
<1> QED
  BY Zenon, <1>9, <1>11, <1>12, <1>13, <1>14, <1>15, <1>16, <1>17, <1>18, <1>19, IInvIntro

(***************************************************************************)
(* A save or an unwind that starts from an idle persistence state.         *)
(***************************************************************************)
LEMMA PersistBlocksStep ==
  ASSUME IInv, ~rx, handoff = None, ~DiskReorg(lastPersisted),
         NEW target \in {"head", "threshold"}, SaveWanted(target),
         NEW next \in {"loop", "terminating"}, PersistBlocks(target, next),
         UNCHANGED <<treeVars, lastPersisted, lastTrie, handoff, reply, dbVars, buildVars>>
  PROVE  IInv'
<1>1. job = None /\ reply = None /\ Core(lastPersisted, lastTrie)
  BY Zenon, IdleFacts
<1> DEFINE j == SaveInput(target)
<1>2. /\ SaveInputValid(j)
      /\ j \in Job
      /\ j.op = "save"
      /\ j.prevTip = dbTip /\ j.prevTrie = dbTrie
      /\ j.prevTrie <= j.newTrie /\ j.newTrie <= j.newTip
      /\ j.blocks \subseteq tree
      /\ \E tip \in j.blocks : /\ number[tip] = j.newTip
                               /\ lastPersisted \in chain[tip]
                               /\ j.blocks = ChainAbove(tip, j.prevTrie)
  BY Zenon, <1>1, SaveInputFacts
<1> HIDE DEF j
<1>3. WalkFinds(lastPersisted)
  BY Zenon, <1>1, WalkSucceeds
<1>4. /\ job' = j /\ rx' = TRUE /\ pc' = next
      /\ UNCHANGED <<tree, linked, head, finalized, mem, lastPersisted, lastTrie, handoff, reply, disk,
                     dbTip, dbTrie, builds, dropping, token>>
  BY Zenon, <1>2, <1>3 DEF PersistBlocks, j, treeVars, dbVars, buildVars
<1>5. j # None
  BY Zenon, <1>2, ConfigAssumption
<1>6. DiskFrontier' = [block |-> lastPersisted, trie |-> lastTrie]
  BY Zenon, <1>1, <1>2, <1>4 DEF DiskFrontier
<1>7. OneRequest'
  BY Zenon, <1>1, <1>4, <1>5 DEF OneRequest
<1>8. SaveExtendsDisk'
  BY Zenon, <1>2, <1>4 DEF SaveExtendsDisk
<1>9. RemoveKeepsNeeded'
  BY Zenon, <1>2, <1>4 DEF RemoveKeepsNeeded
<1>10. TypeOK' /\ pc' # "failed" /\ pc' # "terminated"
  BY Zenon, <1>2, <1>4 DEF IInv, TypeOK
<1>11. HandoffExclusive' /\ handoff' = None
  BY Zenon, <1>4 DEF HandoffExclusive
<1>12. /\ lastPersisted \in Block /\ lastTrie \in chain[lastPersisted]
       /\ disk' = chain[lastPersisted] /\ dbTip' = number[lastPersisted] /\ dbTrie' = number[lastTrie]
       /\ chain[head'] \subseteq tree' \cup chain[lastTrie]
       /\ chain[lastPersisted] \ chain[head'] \subseteq tree'
       /\ mem' \subseteq chain[head'] /\ chain[head'] \subseteq mem' \cup disk'
       /\ Genesis \notin tree'
  BY Zenon, <1>1, <1>4 DEF Core
<1> QED
  BY Zenon, <1>6, <1>7, <1>8, <1>9, <1>10, <1>11, <1>12, IInvIntro

LEMMA RemoveBlocksStep ==
  ASSUME IInv, NEW p, NEW t, Core(p, t), DiskReorg(p),
         job = None, RemoveBlocks(p),
         lastPersisted' = p, lastTrie' = t, reply' = None, handoff' = None,
         TypeOK' \/ job' \notin Job \cup {None},
         pc' # "failed", pc' # "terminated",
         UNCHANGED <<tree, linked, head, mem, dbVars>>
  PROVE  IInv'
<1> DEFINE n == number[ForkPoint(head, p)]
<1>1. /\ n \in Nat /\ n < number[p] /\ n <= dbTip
      /\ ChainAbove(head, n) \subseteq mem
      /\ ChainAbove(head, n) \subseteq tree
  BY Zenon, UnwindFacts
<1>2. job' = [op |-> "remove", newTip |-> n] /\ rx' = TRUE
  BY Zenon, <1>1 DEF RemoveBlocks
<1> HIDE DEF n
<1>3. job' \in Job /\ job' # None /\ job'.op = "remove" /\ job'.newTip = n
  <2>1. job' \in Job /\ job'.op = "remove" /\ job'.newTip = n
    BY Zenon, <1>1, <1>2 DEF Job
  <2> QED
    BY Zenon, <2>1, ConfigAssumption
<1>4. DiskFrontier' = [block |-> p, trie |-> t]
  BY Zenon, <1>3 DEF DiskFrontier
<1>5. OneRequest' /\ HandoffExclusive'
  BY Zenon, <1>2, <1>3 DEF OneRequest, HandoffExclusive
<1>6. SaveExtendsDisk' /\ RemoveKeepsNeeded'
  BY Zenon, <1>1, <1>3 DEF SaveExtendsDisk, RemoveKeepsNeeded, dbVars
<1>7. /\ p \in Block /\ t \in chain[p]
      /\ disk' = chain[p] /\ dbTip' = number[p] /\ dbTrie' = number[t]
      /\ chain[head'] \subseteq tree' \cup chain[t]
      /\ chain[p] \ chain[head'] \subseteq tree'
      /\ mem' \subseteq chain[head'] /\ chain[head'] \subseteq mem' \cup disk'
      /\ Genesis \notin tree'
  BY Zenon DEF Core, dbVars
<1>8. TypeOK'
  BY Zenon, <1>3
<1> QED
  BY Zenon, <1>4, <1>5, <1>6, <1>7, <1>8, IInvIntro

LEMMA UnwindDiskStep ==
  ASSUME IInv, ~rx, handoff = None, DiskReorg(lastPersisted),
         NEW next \in {"loop", "terminating"}, UnwindDisk(next),
         UNCHANGED <<treeVars, lastPersisted, lastTrie, handoff, reply, dbVars, buildVars>>
  PROVE  IInv'
<1>1. job = None /\ reply = None /\ Core(lastPersisted, lastTrie)
  BY Zenon, IdleFacts
<1>2. WalkFinds(lastPersisted)
  BY Zenon, <1>1, WalkSucceeds
<1>3. RemoveBlocks(lastPersisted) /\ pc' = next
  BY Zenon, <1>2 DEF UnwindDisk
<1>4. rx' \in BOOLEAN
  BY Zenon, <1>3 DEF RemoveBlocks
<1>5. TypeOK' \/ job' \notin Job \cup {None}
  BY Zenon, <1>3, <1>4 DEF IInv, TypeOK, treeVars, dbVars, buildVars
<1>6. UNCHANGED <<tree, linked, head, mem, dbVars>>
  BY Zenon DEF treeVars
<1> QED
  BY Zenon, <1>1, <1>3, <1>5, <1>6, RemoveBlocksStep

-----------------------------------------------------------------------------
(***************************************************************************)
(* on_new_persisted_block: unwind a branch that is no longer canonical, or *)
(* evict what is on disk.                                                  *)
(***************************************************************************)
LEMMA NewPersistedBlockStep ==
  ASSUME IInv, NEW p, NEW t, Core(p, t), NEW next \in {"advance", "handle"},
         OnNewPersistedBlock(p, t, next),
         job = None, lastPersisted' = p, lastTrie' = t, reply' = None, handoff' = None,
         builds' \in Nat, dropping' \in Nat, token' \in BOOLEAN,
         UNCHANGED <<head, finalized, dbVars>>
  PROVE  IInv'
<1>1. WalkFinds(p)
  BY Zenon, WalkSucceeds
<1>2. p \in Block /\ t \in Block /\ UNCHANGED <<disk, dbTip, dbTrie>>
  BY Zenon DEF Core, dbVars
<1>3. CASE DiskReorg(p)
  <2>1. RemoveBlocks(p) /\ UNCHANGED <<tree, linked, mem>> /\ pc' = next
    BY Zenon, <1>1, <1>3 DEF OnNewPersistedBlock
  <2>2. rx' \in BOOLEAN
    BY Zenon, <2>1 DEF RemoveBlocks
  <2>3. TypeOK' \/ job' \notin Job \cup {None}
    BY Zenon, <1>2, <2>1, <2>2 DEF IInv, TypeOK
  <2> QED
    BY Zenon, <1>3, <2>1, <2>3, RemoveBlocksStep
<1>4. CASE ~DiskReorg(p)
  <2>1. /\ tree' = RemoveUntil(p, t) /\ mem' = RemovePersisted(p, t)
        /\ linked' = LinksAfter(RemoveUntil(p, t))
        /\ rx' = FALSE /\ job' = None /\ pc' = next
    BY Zenon, <1>1, <1>4 DEF OnNewPersistedBlock
  <2>2. p \in chain[head]
    BY Zenon, <1>4 DEF DiskReorg
  <2>3. /\ tree' \subseteq tree
        /\ chain[head'] \subseteq tree' \cup chain[t]
    <3>1. finalized \in Block \cup {None}
      BY Zenon DEF IInv, TypeOK
    <3> QED
      BY Zenon, <2>1, <2>2, <3>1, RemoveUntilFacts
  <2>4. mem' \subseteq mem /\ chain[head] \subseteq mem' \cup disk
    BY Zenon, <2>1, <2>2, RemovePersistedFacts
  <2>5. DiskFrontier' = [block |-> p, trie |-> t]
    BY Zenon, <2>1 DEF DiskFrontier
  <2>6. OneRequest' /\ HandoffExclusive' /\ SaveExtendsDisk' /\ RemoveKeepsNeeded'
    BY Zenon, <2>1 DEF OneRequest, HandoffExclusive, SaveExtendsDisk, RemoveKeepsNeeded
  <2>7. TypeOK' /\ pc' # "failed" /\ pc' # "terminated" /\ pc' # "terminating"
    <3>1. linked' \subseteq tree'
      BY Zenon, <2>1 DEF LinksAfter
    <3>2. rx' \in BOOLEAN /\ job' = None /\ pc' = next
      BY Zenon, <2>1
    <3> QED
      BY Zenon, <1>2, <2>3, <2>4, <3>1, <3>2 DEF IInv, TypeOK
  <2>8. chain[p] \subseteq chain[head]
    BY Zenon, <2>2, ChainFacts DEF Core
  <2>9. /\ t \in chain[p]
        /\ disk' = chain[p] /\ dbTip' = number[p] /\ dbTrie' = number[t]
        /\ chain[p] \ chain[head'] \subseteq tree'
        /\ mem' \subseteq chain[head'] /\ chain[head'] \subseteq mem' \cup disk'
        /\ Genesis \notin tree'
    BY Zenon, <1>2, <2>3, <2>4, <2>8 DEF Core
  <2> QED
    BY Zenon, <1>2, <2>3, <2>5, <2>6, <2>7, <2>9, IInvIntro
<1> QED
  BY Zenon, <1>3, <1>4

(***************************************************************************)
(* The result of a finished request is what the database is at.            *)
(***************************************************************************)
LEMMA ReplyFacts ==
  ASSUME IInv, reply # None
  PROVE  /\ rx /\ job = None /\ handoff = None
         /\ reply \in Result
         /\ reply = [block |-> reply.block, trie |-> reply.trie]
         /\ Core(reply.block, reply.trie)
         /\ pc # "terminated"
<1>1. rx /\ job = None /\ handoff = None /\ reply \in Result /\ pc # "terminated"
  BY Zenon DEF IInv, OneRequest, HandoffExclusive, TypeOK
<1>2. DiskFrontier = reply
  BY Zenon DEF DiskFrontier
<1> QED
  BY Zenon, <1>1, <1>2, CoreFacts DEF Result

\* finish_persistence, when nothing else happens but that a handoff is deferred
LEMMA FinishStep ==
  ASSUME IInv, FinishPersistence, rx' = FALSE,
         (handoff' = reply /\ pc' \in {"advance", "handle"}) \/ (handoff' = None /\ pc' = pc),
         UNCHANGED <<tree, linked, head, finalized, mem, job, dbVars, buildVars>>
  PROVE  IInv'
<1> DEFINE p == reply.block
           t == reply.trie
<1>1. /\ reply # None /\ lastPersisted' = p /\ lastTrie' = t /\ reply' = None
      /\ UNCHANGED <<disk, dbTip, dbTrie, builds, dropping, token>>
  BY Zenon DEF FinishPersistence, dbVars, buildVars
<1>2. /\ rx /\ job = None /\ reply \in Result
      /\ reply = [block |-> p, trie |-> t] /\ Core(p, t) /\ pc # "terminated"
  BY Zenon, <1>1, ReplyFacts
<1>3. DiskFrontier' = [block |-> p, trie |-> t]
  BY Zenon, <1>1, <1>2 DEF DiskFrontier
<1>4. HandoffExclusive' /\ OneRequest' /\ SaveExtendsDisk' /\ RemoveKeepsNeeded'
  BY Zenon, <1>1, <1>2 DEF HandoffExclusive, OneRequest, SaveExtendsDisk, RemoveKeepsNeeded
<1>5. p \in Block /\ t \in Block
  BY Zenon, <1>2 DEF Core
<1> HIDE DEF p, t
<1>6. TypeOK'
  BY Zenon, <1>1, <1>2, <1>5 DEF IInv, TypeOK
<1>7. pc' # "failed" /\ pc' # "terminated" /\ (pc' = "terminating" => handoff' = None)
  BY Zenon, <1>2 DEF IInv
<1>8. /\ t \in chain[p]
      /\ disk' = chain[p] /\ dbTip' = number[p] /\ dbTrie' = number[t]
      /\ chain[head'] \subseteq tree' \cup chain[t]
      /\ chain[p] \ chain[head'] \subseteq tree'
      /\ mem' \subseteq chain[head'] /\ chain[head'] \subseteq mem' \cup disk'
      /\ Genesis \notin tree'
  BY Zenon, <1>1, <1>2 DEF Core
<1> QED
  BY Zenon, <1>3, <1>4, <1>5, <1>6, <1>7, <1>8, IInvIntro

LEMMA OnPersistenceCompleteStep ==
  ASSUME IInv, NEW next \in {"advance", "handle"}, OnPersistenceComplete(next)
  PROVE  IInv'
<1>1. /\ FinishPersistence
      /\ UNCHANGED <<head, finalized, disk, dbTip, dbTrie, builds, dropping, token>>
  BY Zenon DEF OnPersistenceComplete
<1>2. CASE builds > 0
  <2>1. handoff' = reply /\ rx' = FALSE /\ pc' = next /\ UNCHANGED <<tree, linked, mem, job>>
    BY Zenon, <1>2 DEF OnPersistenceComplete
  <2>2. UNCHANGED <<tree, linked, head, finalized, mem, job, dbVars, buildVars>>
    BY Zenon, <1>1, <2>1 DEF dbVars, buildVars
  <2>3. (handoff' = reply /\ pc' \in {"advance", "handle"}) \/ (handoff' = None /\ pc' = pc)
    BY Zenon, <2>1
  <2> QED
    BY Zenon, <1>1, <2>1, <2>2, <2>3, FinishStep
<1>3. CASE ~(builds > 0)
  <2>1. /\ reply # None /\ lastPersisted' = reply.block /\ lastTrie' = reply.trie /\ reply' = None
    BY Zenon, <1>1 DEF FinishPersistence
  <2>2. OnNewPersistedBlock(reply.block, reply.trie, next) /\ UNCHANGED handoff
    BY Zenon, <1>3 DEF OnPersistenceComplete, OnPersistedHandoff
  <2>3. job = None /\ handoff = None /\ Core(reply.block, reply.trie)
    BY Zenon, <2>1, ReplyFacts
  <2>4. builds' \in Nat /\ dropping' \in Nat /\ token' \in BOOLEAN /\ UNCHANGED <<head, finalized, dbVars>>
    BY Zenon, <1>1 DEF IInv, TypeOK, dbVars
  <2> QED
    BY Zenon, <2>1, <2>2, <2>3, <2>4, NewPersistedBlockStep
<1> QED
  BY Zenon, <1>2, <1>3

LEMMA PayloadBuildFinishedStep ==
  ASSUME IInv, PayloadBuildFinished
  PROVE  IInv'
<1>1. /\ token' = FALSE
      /\ UNCHANGED <<head, finalized, lastPersisted, lastTrie, reply, disk, dbTip, dbTrie,
                     builds, dropping>>
  BY Zenon DEF PayloadBuildFinished, dbVars
<1>2. CASE builds > 0 \/ handoff = None
  <2>1. pc' = "advance" /\ UNCHANGED <<tree, linked, mem, rx, handoff, job>>
    BY Zenon, <1>2 DEF PayloadBuildFinished
  <2>2. TypeOK'
    BY Zenon, <1>1, <2>1 DEF IInv, TypeOK
  <2>3. UNCHANGED <<tree, linked, head, mem, persistVars, job, reply, dbVars>>
    BY Zenon, <1>1, <2>1 DEF persistVars, dbVars
  <2> QED
    BY Zenon, <2>1, <2>2, <2>3, QuietStep
<1>3. CASE ~(builds > 0 \/ handoff = None)
  <2>1. handoff' = None /\ OnPersistedHandoff(handoff, lastPersisted, lastTrie, "advance")
    BY Zenon, <1>3 DEF PayloadBuildFinished
  <2>2. ~rx /\ handoff = [block |-> lastPersisted, trie |-> lastTrie]
    BY Zenon, <1>3 DEF IInv, HandoffExclusive
  <2>3. OnNewPersistedBlock(lastPersisted, lastTrie, "advance")
    BY Zenon, <2>1, <2>2 DEF OnPersistedHandoff
  <2>4. job = None /\ reply = None /\ Core(lastPersisted, lastTrie)
    BY Zenon, <2>2, IdleFacts
  <2>5. builds' \in Nat /\ dropping' \in Nat /\ token' \in BOOLEAN /\ UNCHANGED <<head, finalized, dbVars>>
    BY Zenon, <1>1 DEF IInv, TypeOK, dbVars
  <2> QED
    BY Zenon, <1>1, <2>1, <2>3, <2>4, <2>5, NewPersistedBlockStep
<1> QED
  BY Zenon, <1>2, <1>3

----------------------------------------------------------------------------
(***************************************************************************)
(* The persistence thread.                                                 *)
(***************************************************************************)

\* the database has exactly one block of every number up to its tip
LEMMA DiskBlockFacts ==
  ASSUME NEW p, NEW t, Core(p, t), NEW n \in Nat, n <= number[p]
  PROVE  /\ DiskBlock(n) \in chain[p] /\ DiskBlock(n) \in Block
         /\ number[DiskBlock(n)] = n
         /\ \A b \in chain[p] : number[b] = n => b = DiskBlock(n)
<1>1. p \in Block /\ disk = chain[p]
  BY Zenon DEF Core
<1>2. \E b \in disk : number[b] = n
  BY Zenon, <1>1, BlockAtFacts
<1>3. DiskBlock(n) \in chain[p] /\ number[DiskBlock(n)] = n
  BY Zenon, <1>1, <1>2 DEF DiskBlock
<1> QED
  BY Zenon, <1>1, <1>3, ChainFacts

\* a committed request, before its result is sent
LEMMA CommittedStep ==
  ASSUME IInv, NEW p \in Block, NEW t \in chain[p], job # None, job.op # "reply",
         job' = [op |-> "reply", result |-> [block |-> p, trie |-> t]],
         disk' = chain[p], dbTip' = number[p], dbTrie' = number[t],
         chain[head] \subseteq tree \cup chain[t],
         chain[p] \ chain[head] \subseteq tree,
         chain[head] \subseteq mem \cup chain[p],
         UNCHANGED <<treeVars, pc, persistVars, reply, buildVars>>
  PROVE  IInv'
<1>1. UNCHANGED <<tree, linked, head, finalized, mem, pc, lastPersisted, lastTrie, rx, handoff, reply,
                  builds, dropping, token>>
  BY Zenon DEF treeVars, persistVars, buildVars
<1>2. t \in Block /\ [block |-> p, trie |-> t] \in Result
  BY Zenon, ChainFacts DEF Result
<1>3. job' \in Job /\ job'.op = "reply" /\ job'.result = [block |-> p, trie |-> t]
  BY Zenon, <1>2 DEF Job
<1>4. job' # None /\ reply = None /\ rx
  BY Zenon, <1>3, ConfigAssumption DEF IInv, OneRequest
<1>5. DiskFrontier' = [block |-> p, trie |-> t]
  BY Zenon, <1>1, <1>3, <1>4 DEF DiskFrontier
<1>6. OneRequest' /\ SaveExtendsDisk' /\ RemoveKeepsNeeded' /\ HandoffExclusive'
  BY Zenon, <1>1, <1>3, <1>4 DEF IInv, OneRequest, SaveExtendsDisk, RemoveKeepsNeeded, HandoffExclusive
<1>7. TypeOK'
  <2>1. disk' \subseteq Block /\ dbTip' \in Nat /\ dbTrie' \in Nat
    BY Zenon, <1>2, ChainFacts
  <2> QED
    BY Zenon, <2>1, <1>1, <1>3 DEF IInv, TypeOK
<1>8. pc' # "failed" /\ pc' # "terminated" /\ (pc' = "terminating" => handoff' = None)
  BY Zenon, <1>1, <1>4 DEF IInv
<1>9. mem \subseteq chain[head] /\ Genesis \notin tree
  BY Zenon DEF IInv
<1> QED
  BY Zenon, <1>1, <1>5, <1>6, <1>7, <1>8, <1>9, IInvIntro

(***************************************************************************)
(* on_save_blocks: what is appended continues the chain on disk.           *)
(***************************************************************************)
LEMMA ServiceSaveStep ==
  ASSUME IInv, ServiceSave
  PROVE  IInv'
<1> DEFINE lp == lastPersisted
           lt == lastTrie
           B == job.blocks
<1>1. job # None /\ job.op = "save" /\ job.op # "reply"
  BY Zenon DEF ServiceSave
<1>2. reply = None
  BY Zenon, <1>1 DEF IInv, OneRequest
<1>3. DiskFrontier.block = lp /\ DiskFrontier.trie = lt
  BY Zenon, <1>1, <1>2 DEF DiskFrontier
<1>4. Core(lp, lt)
  BY Zenon, <1>3, CoreFacts
<1>5. PICK p \in B : /\ number[p] = job.newTip
                     /\ lp \in chain[p]
                     /\ B = ChainAbove(p, job.prevTrie)
  BY Zenon, <1>1 DEF IInv, SaveExtendsDisk
<1>6. /\ job.prevTip = number[lp] /\ job.prevTrie = number[lt]
      /\ job.prevTrie <= job.newTrie /\ job.newTrie <= job.newTip
      /\ B \subseteq tree
      /\ dbTip = job.prevTip /\ dbTrie = job.prevTrie
  BY Zenon, <1>1, <1>4 DEF IInv, SaveExtendsDisk, Core
<1>7. job.newTrie \in Nat /\ job.newTip \in Nat
  BY Zenon, <1>1 DEF IInv, TypeOK, Job
<1>8. p \in Block /\ lp \in Block /\ lt \in Block /\ lt \in chain[lp] /\ head \in Block
  BY Zenon, <1>5, <1>6, <1>4 DEF Core
<1>9. lt \in chain[p] /\ number[lt] \in Nat /\ number[lp] \in Nat /\ number[lt] <= number[lp]
  BY Zenon, <1>5, <1>8, ChainFacts
<1> DEFINE saved == {b \in job.blocks : number[b] > job.prevTip}
           block == CHOOSE b \in job.blocks : number[b] = job.newTip
           trie == IF job.newTrie > job.prevTrie
                     THEN CHOOSE b \in job.blocks : number[b] = job.newTrie
                     ELSE DiskBlock(job.newTrie)
<1>10. /\ disk' = disk \cup saved /\ dbTip' = job.newTip /\ dbTrie' = job.newTrie
       /\ job' = [op |-> "reply", result |-> [block |-> block, trie |-> trie]]
       /\ UNCHANGED pc
       /\ UNCHANGED <<treeVars, persistVars, reply, buildVars>>
  BY Zenon, <1>6 DEF ServiceSave
<1>11. block = p
  <2>1. block \in B /\ number[block] = job.newTip
    BY Zenon, <1>5
  <2>2. block \in chain[p]
    BY Zenon, <2>1, <1>5 DEF ChainAbove
  <2> QED
    BY Zenon, <2>1, <2>2, <1>5, <1>8, ChainFacts
<1>12. trie \in chain[p] /\ trie \in Block /\ number[trie] = job.newTrie
  <2>1. CASE job.newTrie > job.prevTrie
    <3>1. /\ BlockAt(p, job.newTrie) \in chain[p]
          /\ number[BlockAt(p, job.newTrie)] = job.newTrie
      BY Zenon, <1>5, <1>6, <1>7, <1>8, BlockAtFacts
    <3>2. BlockAt(p, job.newTrie) \in B
      BY Zenon, <3>1, <2>1, <1>5 DEF ChainAbove
    <3>3. trie \in B /\ number[trie] = job.newTrie
      BY Zenon, <3>1, <3>2, <2>1
    <3> QED
      BY Zenon, <3>3, <1>5, <1>8, ChainFacts DEF ChainAbove
  <2>2. CASE ~(job.newTrie > job.prevTrie)
    <3>1. job.newTrie = number[lt]
      BY <2>2, <1>6, <1>7, <1>9
    <3>2. trie = DiskBlock(number[lt])
      BY Zenon, <2>2, <3>1
    <3>3. trie \in chain[lp] /\ trie \in Block /\ number[trie] = number[lt]
      BY <3>2, <1>4, <1>9, DiskBlockFacts
    <3> QED
      BY <3>1, <3>3, <1>5, <1>8, ChainFacts
  <2> QED
    BY Zenon, <2>1, <2>2
<1> HIDE DEF block, trie
<1>13. chain[lp] \subseteq chain[p] /\ chain[lt] \subseteq chain[trie]
  <2>1. lt \in chain[trie]
    BY Zenon, <1>6, <1>8, <1>9, <1>12, ChainFacts
  <2> QED
    BY Zenon, <2>1, <1>5, <1>8, <1>12, ChainFacts
<1>14. disk' = chain[p]
  <2>1. disk = chain[lp]
    BY Zenon, <1>4 DEF Core
  <2>2. saved \subseteq chain[p]
    BY Zenon, <1>5 DEF ChainAbove
  <2>3. ASSUME NEW c \in chain[p], c \notin chain[lp] PROVE c \in saved
    <3>1. number[c] \in Nat /\ number[c] > number[lp]
      BY <2>3, <1>5, <1>8, ChainFacts
    <3>2. c \in B
      BY <3>1, <1>5, <1>6, <1>9 DEF ChainAbove
    <3> QED
      BY Zenon, <3>1, <3>2, <1>6
  <2> QED
    BY Zenon, <2>1, <2>2, <2>3, <1>10, <1>13
<1>15. chain[head] \subseteq tree \cup chain[trie]
  BY Zenon, <1>4, <1>13 DEF Core
<1>16. chain[p] \ chain[head] \subseteq tree
  <2> SUFFICES ASSUME NEW c \in chain[p], c \notin chain[head], c \notin B PROVE c \in tree
    BY Zenon, <1>6
  <2>1. number[c] \in Nat /\ ~(number[c] > number[lt])
    BY Zenon, <1>5, <1>6, <1>8, ChainFacts DEF ChainAbove
  <2>2. c \in chain[lp]
    BY <2>1, <1>5, <1>8, <1>9, ChainFacts
  <2> QED
    BY Zenon, <2>2, <1>4 DEF Core
<1>17. chain[head] \subseteq mem \cup chain[p]
  BY Zenon, <1>4, <1>13 DEF Core
<1>18. /\ job' = [op |-> "reply", result |-> [block |-> p, trie |-> trie]]
       /\ dbTip' = number[p] /\ dbTrie' = number[trie]
       /\ UNCHANGED <<treeVars, pc, persistVars, reply, buildVars>>
  BY Zenon, <1>10, <1>11, <1>12, <1>5
<1> QED
  BY Zenon, <1>1, <1>8, <1>12, <1>14, <1>15, <1>16, <1>17, <1>18, CommittedStep

(***************************************************************************)
(* on_remove_blocks_above: what is cut off is in memory where it is needed.*)
(***************************************************************************)
LEMMA ServiceRemoveStep ==
  ASSUME IInv, ServiceRemove
  PROVE  IInv'
<1> DEFINE lp == lastPersisted
           lt == lastTrie
           n == job.newTip
           m == LeastOf(dbTrie, n)
           p == DiskBlock(n)
           t == DiskBlock(m)
<1>1. job # None /\ job.op = "remove" /\ job.op # "reply"
  BY Zenon DEF ServiceRemove
<1>2. reply = None
  BY Zenon, <1>1 DEF IInv, OneRequest
<1>3. DiskFrontier.block = lp /\ DiskFrontier.trie = lt
  BY Zenon, <1>1, <1>2 DEF DiskFrontier
<1>4. Core(lp, lt)
  BY Zenon, <1>3, CoreFacts
<1>5. /\ lp \in Block /\ lt \in Block /\ lt \in chain[lp] /\ head \in Block
      /\ disk = chain[lp] /\ dbTip = number[lp] /\ dbTrie = number[lt]
      /\ number[lp] \in Nat /\ number[lt] \in Nat /\ number[lt] <= number[lp]
  BY Zenon, <1>4, ChainFacts DEF Core
<1>6. n \in Nat
  BY Zenon, <1>1 DEF IInv, TypeOK, Job
<1>7. /\ n <= number[lp]
      /\ ChainAbove(head, n) \subseteq mem
      /\ ChainAbove(head, n) \subseteq tree
  BY Zenon, <1>1, <1>5 DEF IInv, RemoveKeepsNeeded
<1>8. m \in Nat /\ m <= n /\ m <= number[lt] /\ (m = n \/ m = number[lt])
  BY <1>5, <1>6 DEF LeastOf
<1> HIDE DEF n, m
<1>9. p \in chain[lp] /\ p \in Block /\ number[p] = n
  BY Zenon, <1>4, <1>6, <1>7, DiskBlockFacts
<1>10. t \in chain[lp] /\ t \in Block /\ number[t] = m
  BY Zenon, <1>4, <1>5, <1>6, <1>7, <1>8, DiskBlockFacts
<1>11. /\ disk' = {b \in disk : number[b] <= n} /\ dbTip' = n /\ dbTrie' = m
       /\ job' = [op |-> "reply", result |-> [block |-> p, trie |-> t]]
       /\ UNCHANGED <<treeVars, pc, persistVars, reply, buildVars>>
  BY Zenon, <1>5, <1>9 DEF ServiceRemove, n, m
<1> HIDE DEF p, t
<1>12. disk' = chain[p] /\ t \in chain[p]
  <2>1. \A b \in chain[lp] : number[b] <= n <=> b \in chain[p]
    BY Zenon, <1>5, <1>9, ChainFacts
  <2>2. chain[p] \subseteq chain[lp]
    BY Zenon, <1>5, <1>9, ChainFacts
  <2> QED
    BY Zenon, <2>1, <2>2, <1>5, <1>8, <1>10, <1>11
<1>13. chain[head] \subseteq tree \cup chain[t]
  <2> SUFFICES ASSUME NEW c \in chain[head], c \notin tree
               PROVE  c \in chain[t]
    BY Zenon
  <2>1. c \in chain[lt]
    BY Zenon, <1>4 DEF Core
  <2>2. number[c] \in Nat /\ number[c] <= number[lt] /\ c \in chain[lp]
    BY Zenon, <2>1, <1>5, ChainFacts
  <2>3. ~(number[c] > n)
    BY Zenon, <1>7 DEF ChainAbove
  <2>4. number[c] <= m
    BY <2>2, <2>3, <1>6, <1>8
  <2> QED
    BY Zenon, <2>2, <2>4, <1>5, <1>10, ChainFacts
<1>14. chain[p] \ chain[head] \subseteq tree
  BY Zenon, <1>4, <1>5, <1>9, ChainFacts DEF Core
<1>15. chain[head] \subseteq mem \cup chain[p]
  <2> SUFFICES ASSUME NEW c \in chain[head], c \notin mem PROVE c \in chain[p]
    BY Zenon
  <2>1. number[c] \in Nat /\ c \in chain[lp]
    BY Zenon, <1>4, <1>5, ChainFacts DEF Core
  <2>2. ~(number[c] > n)
    BY Zenon, <1>7 DEF ChainAbove
  <2> DEFINE k == number[c]
  <2> HIDE DEF k
  <2>3. k \in Nat /\ ~(k > n)
    BY Zenon, <2>1, <2>2 DEF k
  <2>4. k <= n
    BY <2>3, <1>6
  <2> QED
    BY Zenon, <2>1, <2>4, <1>5, <1>9, ChainFacts DEF k
<1>16. dbTip' = number[p] /\ dbTrie' = number[t]
  BY Zenon, <1>9, <1>10, <1>11
<1> QED
  BY Zenon, <1>1, <1>9, <1>11, <1>12, <1>13, <1>14, <1>15, <1>16, CommittedStep

LEMMA ServiceReplyStep ==
  ASSUME IInv, ServiceReply
  PROVE  IInv'
<1>1. /\ job # None /\ job.op = "reply" /\ reply' = job.result /\ job' = None
      /\ UNCHANGED <<tree, linked, head, finalized, mem, pc, lastPersisted, lastTrie, rx, handoff,
                     disk, dbTip, dbTrie, builds, dropping, token>>
  BY Zenon DEF ServiceReply, treeVars, persistVars, dbVars, buildVars
<1>2. reply = None /\ rx
  BY Zenon, <1>1 DEF IInv, OneRequest
<1>3. job.result \in Result /\ job.result # None
  <2>1. job.result \in Result
    BY Zenon, <1>1 DEF IInv, TypeOK, Job
  <2> QED
    BY Zenon, <2>1, ConfigAssumption
<1>4. DiskFrontier' = DiskFrontier
  BY Zenon, <1>1, <1>2, <1>3 DEF DiskFrontier
<1>5. OneRequest' /\ SaveExtendsDisk' /\ RemoveKeepsNeeded' /\ HandoffExclusive'
  BY Zenon, <1>1, <1>2, <1>3 DEF IInv, OneRequest, SaveExtendsDisk, RemoveKeepsNeeded, HandoffExclusive
<1>6. TypeOK'
  BY Zenon, <1>1, <1>3 DEF IInv, TypeOK
<1>7. DiskMatchesFrontier' /\ HeadOnFrontier' /\ StaleDiskInTree' /\ CanonicalReadable'
  BY Zenon, <1>1, <1>4 DEF IInv, DiskMatchesFrontier, HeadOnFrontier, StaleDiskInTree, CanonicalReadable
<1> QED
  BY Zenon, <1>1, <1>5, <1>6, <1>7 DEF IInv

-----------------------------------------------------------------------------
(***************************************************************************)
(* Starting and restarting.                                                *)
(***************************************************************************)

LEMMA StartFacts ==
  ASSUME NEW b, b \in Block, disk = chain[b], dbTip = number[b], dbTrie = number[b],
         tree = {}, linked = {}, mem = {}, finalized = None, head = b, lastPersisted = b, lastTrie = b,
         rx = FALSE, handoff = None, job = None, reply = None,
         builds = 0, dropping = 0, token = FALSE, pc = "loop"
  PROVE  IInv
<1>1. DiskFrontier = [block |-> b, trie |-> b]
  BY Zenon DEF DiskFrontier
<1>2. DiskFrontier.block = b /\ DiskFrontier.trie = b
  BY Zenon, <1>1
<1>3. TypeOK
  BY Zenon, ChainFacts DEF TypeOK
<1>4. OneRequest /\ SaveExtendsDisk /\ RemoveKeepsNeeded /\ HandoffExclusive
  BY Zenon DEF OneRequest, SaveExtendsDisk, RemoveKeepsNeeded, HandoffExclusive
<1>5. DiskMatchesFrontier /\ HeadOnFrontier /\ StaleDiskInTree /\ CanonicalReadable
  BY Zenon, <1>2, ChainFacts DEF DiskMatchesFrontier, HeadOnFrontier, StaleDiskInTree, CanonicalReadable
<1> QED
  BY Zenon, <1>3, <1>4, <1>5 DEF IInv

LEMMA RestartStep ==
  ASSUME IInv, Restart
  PROVE  IInv'
<1> DEFINE p == DiskFrontier.block
           t == DiskFrontier.trie
           b == DiskBlock(dbTrie)
<1>1. Core(p, t)
  BY Zenon, CoreFacts
<1>2. p \in Block /\ t \in Block /\ t \in chain[p] /\ disk = chain[p] /\ dbTrie = number[t]
      /\ number[t] \in Nat /\ number[t] <= number[p]
  BY Zenon, <1>1, ChainFacts DEF Core
<1>3. b = t
  BY Zenon, <1>1, <1>2, DiskBlockFacts
<1>4. /\ disk' = {x \in disk : number[x] <= dbTrie}
      /\ dbTip' = dbTrie /\ dbTrie' = dbTrie
      /\ tree' = {} /\ linked' = {} /\ mem' = {} /\ finalized' = None
      /\ head' = t /\ lastPersisted' = t /\ lastTrie' = t
      /\ rx' = FALSE /\ handoff' = None /\ job' = None /\ reply' = None
      /\ builds' = 0 /\ dropping' = 0 /\ token' = FALSE
      /\ pc' = "loop"
  BY Zenon, <1>3 DEF Restart
<1> HIDE DEF p, t, b
<1>5. disk' = chain[t]
  <2>1. \A x \in chain[p] : number[x] <= number[t] <=> x \in chain[t]
    BY Zenon, <1>2, ChainFacts
  <2>2. chain[t] \subseteq chain[p]
    BY Zenon, <1>2, ChainFacts
  <2> QED
    BY Zenon, <2>1, <2>2, <1>2, <1>4
<1>6. DiskFrontier' = [block |-> t, trie |-> t]
  BY Zenon, <1>4 DEF DiskFrontier
<1>7. TypeOK'
  BY Zenon, <1>2, <1>4, <1>5, ChainFacts DEF TypeOK
<1>8. OneRequest' /\ SaveExtendsDisk' /\ RemoveKeepsNeeded' /\ HandoffExclusive'
  BY Zenon, <1>4 DEF OneRequest, SaveExtendsDisk, RemoveKeepsNeeded, HandoffExclusive
<1>9. t \in chain[t]
  BY Zenon, <1>2, ChainFacts
<1>10. /\ chain[head'] \subseteq tree' \cup chain[t]
       /\ chain[t] \ chain[head'] \subseteq tree'
       /\ mem' \subseteq chain[head'] /\ chain[head'] \subseteq mem' \cup disk'
       /\ Genesis \notin tree' /\ dbTip' = number[t] /\ dbTrie' = number[t]
       /\ pc' # "failed" /\ pc' # "terminated" /\ pc' # "terminating"
  BY Zenon, <1>2, <1>4, <1>5
<1> QED
  BY Zenon, <1>2, <1>5, <1>6, <1>7, <1>8, <1>9, <1>10, IInvIntro

----------------------------------------------------------------------------
(***************************************************************************)
(* IInv holds at the start and every step of Next preserves it.            *)
(***************************************************************************)

LEMMA InitIInv == Init => IInv
BY Zenon, StartFacts, BlockTreeAssumption DEF Init, StartFrom

LEMMA AdvancePersistenceStep ==
  ASSUME IInv, AdvancePersistence
  PROVE  IInv'
<1>1. CASE AdvanceBusy
  <2>1. TypeOK' /\ pc' = "loop" /\ UNCHANGED <<tree, linked, head, mem, persistVars, job, reply, dbVars>>
    BY Zenon, <1>1 DEF AdvanceBusy, IInv, TypeOK, treeVars, persistVars, dbVars, buildVars
  <2> QED
    BY Zenon, <2>1, QuietStep
<1>2. CASE AdvanceRemove
  BY Zenon, <1>2, UnwindDiskStep DEF AdvanceRemove
<1>3. CASE AdvanceSave
  BY Zenon, <1>3, PersistBlocksStep DEF AdvanceSave
<1>4. CASE AdvanceNothing
  <2>1. WalkFinds(lastPersisted)
    BY Zenon, <1>4, IdleFacts, WalkSucceeds DEF AdvanceNothing
  <2>2. TypeOK' /\ pc' = "loop" /\ UNCHANGED <<tree, linked, head, mem, persistVars, job, reply, dbVars>>
    BY Zenon, <1>4, <2>1 DEF AdvanceNothing, IInv, TypeOK, treeVars, persistVars, dbVars, buildVars
  <2> QED
    BY Zenon, <2>2, QuietStep
<1> QED
  BY Zenon, <1>1, <1>2, <1>3, <1>4 DEF AdvancePersistence

LEMMA TerminateStep ==
  ASSUME IInv, Terminate
  PROVE  IInv'
<1>1. handoff = None
  BY Zenon DEF IInv, Terminate, TerminateWait, TerminateRemove, TerminateSave, TerminateDone
<1>2. CASE TerminateWait
  <2>1. /\ FinishPersistence /\ rx' = FALSE /\ handoff' = None /\ pc' = pc
        /\ UNCHANGED <<tree, linked, head, finalized, mem, job, dbVars, buildVars>>
    BY Zenon, <1>1, <1>2 DEF TerminateWait, treeVars
  <2> QED
    BY Zenon, <2>1, FinishStep
<1>3. CASE TerminateRemove
  BY Zenon, <1>1, <1>3, UnwindDiskStep DEF TerminateRemove
<1>4. CASE TerminateSave
  BY Zenon, <1>1, <1>4, PersistBlocksStep DEF TerminateSave
<1>5. CASE TerminateDone
  <2>1. ~rx /\ ~DiskReorg(lastPersisted) /\ ~SaveWanted("head")
    BY Zenon, <1>5 DEF TerminateDone
  <2>2. Core(lastPersisted, lastTrie)
    BY Zenon, <2>1, IdleFacts
  <2>3. WalkFinds(lastPersisted)
    BY Zenon, <2>2, WalkSucceeds
  <2>4. lastPersisted = head /\ lastTrie = head
    <3>1. number[head] = number[lastPersisted] /\ number[head] = number[lastTrie]
      BY Zenon, <2>1 DEF SaveWanted
    <3>2. lastPersisted \in chain[head] /\ lastTrie \in chain[head] /\ head \in chain[head]
      BY Zenon, <2>1, <2>2, ChainFacts DEF DiskReorg, Core
    <3> QED
      BY Zenon, <3>1, <3>2, <2>2, ChainFacts DEF Core
  <2>5. /\ TypeOK' /\ pc' = "terminated"
        /\ UNCHANGED <<tree, linked, head, mem, persistVars, job, reply, dbVars>>
    BY Zenon, <1>5, <2>3 DEF TerminateDone, IInv, TypeOK, treeVars, persistVars, dbVars, buildVars
  <2>6. UNCHANGED <<rx, lastPersisted, lastTrie, head>>
    BY Zenon, <2>5 DEF persistVars
  <2> QED
    BY Zenon, <2>1, <2>4, <2>5, <2>6, QuietStep
<1> QED
  BY Zenon, <1>2, <1>3, <1>4, <1>5 DEF Terminate

\* the steps that leave the tree, the frontiers and the database alone
LEMMA QuietActions ==
  ASSUME IInv,
         \/ Receive
         \/ MessageHandled
         \/ StartPayloadJob
         \/ DropLease
         \/ NotifyFinished
         \/ \E f \in Block \cup {None} : ForkchoiceValid(f)
         \/ pc = "await" /\ pc' = "handle"
              /\ UNCHANGED <<treeVars, persistVars, job, reply, dbVars, buildVars>>
  PROVE  IInv'
<1>1. UNCHANGED <<tree, linked, head, mem, persistVars, job, reply, dbVars>>
  BY Zenon DEF Receive, MessageHandled, StartPayloadJob, DropLease, NotifyFinished, ForkchoiceValid,
         treeVars
<1>2. TypeOK'
  <2>1. UNCHANGED <<tree, linked, head, mem, lastPersisted, lastTrie, rx, handoff, job, reply, disk,
                    dbTip, dbTrie>>
    BY Zenon, <1>1 DEF persistVars, dbVars
  <2>2. finalized' \in Block \cup {None} /\ builds' \in Nat /\ dropping' \in Nat
    <3>1. builds \in Nat /\ dropping \in Nat /\ finalized \in Block \cup {None}
      BY Zenon DEF IInv, TypeOK
    <3> QED
      BY <3>1 DEF Receive, MessageHandled, StartPayloadJob, DropLease, NotifyFinished,
                  ForkchoiceValid, treeVars, buildVars
  <2>3. token' \in BOOLEAN
    <3>1. token' = token \/ token' = TRUE
      BY Zenon DEF Receive, MessageHandled, StartPayloadJob, DropLease, NotifyFinished,
             ForkchoiceValid, buildVars
    <3> QED
      BY Zenon, <3>1 DEF IInv, TypeOK
  <2>4. pc' = pc \/ pc' \in {"handle", "await", "terminating", "advance"}
    BY Zenon DEF Receive, MessageHandled, StartPayloadJob, DropLease, NotifyFinished, ForkchoiceValid
  <2> QED
    BY Zenon, <2>1, <2>2, <2>3, <2>4 DEF IInv, TypeOK
<1>3. UNCHANGED <<rx, handoff, lastPersisted, lastTrie, head>>
  BY Zenon, <1>1 DEF persistVars
<1>4. /\ pc' # "failed"
      /\ pc' = "terminating" => handoff' = None
      /\ pc' = "terminated" => ~rx' /\ lastPersisted' = head' /\ lastTrie' = head'
  BY Zenon, <1>3 DEF IInv, Receive, MayReceive, MessageHandled, StartPayloadJob, DropLease,
              NotifyFinished, ForkchoiceValid
<1> QED
  BY Zenon, <1>1, <1>2, <1>4, QuietStep

LEMMA NextIInv ==
  ASSUME IInv, [Next]_vars
  PROVE  IInv'
<1>1. CASE EngineLoop
  <2>1. CASE PersistenceComplete
    BY Zenon, <2>1, OnPersistenceCompleteStep DEF PersistenceComplete
  <2>2. CASE PayloadBuildFinished
    BY Zenon, <2>2, PayloadBuildFinishedStep
  <2>3. CASE AwaitPersistence
    BY Zenon, <2>3, OnPersistenceCompleteStep, QuietActions DEF AwaitPersistence
  <2>4. CASE MessageHandled
    BY Zenon, <2>4, QuietActions
  <2>5. CASE AdvancePersistence
    BY Zenon, <2>5, AdvancePersistenceStep
  <2>6. CASE Terminate
    BY Zenon, <2>6, TerminateStep
  <2> QED
    BY Zenon, <1>1, <2>1, <2>2, <2>3, <2>4, <2>5, <2>6 DEF EngineLoop
<1>2. CASE \E b \in Block : InsertExecuted(b)
  BY Zenon, <1>2, InsertExecutedStep
<1>3. CASE \E h \in Block : CanonicalChainUpdate(h)
  BY Zenon, <1>3, CanonicalChainUpdateStep
<1>4. CASE Receive \/ StartPayloadJob \/ DropLease \/ NotifyFinished
             \/ \E f \in Block \cup {None} : ForkchoiceValid(f)
  BY Zenon, <1>4, QuietActions
<1>5. CASE PersistenceService
  BY Zenon, <1>5, ServiceSaveStep, ServiceRemoveStep, ServiceReplyStep DEF PersistenceService
<1>6. CASE Restart
  BY Zenon, <1>6, RestartStep
<1>7. CASE UNCHANGED vars
  <2>1. UNCHANGED <<tree, linked, head, mem, persistVars, job, reply, dbVars, pc, rx, handoff,
                    lastPersisted, lastTrie>>
    BY Zenon, <1>7 DEF vars, persistVars, dbVars
  <2>2. TypeOK'
    BY Zenon, <1>7 DEF vars, IInv, TypeOK
  <2> QED
    BY Zenon, <2>1, <2>2, QuietStep DEF IInv
<1> QED
  BY Zenon, <1>1, <1>2, <1>3, <1>4, <1>5, <1>6, <1>7 DEF Next

----------------------------------------------------------------------------
(***************************************************************************)
(* The tree, memory and the database stay in the relation IInv states,     *)
(* whatever reorgs, saves, unwinds, evictions and restarts interleave      *)
(* between the engine thread and the persistence thread.                   *)
(***************************************************************************)
THEOREM EnginePersistenceInvariant == Spec => []IInv
<1>1. Init => IInv
  BY Zenon, InitIInv
<1>2. IInv /\ [Next]_vars => IInv'
  BY Zenon, NextIInv
<1> QED
  BY <1>1, <1>2, PTL DEF Spec

(***************************************************************************)
(* The variables keep their types.                                         *)
(***************************************************************************)
THEOREM TypeCorrect == Spec => []TypeOK
<1>1. IInv => TypeOK
  BY Zenon DEF IInv
<1> QED
  BY <1>1, EnginePersistenceInvariant, PTL

(***************************************************************************)
(* No walk of the engine misses a header, no SaveBlocksInput is malformed, *)
(* and no request finds the database where the engine did not expect it.   *)
(***************************************************************************)
THEOREM NeverFails == Spec => []EngineNeverFails
<1>1. IInv => EngineNeverFails
  BY Zenon DEF IInv, EngineNeverFails
<1> QED
  BY <1>1, EnginePersistenceInvariant, PTL

(***************************************************************************)
(* Saves and unwinds keep the database the chain of one block.             *)
(***************************************************************************)
THEOREM OneChainOnDisk == Spec => []DiskIsOneChain
<1>1. IInv => DiskIsOneChain
  <2> SUFFICES ASSUME IInv PROVE DiskIsOneChain
    BY Zenon
  <2>1. Core(DiskFrontier.block, DiskFrontier.trie)
    BY Zenon, CoreFacts
  <2> QED
    BY Zenon, <2>1, ChainFacts DEF Core, DiskIsOneChain
<1> QED
  BY <1>1, EnginePersistenceInvariant, PTL

(***************************************************************************)
(* Eviction and unwinding never lose a canonical block.                    *)
(***************************************************************************)
THEOREM CanonicalChainReadable == Spec => []CanonicalReadable
<1>1. IInv => CanonicalReadable
  BY Zenon DEF IInv
<1> QED
  BY <1>1, EnginePersistenceInvariant, PTL

(***************************************************************************)
(* Every canonical block is executed in the tree or on disk with its trie: *)
(* remove_until and the unwinds leave no hole in the canonical chain.      *)
(***************************************************************************)
THEOREM CanonicalChainExecutable == Spec => []CanonicalExecutable
<1>1. IInv => CanonicalExecutable
  <2> SUFFICES ASSUME IInv, NEW b \in chain[head], b \notin tree
               PROVE  b \in disk /\ number[b] <= dbTrie
    BY Zenon DEF CanonicalExecutable
  <2>1. Core(DiskFrontier.block, DiskFrontier.trie)
    BY Zenon, CoreFacts
  <2> QED
    BY Zenon, <2>1, ChainFacts DEF Core
<1> QED
  BY <1>1, EnginePersistenceInvariant, PTL

(***************************************************************************)
(* A deferred handoff stays current and excludes new persistence tasks.    *)
(***************************************************************************)
THEOREM DeferredHandoffExclusive == Spec => []HandoffExclusive
<1>1. IInv => HandoffExclusive
  BY Zenon DEF IInv
<1> QED
  BY <1>1, EnginePersistenceInvariant, PTL

(***************************************************************************)
(* After an acknowledged Terminate the canonical chain is on disk.         *)
(***************************************************************************)
THEOREM ShutdownPersistsHead == Spec => []ShutdownComplete
<1>1. IInv => ShutdownComplete
  <2> SUFFICES ASSUME IInv, pc = "terminated" PROVE disk = chain[head] /\ dbTip = dbTrie
    BY Zenon DEF ShutdownComplete
  <2>1. ~rx /\ lastPersisted = head /\ lastTrie = head
    BY Zenon DEF IInv
  <2> QED
    BY Zenon, <2>1, IdleFacts DEF Core
<1> QED
  BY <1>1, EnginePersistenceInvariant, PTL
=============================================================================
