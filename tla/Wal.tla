--------------------------------- MODULE Wal --------------------------------
(***************************************************************************)
(* The write-ahead log of the execution extensions (crates/exex/exex):     *)
(* files with one notification each, and the cache that finds the file of  *)
(* a committed block.                                                      *)
(***************************************************************************)
EXTENDS ExExNotification, FiniteSets, FiniteSetsExt, MapOfSets

EmptyWal == [files |-> EmptyMap, cache |-> EmptyMap, next |-> 0]

\* insert_notification_blocks_with_file_id, for the notifications of ns that get a file id: a
\* block is found in the last of them that has it
CacheBlocks(cache, ns, id) ==
  LET has(b) == {i \in DOMAIN id : b \in ns[i].n.new}
  IN  [b \in DOMAIN cache \cup UNION {ns[i].n.new : i \in DOMAIN id} |->
         IF has(b) = {} THEN cache[b] ELSE id[Max(has(b))]]

\* Wal::commit, in turn for some of the notifications ns
Commit(w, ns, some) ==
  LET id == [i \in some |-> w.next + Cardinality({j \in some : j < i})]
  IN  [files |-> [k \in DOMAIN w.files \cup {id[i] : i \in some} |->
                    IF k < w.next THEN w.files[k] ELSE ns[CHOOSE i \in some : id[i] = k].n],
       cache |-> CacheBlocks(w.cache, ns, id),
       next |-> w.next + Cardinality(some)]

\* remove_before: the files with no block above the given number
Removable(w, num) == {i \in DOMAIN w.files : MaxBlock(w.files[i]) <= num}

\* the log without some of its files
RemoveFiles(w, ids) ==
  [w EXCEPT !.files = Restrict(@, DOMAIN @ \ ids),
            !.cache = Restrict(@, {b \in DOMAIN @ : @[b] \notin ids})]

\* fill_block_cache, from the files that are there
Reload(w) ==
  LET has(b) == {i \in DOMAIN w.files : b \in w.files[i].new}
  IN  [files |-> w.files,
       cache |-> [b \in {c \in Block : has(c) # {}} |-> Max(has(b))],
       next |-> IF DOMAIN w.files = {} THEN 0 ELSE Max(DOMAIN w.files) + 1]

\* get_committed_notification_by_block_hash
CommittedBy(w, b) == IF b \in DOMAIN w.cache THEN w.files[w.cache[b]] ELSE None
=============================================================================
