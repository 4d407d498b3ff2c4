--------------------- MODULE MCJellyfishMerkleRefinement ---------------------
(***************************************************************************)
(* The tree, its TreeCache and its MockTreeStore implement VersionedKV.   *)
(*                                                                         *)
(* purge_stale_nodes(least_readable_version) keeps no record of its       *)
(* argument, so the history variable lastPurge records it: the abstract   *)
(* Prune must then drop exactly the versions below the l the code was     *)
(* given, not those below some other l that happens to fit.               *)
(***************************************************************************)
EXTENDS MCJellyfishMerkle

VARIABLE lastPurge \* the least_readable_version of the last purge_stale_nodes

hvars == <<vars, lastPurge>>

HInit == Init /\ lastPurge = 0

HNext ==
  \/ BeginBatch /\ UNCHANGED lastPurge
  \/ \E k \in Keys, x \in Values : Put(k, x) /\ UNCHANGED lastPurge
  \/ FreezeSet /\ UNCHANGED lastPurge
  \/ CommitBatch /\ UNCHANGED lastPurge
  \/ DiscardBatch /\ UNCHANGED lastPurge
  \/ \E l \in 0 .. MaxVersion : Purge(l) /\ lastPurge' = l

HSpec == HInit /\ [][HNext]_hvars

KV == INSTANCE VersionedKV WITH
  readable <- [v \in RootVersions |-> Content(store, RootKey(v))],
  staged   <- IF cache = NoCache THEN <<>>
              ELSE [i \in 1 .. StagedCount |->
                      Content(CacheNodes, RootKey(cache.first + i - 1))],
  open     <- cache # NoCache /\ setSize > 0,
  busy     <- cache # NoCache,
  pruned   <- lastPurge

\* What every reader sees is VersionedKV: a published version never
\* changes, and purge_stale_nodes(l) drops exactly the versions below l
\* but the newest, keeping l readable (its take_while stops at
\* stale_since_version <= l).  A batch is written in one step here, so
\* that it appears all at once is assumed, not checked.
ImplementsVersionedKV == KV!Spec

=============================================================================
