--------------------------- MODULE JellyfishMerkle ---------------------------
(***************************************************************************)
(* The Jellyfish Merkle tree of                                           *)
(*   src/crates/mazzecore/core/src/pos/storage/jellyfish-merkle/src/lib.rs *)
(* over the MockTreeStore of mock_tree_store.rs in the same directory.    *)
(*                                                                         *)
(* Data abstraction: a key is a sequence of KeyLen nibbles, and a nibble  *)
(* is one bit, so an internal node has two slots instead of sixteen and a *)
(* key has KeyLen nibbles instead of ROOT_NIBBLE_HEIGHT = 64.  The        *)
(* algorithms are generic in both.  A hash is the injective term built    *)
(* from what the hash function is applied to.                             *)
(*                                                                         *)
(* The writer builds a TreeUpdateBatch one `put` at a time in a private   *)
(* TreeCache (put_value_sets), which reads the store lazily; the store    *)
(* writes a committed batch and purges stale nodes; readers traverse the  *)
(* store.  TreeCache, NodeKey, Node and the proof checker live outside    *)
(* src/ and are modelled from spec.md section 4.1 (marked spec_modelled). *)
(***************************************************************************)
EXTENDS Naturals, SequencesExt, FiniteSets, FiniteSetsExt, Functions, TLC

CONSTANTS
  KeyLen,          \* nibbles per key (ROOT_NIBBLE_HEIGHT)
  Keys,            \* the keys that may be written, each a nibble sequence
  Values,          \* the values that may be written
  NoValue,         \* "no value" in a read result
  Placeholder,     \* SPARSE_MERKLE_PLACEHOLDER_HASH, the hash of nothing
  NoCache,         \* the writer holds no TreeCache
  MaxVersion,      \* bound: highest version a batch may write
  MaxSetSize,      \* bound: puts per write set
  MaxSetsPerBatch  \* bound: write sets per put_value_sets call

\* One bit per nibble.
Nibbles == {0, 1}

ASSUME KeyLen \in Nat \ {0}
ASSUME Keys \subseteq [1 .. KeyLen -> Nibbles]
ASSUME NoValue \notin Values
ASSUME MaxSetSize >= 1 /\ MaxSetsPerBatch >= 1

VARIABLES
  store,       \* MockTreeStore data.0: NodeKey -> Node
  staleIndex,  \* MockTreeStore data.1: the set of StaleNodeIndex records
  cache,       \* the TreeCache of the put_value_sets call in progress
  setSize,     \* puts applied to the current write set (0: none, or frozen)
  failure      \* history: which operation last returned an error

vars == <<store, staleIndex, cache, setSize, failure>>

-----------------------------------------------------------------------------
(* Nodes, node keys and hashes (node_type.rs, spec.md 3).                  *)

NodeKey(v, p) == [version |-> v, path |-> p]
RootKey(v) == NodeKey(v, <<>>)                       \* new_empty_path
ChildKey(nk, v, i) == NodeKey(v, Append(nk.path, i)) \* gen_child_node_key

NullNode == [type |-> "Null"]
Missing == [type |-> "Missing"]                      \* absent from storage
NoChild == [type |-> "NoChild"]
LeafNode(k, x) == [type |-> "Leaf", key |-> k, value |-> x]
InternalNode(ch) == [type |-> "Internal", children |-> ch]

LeafHash(k, x) == <<"leaf", k, x>>
MerkleHash(h) == <<"internal", h>>   \* h: nibble -> hash of that subtree

NodeHash(n) ==
  CASE n.type = "Leaf" -> LeafHash(n.key, n.value)
    [] n.type = "Internal" ->
         MerkleHash([i \in Nibbles |-> IF n.children[i] = NoChild
                                       THEN Placeholder
                                       ELSE n.children[i].hash])
    [] OTHER -> Placeholder

Child(n, v) == [hash |-> NodeHash(n), version |-> v, isLeaf |-> n.type = "Leaf"]

Occupied(n) == {i \in Nibbles : n.children[i] # NoChild}

-----------------------------------------------------------------------------
(* TreeCache (tree_cache.rs, spec.md 4.1).  `ok` turns FALSE when a      *)
(* cache operation fails; the put then returns Err and the call aborts.  *)

EmptyNodes == [nk \in {} |-> NullNode]

\* TreeCache::new: the root of the version before `first`; an empty tree
\* starts from a Null root staged at version 0.
NewTreeCache(first) ==
  [ nodeCache   |-> IF first = 0 THEN RootKey(0) :> NullNode ELSE EmptyNodes,
    staleCache  |-> {},
    frozenNodes |-> EmptyNodes,
    frozenStale |-> {},
    root        |-> RootKey(IF first = 0 THEN 0 ELSE first - 1),
    first       |-> first,
    nextVersion |-> first,
    ok          |-> TRUE ]

Fail(c) == [c EXCEPT !.ok = FALSE]

\* get_node: this version's nodes, then frozen versions, then storage.
GetNode(c, nk) ==
  CASE nk \in DOMAIN c.nodeCache   -> c.nodeCache[nk]
    [] nk \in DOMAIN c.frozenNodes -> c.frozenNodes[nk]
    [] nk \in DOMAIN store         -> store[nk]
    [] OTHER                       -> Missing

\* put_node: a key already staged in this version is a logic error.
PutNode(c, nk, n) ==
  IF ~c.ok \/ nk \in DOMAIN c.nodeCache THEN Fail(c)
  ELSE [c EXCEPT !.nodeCache = @ @@ (nk :> n)]

\* delete_node: a node staged in this version is simply dropped; any other
\* node becomes stale (and must not become stale twice).
DeleteNode(c, nk) ==
  CASE ~c.ok -> c
    [] nk \in DOMAIN c.nodeCache ->
         [c EXCEPT !.nodeCache = Restrict(@, DOMAIN @ \ {nk})]
    [] nk \in c.staleCache -> Fail(c)
    [] OTHER -> [c EXCEPT !.staleCache = @ \cup {nk}]

\* freeze: seal this version; its stale nodes are stale since it.
Freeze(c) ==
  [c EXCEPT !.frozenNodes = @ @@ c.nodeCache,
            !.nodeCache   = EmptyNodes,
            !.frozenStale = @ \cup {[staleSince |-> c.nextVersion, nodeKey |-> nk]
                                     : nk \in c.staleCache},
            !.staleCache  = {},
            !.nextVersion = @ + 1]

-----------------------------------------------------------------------------
(* The insertion algorithm (lib.rs).  The nibble iterator is the key and  *)
(* the number of nibbles visited.  Each operator returns the cache, the   *)
(* new node's key and the new node.                                      *)

Result(c, nk, n) == [cache |-> c, nk |-> nk, node |-> n]
Failed(c, nk) == Result(Fail(c), nk, NullNode)

create_leaf_node(c, nk, key, x) ==
  Result(PutNode(c, nk, LeafNode(key, x)), nk, LeafNode(key, x))

\* skip_common_prefix below the current position: how many more nibbles the
\* incoming key shares with the existing leaf's key.
CommonNibblesBelow(key, other, pos) ==
  Max({m \in 0 .. (KeyLen - pos) :
         \A j \in (pos + 1) .. (pos + m) : key[j] = other[j]})

\* The run of single-child internal nodes from the fork back up to the
\* position of the replaced leaf, built bottom-up.
RECURSIVE WrapCommonNibbles(_, _, _, _, _)
WrapCommonNibbles(c, v, path, n, count) ==
  IF count = 0 THEN Result(c, NodeKey(v, path), n)
  ELSE LET up     == SubSeq(path, 1, Len(path) - 1)
           parent == InternalNode([j \in Nibbles |->
                       IF j = path[Len(path)] THEN Child(n, v) ELSE NoChild])
       IN WrapCommonNibbles(PutNode(c, NodeKey(v, up), parent), v, up,
                            parent, count - 1)

RECURSIVE insert_at(_, _, _, _, _, _),
          insert_at_internal_node(_, _, _, _, _, _, _),
          insert_at_internal_node_stale_hash(_, _, _, _, _, _, _)

insert_at_leaf_node(c, nk, leaf, v, key, pos, x) ==
  LET c1     == DeleteNode(c, nk)
      n      == CommonNibblesBelow(key, leaf.key, pos)
      split  == pos + n
      fork   == NodeKey(v, SubSeq(key, 1, split))
      e      == leaf.key[split + 1]
      i      == key[split + 1]
      c2     == PutNode(c1, ChildKey(fork, v, e), leaf)
      r      == create_leaf_node(c2, ChildKey(fork, v, i), key, x)
      inner  == InternalNode([j \in Nibbles |->
                  CASE j = e -> Child(leaf, v)
                    [] j = i -> Child(r.node, v)
                    [] OTHER -> NoChild])
  IN CASE SubSeq(leaf.key, 1, pos) # SubSeq(key, 1, pos) -> Failed(c1, nk)
       [] split = KeyLen ->
            create_leaf_node(c1, [nk EXCEPT !.version = v], key, x)
       [] OTHER ->
            WrapCommonNibbles(PutNode(r.cache, fork, inner), v, fork.path,
                              inner, n)

\* Fault: the rebuilt internal node keeps its old version (set_version dropped).
insert_at_internal_node_keeps_version(c, nk, node, v, key, pos, x) ==
  LET c1    == DeleteNode(c, nk)
      i     == key[pos + 1]
      child == node.children[i]
      r     == IF child # NoChild
               THEN insert_at(c1, ChildKey(nk, child.version, i), v, key,
                              pos + 1, x)
               ELSE create_leaf_node(c1, ChildKey(nk, v, i), key, x)
      new   == InternalNode([node.children EXCEPT ![i] = Child(r.node, v)])
      newKey == nk
  IN IF pos = KeyLen THEN Failed(c1, nk)
     ELSE Result(PutNode(r.cache, newKey, new), newKey, new)

\* Fault: a rewritten child keeps the hash it had before the insertion.
insert_at_internal_node_stale_hash(c, nk, node, v, key, pos, x) ==
  LET c1    == DeleteNode(c, nk)
      i     == key[pos + 1]
      child == node.children[i]
      r     == IF child # NoChild
               THEN insert_at(c1, ChildKey(nk, child.version, i), v, key,
                              pos + 1, x)
               ELSE create_leaf_node(c1, ChildKey(nk, v, i), key, x)
      new   == InternalNode([node.children EXCEPT ![i] =
                 IF child # NoChild THEN [child EXCEPT !.version = v]
                 ELSE Child(r.node, v)])
      newKey == [nk EXCEPT !.version = v]
  IN IF pos = KeyLen THEN Failed(c1, nk)
     ELSE Result(PutNode(r.cache, newKey, new), newKey, new)

insert_at_internal_node(c, nk, node, v, key, pos, x) ==
  LET c1    == DeleteNode(c, nk)
      i     == key[pos + 1]
      child == node.children[i]
      r     == IF child # NoChild
               THEN insert_at(c1, ChildKey(nk, child.version, i), v, key,
                              pos + 1, x)
               ELSE create_leaf_node(c1, ChildKey(nk, v, i), key, x)
      new   == InternalNode([node.children EXCEPT ![i] = Child(r.node, v)])
      newKey == [nk EXCEPT !.version = v]
  IN IF pos = KeyLen THEN Failed(c1, nk)
     ELSE Result(PutNode(r.cache, newKey, new), newKey, new)

\* Fault: a Null root staged in this version is not deleted before the leaf
\* replaces it.
insert_at_keeps_null(c, nk, v, key, pos, x) ==
  LET node == GetNode(c, nk) IN
  CASE ~c.ok \/ node = Missing -> Failed(c, nk)
    [] node.type = "Internal" ->
         insert_at_internal_node(c, nk, node, v, key, pos, x)
    [] node.type = "Leaf" ->
         insert_at_leaf_node(c, nk, node, v, key, pos, x)
    [] nk.path # <<>> -> Failed(c, nk)
    [] OTHER ->
         create_leaf_node(c,
                          RootKey(v), key, x)

insert_at(c, nk, v, key, pos, x) ==
  LET node == GetNode(c, nk) IN
  CASE ~c.ok \/ node = Missing -> Failed(c, nk)
    [] node.type = "Internal" ->
         insert_at_internal_node(c, nk, node, v, key, pos, x)
    [] node.type = "Leaf" ->
         insert_at_leaf_node(c, nk, node, v, key, pos, x)
    [] nk.path # <<>> -> Failed(c, nk)
    [] OTHER ->
         create_leaf_node(IF nk.version = v THEN DeleteNode(c, nk) ELSE c,
                          RootKey(v), key, x)

put(c, key, x) ==
  LET r == insert_at(c, c.root, c.nextVersion, key, 0, x)
  IN [r.cache EXCEPT !.root = r.nk]


-----------------------------------------------------------------------------
(* Storage order: BTreeMap<NodeKey, _> and BTreeSet<StaleNodeIndex> are   *)
(* walked by (version, path) and by (stale_since_version, node_key).      *)

PathLess(p, q) ==
  \/ Len(p) < Len(q)
  \/ /\ Len(p) = Len(q)
     /\ \E j \in 1 .. Len(p) : p[j] < q[j] /\ \A m \in 1 .. (j - 1) : p[m] = q[m]

NodeKeyLess(a, b) ==
  \/ a.version < b.version
  \/ a.version = b.version /\ PathLess(a.path, b.path)

StaleLess(a, b) ==
  \/ a.staleSince < b.staleSince
  \/ a.staleSince = b.staleSince /\ NodeKeyLess(a.nodeKey, b.nodeKey)

\* The entries of S an in-order loop gets through before the first entry of
\* Bad, on which it returns Err.
NodesBefore(S, Bad) == {s \in S : \A b \in Bad : NodeKeyLess(s, b)}
StaleBefore(S, Bad) == {s \in S : \A b \in Bad : StaleLess(s, b)}

-----------------------------------------------------------------------------
(* Reading: get_with_proof, get_root_hash, and the proof checker.         *)

Lookup(nk) == IF nk \in DOMAIN store THEN store[nk] ELSE Missing

NoLeaf == [type |-> "NoLeaf"]
ReadOk(x, leaf, sibs) ==
  [ok |-> TRUE, value |-> x, leaf |-> leaf, siblings |-> sibs]
ReadErr == [ok |-> FALSE, value |-> NoValue, leaf |-> NoLeaf, siblings |-> <<>>]

\* get_child_with_siblings, one bit per nibble: the one sibling is the hash
\* of the other slot.
SiblingOf(n, i) ==
  LET o == CHOOSE j \in Nibbles : j # i
  IN IF n.children[o] = NoChild THEN Placeholder ELSE n.children[o].hash

\* The loop of get_with_proof from `depth` on; `sibs` are root-first, and
\* the proof carries them bottom-first.
\* Fault: the siblings are returned root-first, without siblings.reverse().
RECURSIVE GetWithProofFrom_unreversed(_, _, _, _)
GetWithProofFrom_unreversed(nk, key, depth, sibs) ==
  LET n == Lookup(nk) IN
  CASE depth > KeyLen -> ReadErr                  \* "cyclic graph inside"
    [] n = Missing -> ReadErr                      \* MissingRootError at depth 0
    [] n.type = "Internal" ->
         IF depth = KeyLen THEN ReadErr             \* "ran out of nibbles"
         ELSE LET i == key[depth + 1]
                  s == Append(sibs, SiblingOf(n, i))
              IN IF n.children[i] = NoChild
                 THEN ReadOk(NoValue, NoLeaf, s)
                 ELSE GetWithProofFrom_unreversed(ChildKey(nk, n.children[i].version, i),
                                                  key, depth + 1, s)
    [] n.type = "Leaf" ->
         ReadOk(IF n.key = key THEN n.value ELSE NoValue, n, sibs)
    [] depth = 0 -> ReadOk(NoValue, NoLeaf, <<>>)  \* empty tree
    [] OTHER -> ReadErr                            \* non-root Null node

RECURSIVE GetWithProofFrom(_, _, _, _)
GetWithProofFrom(nk, key, depth, sibs) ==
  LET n == Lookup(nk) IN
  CASE depth > KeyLen -> ReadErr                  \* "cyclic graph inside"
    [] n = Missing -> ReadErr                      \* MissingRootError at depth 0
    [] n.type = "Internal" ->
         IF depth = KeyLen THEN ReadErr             \* "ran out of nibbles"
         ELSE LET i == key[depth + 1]
                  s == Append(sibs, SiblingOf(n, i))
              IN IF n.children[i] = NoChild
                 THEN ReadOk(NoValue, NoLeaf, Reverse(s))
                 ELSE GetWithProofFrom(ChildKey(nk, n.children[i].version, i),
                                       key, depth + 1, s)
    [] n.type = "Leaf" ->
         ReadOk(IF n.key = key THEN n.value ELSE NoValue, n, Reverse(sibs))
    [] depth = 0 -> ReadOk(NoValue, NoLeaf, <<>>)  \* empty tree
    [] OTHER -> ReadErr                            \* non-root Null node

GetWithProof(key, v) == GetWithProofFrom(RootKey(v), key, 0, <<>>)

RootHash(v) == NodeHash(Lookup(RootKey(v)))       \* get_root_hash

\* Fault: the kept siblings are left root-first, without the second rev().
get_range_proof_root_first(key, v) ==
  LET r == GetWithProof(key, v)
      kept == SelectSeq(Zip(Reverse(r.siblings), key), LAMBDA p : p[2] = 0)
  IN IF ~r.ok \/ r.value = NoValue THEN [ok |-> FALSE, siblings |-> <<>>]
     ELSE [ok |-> TRUE, siblings |-> [j \in 1 .. Len(kept) |-> kept[j][1]]]

\* get_range_proof: get_with_proof of the rightmost key, which must exist;
\* its siblings root-first, zipped with the key's bits, keeping those
\* where the bit is 0 (the sibling is on the right), bottom-first again.
get_range_proof(key, v) ==
  LET r == GetWithProof(key, v)
      kept == SelectSeq(Zip(Reverse(r.siblings), key), LAMBDA p : p[2] = 0)
  IN IF ~r.ok \/ r.value = NoValue THEN [ok |-> FALSE, siblings |-> <<>>]
     ELSE [ok |-> TRUE, siblings |-> Reverse([j \in 1 .. Len(kept) |-> kept[j][1]])]

CommonPrefixLen(a, b) ==
  Max({m \in 0 .. KeyLen : \A j \in 1 .. m : a[j] = b[j]})

\* SparseMerkleProof::verify: hash from the terminal leaf (or nothing) up
\* through the siblings, taking the side from the key's bits.
RECURSIVE HashUp(_, _, _, _)
HashUp(h, key, sibs, j) ==
  IF j > Len(sibs) THEN h
  ELSE LET bit == key[Len(sibs) - j + 1]
       IN HashUp(MerkleHash([b \in Nibbles |-> IF b = bit THEN h ELSE sibs[j]]),
                 key, sibs, j + 1)

Verify(proof, key, x, expected) ==
  /\ Len(proof.siblings) <= KeyLen
  /\ CASE x # NoValue /\ proof.leaf # NoLeaf ->
            proof.leaf.key = key /\ proof.leaf.value = x
       [] x # NoValue -> FALSE
       [] proof.leaf # NoLeaf ->
            /\ proof.leaf.key # key
            /\ CommonPrefixLen(key, proof.leaf.key) >= Len(proof.siblings)
       [] OTHER -> TRUE
  /\ HashUp(IF proof.leaf = NoLeaf THEN Placeholder ELSE NodeHash(proof.leaf),
            key, proof.siblings, 1) = expected

-----------------------------------------------------------------------------
(* What a version holds, read off the nodes reachable from its root.      *)

RECURSIVE ReachableFrom(_, _)
ReachableFrom(nodes, nk) ==
  IF nk \notin DOMAIN nodes \/ nodes[nk].type # "Internal" THEN {nk}
  ELSE {nk} \cup UNION {ReachableFrom(nodes,
                          ChildKey(nk, nodes[nk].children[i].version, i))
                        : i \in Occupied(nodes[nk])}

Content(nodes, root) ==
  LET leaves == {nodes[nk] : nk \in {m \in ReachableFrom(nodes, root) \cap DOMAIN nodes :
                                        nodes[m].type = "Leaf"}}
  IN [k \in Keys |-> IF \E l \in leaves : l.key = k
                     THEN (CHOOSE l \in leaves : l.key = k).value
                     ELSE NoValue]

RootVersions == {nk.version : nk \in {m \in DOMAIN store : m.path = <<>>}}
LatestVersion == Max(RootVersions)
NextVersion == IF RootVersions = {} THEN 0 ELSE LatestVersion + 1

Reach(v) == ReachableFrom(store, RootKey(v))

\* The reference sparse Merkle hash of a snapshot: nothing hashes to the
\* placeholder, one key to its leaf, more keys to the hash of both halves.
RECURSIVE SubtreeHash(_, _)
SubtreeHash(snap, prefix) ==
  LET ks == {k \in Keys : snap[k] # NoValue /\ SubSeq(k, 1, Len(prefix)) = prefix}
  IN IF ks = {} THEN Placeholder
     ELSE IF Cardinality(ks) = 1
          THEN LET k == CHOOSE k \in ks : TRUE IN LeafHash(k, snap[k])
          ELSE MerkleHash([b \in Nibbles |-> SubtreeHash(snap, Append(prefix, b))])

-----------------------------------------------------------------------------
(* Actions.                                                                *)

Init ==
  /\ store = EmptyNodes
  /\ staleIndex = {}
  /\ cache = NoCache
  /\ setSize = 0
  /\ failure = "none"

\* put_value_sets starts: TreeCache::new at the next version to write.
BeginBatch ==
  /\ cache = NoCache
  /\ NextVersion <= MaxVersion
  /\ cache' = NewTreeCache(NextVersion)
  /\ setSize' = 0
  /\ UNCHANGED <<store, staleIndex, failure>>

\* One (key, value) of the current write set: put, the root becomes the new
\* node.  An Err aborts the whole call.
Put(k, x) ==
  /\ cache # NoCache
  /\ setSize < MaxSetSize
  /\ setSize = 0 => /\ cache.nextVersion - cache.first < MaxSetsPerBatch
                    /\ cache.nextVersion <= MaxVersion
  /\ LET c == put(cache, k, x) IN
       IF c.ok THEN /\ cache' = c
                    /\ setSize' = setSize + 1
                    /\ UNCHANGED failure
               ELSE /\ cache' = NoCache
                    /\ setSize' = 0
                    /\ failure' = "put"
  /\ UNCHANGED <<store, staleIndex>>

\* The end of a non-empty write set: the cache is frozen.
FreezeSet ==
  /\ cache # NoCache
  /\ setSize > 0
  /\ cache' = Freeze(cache)
  /\ setSize' = 0
  /\ UNCHANGED <<store, staleIndex, failure>>

\* put_value_sets returns the TreeUpdateBatch and the caller writes it with
\* write_tree_update_batch: nodes in key order, each refused if present,
\* then stale indices in order, each refused if present.
CommitBatch ==
  /\ cache # NoCache
  /\ setSize = 0
  /\ cache.nextVersion > cache.first
  /\ LET nodes    == cache.frozenNodes
         clash    == DOMAIN nodes \cap DOMAIN store
         written  == NodesBefore(DOMAIN nodes, clash)
         dup      == cache.frozenStale \cap staleIndex
         indexed  == IF clash = {} THEN StaleBefore(cache.frozenStale, dup)
                     ELSE {}
     IN /\ store' = store @@ Restrict(nodes, written)
        /\ staleIndex' = staleIndex \cup indexed
        /\ failure' = IF clash = {} /\ dup = {} THEN failure ELSE "write"
  /\ cache' = NoCache
  /\ UNCHANGED setSize

\* The caller drops a computed batch without writing it (speculative
\* execution that is not committed).
DiscardBatch ==
  /\ cache # NoCache
  /\ cache' = NoCache
  /\ setSize' = 0
  /\ UNCHANGED <<store, staleIndex, failure>>

\* purge_stale_nodes(l): under the write lock, every index entry with
\* stale_since_version <= l in order: remove its node (Err if absent), then
\* the entry.
\* Fault: purge removes the nodes but not their index entries.
Purge_keeps_index(l) ==
  /\ LET prune == {e \in staleIndex : e.staleSince <= l}
         bad   == {e \in prune : \/ e.nodeKey \notin DOMAIN store
                                 \/ \E d \in prune : StaleLess(d, e) /\ d.nodeKey = e.nodeKey}
         done  == StaleBefore(prune, bad)
         gone  == {e.nodeKey : e \in done}
     IN /\ store' = Restrict(store, DOMAIN store \ gone)
        /\ UNCHANGED staleIndex
        /\ failure' = IF bad = {} THEN failure ELSE "purge"
  /\ UNCHANGED <<cache, setSize>>

\* Fault: purge's take_while also takes the entries retired at l + 1.
Purge_drops_l(l) ==
  /\ LET prune == {e \in staleIndex : e.staleSince <= l + 1}
         bad   == {e \in prune : \/ e.nodeKey \notin DOMAIN store
                                 \/ \E d \in prune : StaleLess(d, e) /\ d.nodeKey = e.nodeKey}
         done  == StaleBefore(prune, bad)
         gone  == {e.nodeKey : e \in done}
     IN /\ store' = Restrict(store, DOMAIN store \ gone)
        /\ staleIndex' = staleIndex \ done
        /\ failure' = IF bad = {} THEN failure ELSE "purge"
  /\ UNCHANGED <<cache, setSize>>

Purge(l) ==
  /\ LET prune == {e \in staleIndex : e.staleSince <= l}
         bad   == {e \in prune : \/ e.nodeKey \notin DOMAIN store
                                 \/ \E d \in prune : StaleLess(d, e) /\ d.nodeKey = e.nodeKey}
         done  == StaleBefore(prune, bad)
         gone  == {e.nodeKey : e \in done}
     IN /\ store' = Restrict(store, DOMAIN store \ gone)
        /\ staleIndex' = staleIndex \ done
        /\ failure' = IF bad = {} THEN failure ELSE "purge"
  /\ UNCHANGED <<cache, setSize>>

Next ==
  \/ BeginBatch
  \/ \E k \in Keys, x \in Values : Put(k, x)
  \/ FreezeSet
  \/ CommitBatch
  \/ DiscardBatch
  \/ \E l \in 0 .. MaxVersion : Purge(l)

Spec == Init /\ [][Next]_vars

-----------------------------------------------------------------------------
(* Properties.                                                             *)

Versions == 0 .. MaxVersion
Paths == UNION {[1 .. n -> Nibbles] : n \in 0 .. KeyLen}
IsNodeKey(nk) == nk \in [version : Versions, path : Paths]
IsChild(ch) == ch = NoChild \/ (ch.version \in Versions /\ ch.isLeaf \in BOOLEAN)
IsNode(n) ==
  \/ n = NullNode
  \/ n.type = "Leaf" /\ n.key \in Keys /\ n.value \in Values
  \/ n.type = "Internal" /\ DOMAIN n.children = Nibbles
     /\ \A i \in Nibbles : IsChild(n.children[i])

TypeOK ==
  /\ \A nk \in DOMAIN store : IsNodeKey(nk) /\ IsNode(store[nk])
  /\ \A e \in staleIndex : e.staleSince \in Versions /\ IsNodeKey(e.nodeKey)
  /\ cache = NoCache \/ /\ cache.ok
                        /\ IsNodeKey(cache.root)
                        /\ cache.first <= cache.nextVersion
                        /\ \A nk \in DOMAIN cache.nodeCache :
                             nk.version = cache.nextVersion
  /\ setSize \in 0 .. MaxSetSize
  /\ failure \in {"none", "put", "write", "purge"}

\* Every readable version answers get_with_proof for every key with the
\* value the version's leaves hold, and the proof recomputes to that
\* version's get_root_hash while no other value passes the same proof
\* (spec P3, P4, scenarios B and D): insertion, traversal and purge agree.
ProofsVerify ==
  \A v \in RootVersions :
    LET snap == Content(store, RootKey(v)) IN
    \A k \in Keys :
      LET r == GetWithProof(k, v) IN
      /\ r.ok
      /\ r.value = snap[k]
      /\ Verify(r, k, r.value, RootHash(v))
      /\ \A y \in (Values \cup {NoValue}) \ {r.value} : ~Verify(r, k, y, RootHash(v))

\* The depth of k's leaf in the collapsed tree of snap: the shortest
\* prefix of k no other key of snap shares.
LeafDepth(snap, k) ==
  Min({m \in 0 .. KeyLen :
         \A o \in Keys \ {k} : snap[o] # NoValue => SubSeq(o, 1, m) # SubSeq(k, 1, m)})

\* The reference right siblings of k, bottom-first: at each depth above
\* its leaf where k goes left, the hash of everything to its right.
RightSiblings(snap, k) ==
  LET ds == SelectSeq([d \in 1 .. LeafDepth(snap, k) |-> d], LAMBDA d : k[d] = 0)
  IN Reverse([j \in 1 .. Len(ds) |-> SubtreeHash(snap, SubSeq(k, 1, ds[j] - 1) \o <<1>>)])

\* get_range_proof refuses a key the version does not hold, and for every
\* key it holds returns exactly the hashes of the subtrees to the key's
\* right, lowest first: what SparseMerkleRangeProof needs to prove every
\* key up to it.  The bit filter, the two reversals and the truncating zip
\* against the proof's bottom-first siblings must line up.
RangeProofsAreRightSiblings ==
  \A v \in RootVersions :
    LET snap == Content(store, RootKey(v)) IN
    \A k \in Keys :
      LET r == get_range_proof(k, v) IN
      IF snap[k] = NoValue THEN ~r.ok
      ELSE r.ok /\ r.siblings = RightSiblings(snap, k)

\* The root hash of every readable version is the reference sparse Merkle
\* hash of what the version holds, so it depends on the contents only and
\* not on the order of the writes or batches that built it (spec P1, P5:
\* insert_at_leaf_node builds exactly the internal nodes the collapsed
\* tree has).
RootHashIsReference ==
  \A v \in RootVersions :
    RootHash(v) = SubtreeHash(Content(store, RootKey(v)), <<>>)

\* The stale index is exact: an entry names a stored node that no version
\* at or after stale_since_version reaches but the version just before
\* does, and every stored node the latest version does not reach has an
\* entry.  So purging up to l keeps l readable and leaks nothing.
StaleIndexExact ==
  /\ \A e \in staleIndex :
       /\ e.nodeKey \in DOMAIN store
       /\ \A v \in RootVersions : v >= e.staleSince => e.nodeKey \notin Reach(v)
       /\ (e.staleSince - 1) \in RootVersions => e.nodeKey \in Reach(e.staleSince - 1)
  /\ \A nk \in DOMAIN store :
       nk \notin Reach(LatestVersion) => \E e \in staleIndex : e.nodeKey = nk

\* No put (TreeCache put_node/delete_node/get_node), batch write or purge
\* ever returns an error, whatever batches, discards and purges precede it.
NoOperationFails == failure = "none"

\* Refinement: the tree, its cache and its store implement VersionedKV.
CacheNodes == cache.nodeCache @@ cache.frozenNodes @@ store
StagedCount == cache.nextVersion - cache.first + (IF setSize > 0 THEN 1 ELSE 0)

=============================================================================
