----------------------------- MODULE VersionedKV -----------------------------
(***************************************************************************)
(* What the Jellyfish Merkle tree promises its callers, with no tree in   *)
(* it: a sequence of immutable key/value snapshots, one per version.      *)
(*                                                                         *)
(*  - A writer stages one or more consecutive versions (put_value_sets):  *)
(*    each version starts from the previous one and applies its write set *)
(*    in order.  Staged versions are invisible until published.           *)
(*  - Publishing (the store writing the TreeUpdateBatch) makes the staged *)
(*    versions readable, all at once.                                     *)
(*  - A published version never changes.                                  *)
(*  - Pruning at a least readable version l drops exactly the versions   *)
(*    below l, except the newest, which stays readable whatever l is;     *)
(*    l itself and everything above stays readable.                       *)
(***************************************************************************)
EXTENDS Naturals, SequencesExt, FiniteSets, FiniteSetsExt, Functions

CONSTANTS
  Versions, \* the versions a caller may name as least readable
  Keys,     \* the keys (hashed account addresses)
  Values,   \* the values stored under them
  NoValue   \* a key that holds no value in a snapshot

ASSUME NoValue \notin Values

VARIABLES
  readable, \* version -> snapshot, for every version that can still be read
  staged,   \* the snapshots a writer has built but not yet published
  open,     \* TRUE while the last staged snapshot still takes writes
  busy,     \* TRUE while a writer holds a batch
  pruned    \* the least readable version the last prune was given

vars == <<readable, staged, open, busy, pruned>>

Snapshot == [Keys -> Values \cup {NoValue}]
EmptySnapshot == [k \in Keys |-> NoValue]

Newest == IF DOMAIN readable = {} THEN EmptySnapshot
          ELSE readable[Max(DOMAIN readable)]

NextVersion == IF DOMAIN readable = {} THEN 0 ELSE Max(DOMAIN readable) + 1

Init ==
  /\ readable = [v \in {} |-> EmptySnapshot]
  /\ staged = <<>>
  /\ open = FALSE
  /\ busy = FALSE
  /\ pruned = 0

Begin ==
  /\ ~busy
  /\ busy' = TRUE
  /\ staged' = <<>>
  /\ open' = FALSE
  /\ UNCHANGED <<readable, pruned>>

\* A write goes into the open snapshot, or opens the next version on top of
\* the last staged (or newest readable) snapshot.
Write(k, x) ==
  /\ busy
  /\ staged' = IF open
               THEN [staged EXCEPT ![Len(staged)] = [@ EXCEPT ![k] = x]]
               ELSE LET base == IF staged = <<>> THEN Newest ELSE Last(staged)
                    IN Append(staged, [base EXCEPT ![k] = x])
  /\ open' = TRUE
  /\ UNCHANGED <<readable, busy, pruned>>

Seal ==
  /\ busy /\ open
  /\ open' = FALSE
  /\ UNCHANGED <<readable, staged, busy, pruned>>

Publish ==
  /\ busy /\ ~open /\ staged # <<>>
  /\ LET first == NextVersion
         new == first .. (first + Len(staged) - 1)
     IN readable' = [v \in DOMAIN readable \cup new |->
                       IF v \in DOMAIN readable THEN readable[v]
                       ELSE staged[v - first + 1]]
  /\ busy' = FALSE
  /\ staged' = <<>>
  /\ UNCHANGED <<open, pruned>>

Abandon ==
  /\ busy
  /\ busy' = FALSE
  /\ staged' = <<>>
  /\ open' = FALSE
  /\ UNCHANGED <<readable, pruned>>

Prune(l) ==
  /\ readable' = Restrict(readable, {v \in DOMAIN readable : v >= l \/ v + 1 = NextVersion})
  /\ pruned' = l
  /\ UNCHANGED <<staged, open, busy>>

Next ==
  \/ Begin
  \/ \E k \in Keys, x \in Values : Write(k, x)
  \/ Seal
  \/ Publish
  \/ Abandon
  \/ \E l \in Versions : Prune(l)

Spec == Init /\ [][Next]_vars

=============================================================================
