----------------------------- MODULE AssetStore -----------------------------
(***************************************************************************)
(* The images of one session (image/assets.py): the root, the derivatives   *)
(* committed under it, and the Pillow images that are open, whoever holds   *)
(* them.  A digest is a sequence of characters and an identifier the        *)
(* shortest prefix of it that no other digest has.  Calls of the store have *)
(* no suspension point: each is one step of the session that makes it.      *)
(***************************************************************************)
EXTENDS Naturals, Sequences, FiniteSets

CONSTANTS
  Digests,     \* of the images there may be
  Root,        \* digest of the root image
  ShortId,     \* length of the shortest identifier (16 in the code)
  Oversized,   \* digests of images beyond the size limits
  MaxDerived,  \* max_derived_assets
  MaxDepth     \* max_derivation_depth

\* Digests have one length (SHA-256) and are not shorter than an identifier.
ASSUME AssetAssumption ==
  /\ Root \in Digests /\ \A d \in Digests : d \in Seq(Nat) /\ Len(d) = Len(Root)
  /\ ShortId \in 1..Len(Root) /\ MaxDerived \in Nat /\ MaxDepth \in Nat

VARIABLES
  records,   \* identifier -> digest, parent and depth
  filed,     \* digest -> identifier (_digest_ids)
  opened     \* number of open images

assetVars == <<records, filed, opened>>

None == <<>>
RootId == SubSeq(Root, 1, ShortId)
Owned == DOMAIN records
Derived == Cardinality(Owned) - 1

AssetInit ==
  /\ records = [a \in {RootId} |-> [digest |-> Root, parent |-> None, depth |-> 0]]
  /\ filed = [d \in {Root} |-> RootId]
  /\ opened = 1

\* The shortest free identifier of a digest, given those already assigned.
AllocateId(d, assigned) ==
  LET free(n) == SubSeq(d, 1, n) \notin DOMAIN assigned \/ assigned[SubSeq(d, 1, n)].digest = d
      length == CHOOSE n \in ShortId..Len(d) : free(n) /\ \A m \in ShortId..(n - 1) : ~free(m)
  IN SubSeq(d, 1, length)

HasCapacity(parent, count) ==
  records[parent].depth < MaxDepth /\ Derived + count <= MaxDerived

\* A dictionary with one more entry.
With(f, key, value) == [k \in DOMAIN f \cup {key} |-> IF k = key THEN value ELSE f[k]]

\* What one rendered image under a parent makes of the store: a record if its digest is
\* new, and in any case the asset that stands for it.
Place(acc, parent, d) ==
  IF d \in DOMAIN acc.filed
  THEN [acc EXCEPT !.commits = Append(@, [asset |-> acc.filed[d], reused |-> TRUE])]
  ELSE LET id == AllocateId(d, acc.records)
           r == [digest |-> d, parent |-> parent, depth |-> acc.records[parent].depth + 1]
       IN [records |-> With(acc.records, id, r), filed |-> With(acc.filed, d, id),
           commits |-> Append(acc.commits, [asset |-> id, reused |-> FALSE])]

\* What committing images makes of it, one after the other.
Plan(parent, digests) ==
  LET start == [records |-> records, filed |-> filed, commits |-> <<>>]
      after[i \in 0..Len(digests)] ==
        IF i = 0 THEN start ELSE Place(after[i - 1], parent, digests[i])
  IN after[Len(digests)]

Admits(parent, digests) ==
  LET new == {digests[i] : i \in DOMAIN digests} \ DOMAIN filed
  IN /\ records[parent].depth < MaxDepth
     /\ \A i \in DOMAIN digests : digests[i] \notin Oversized
     /\ Derived + Cardinality(new) <= MaxDerived

\* Mutant: _commit_prepared() without its last loop.
UnretainedKept(commits) == 0

\* Private copies that no record retains are closed again.
Unretained(commits) == Cardinality({i \in DOMAIN commits : commits[i].reused})

\* commit(): every pending image is copied, the copies of new digests are kept,
\* and the pending images are closed whatever happens.
CommitAssets(parent, digests) ==
  IF Admits(parent, digests)
  THEN LET p == Plan(parent, digests)
       IN /\ records' = p.records /\ filed' = p.filed
          /\ opened' = (opened + Len(digests)) - Unretained(p.commits) - Len(digests)
  ELSE opened' = opened - Len(digests) /\ UNCHANGED <<records, filed>>

CloseAssets ==
  /\ opened' = opened - Cardinality(Owned)
  /\ records' = <<>> /\ filed' = <<>>
=============================================================================
