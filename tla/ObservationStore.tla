-------------------------- MODULE ObservationStore --------------------------
(***************************************************************************)
(* The observations of one session (perception/store.py): an append-only    *)
(* sequence in which an observation's identifier is its number.  A batch of *)
(* drafts is checked against the assets and the earlier observations and    *)
(* then appended under one lock, so that it is seen whole or not at all.    *)
(***************************************************************************)
EXTENDS AssetStore

VARIABLE observations

\* A kind is a capability ("detect" is localized), "transform", "mark" or "warning".
Numbers == DOMAIN observations

Draft(kind, asset, from, parents, marks) ==
  [kind |-> kind, asset |-> asset, from |-> from, parents |-> parents, marks |-> marks]

\* A mark mapping refers to regions found on the image that was marked.
MarksMatch(draft) ==
  \A m \in draft.marks :
    m \in Numbers /\ observations[m].kind = "detect" /\ observations[m].asset = draft.from

\* The checks of _commit(): the assets are owned, the references are earlier
\* observations, and a lineage record is filed under the asset it derives.
Admissible(drafts, owned) ==
  \A i \in DOMAIN drafts :
    /\ drafts[i].asset \in owned
    /\ drafts[i].parents \subseteq Numbers
    /\ drafts[i].kind \in {"transform", "mark"} => drafts[i].from \in owned
    /\ drafts[i].kind = "mark" => MarksMatch(drafts[i])

\* The numbers a batch of n drafts gets.
Batch(n) == (Len(observations) + 1)..(Len(observations) + n)

Appended(drafts) == observations \o drafts
=============================================================================
