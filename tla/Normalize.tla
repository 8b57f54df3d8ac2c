------------------------------ MODULE Normalize ------------------------------
(***************************************************************************)
(* perception/normalize.py: a backend's answer is untrusted; it is either  *)
(* refused whole or cleaned, scoped to the request, sorted and freed of    *)
(* duplicates.                                                             *)
(*                                                                         *)
(* A draft has its payload type, its text (characters left after cleaning, *)
(* and control characters taken out), its parts (mark indices or colors),  *)
(* its region, confidence and the codes of its warnings.                   *)
(***************************************************************************)
EXTENDS Geometry, Ordering, SequencesExt, FiniteSets

CONSTANTS
    MaxTextOfDraft,   \* max_ocr_chars_per_observation
    MaxText,          \* max_total_text_chars
    MaxItems,         \* max_total_items
    MaxDrafts,        \* max_observations
    Placeholder,      \* characters of the text put in place of an empty one
    DraftFrame        \* characters of a draft besides its text

ASSUME NormalizeAssumption ==
    \A limit \in {MaxTextOfDraft, MaxText, MaxItems, MaxDrafts, Placeholder, DraftFrame} :
        limit \in Nat

Textual(draft) == draft.payload \in {"caption", "text"}

Discarded(draft) == Textual(draft) /\ draft.text = 0

CleanedControls(draft) == IF Textual(draft) THEN draft.controls ELSE 0

Prepared(draft) ==
    IF draft.region = NoBox
    THEN draft
    ELSE [draft EXCEPT !.region = clamp_normalized_box(draft.region)]

Preparable(draft) ==
    draft.region = NoBox \/ (WithinTolerance(draft.region) /\ IsBox(Prepared(draft).region))

\* The payload that answers a request.
AnswerPayload(request) ==
    IF request.capability = "caption" /\ request.marks # {}
    THEN "mark_description"
    ELSE IF request.capability = "ocr" THEN "text" ELSE request.capability

RequestResultLimit(request) ==
    IF request.capability \in {"metadata", "colors", "caption"}
    THEN 1
    ELSE IF request.capability \in {"detection", "segmentation"}
    THEN request.max_results
    ELSE MaxDrafts

TotalOver(drafts, Value(_)) == FoldLeft(LAMBDA total, d : total + Value(d), 0, drafts)

StringSize(drafts) ==
    LET Size(d) == DraftFrame + (IF Discarded(d) THEN Placeholder ELSE d.text)
    IN  TotalOver(drafts, Size)

NestedItems(drafts) ==
    LET Items(d) == 1 + Cardinality(d.parts)
    IN  TotalOver(drafts, Items)

WithinLimits(drafts, request) ==
    /\ Len(drafts) <= MaxDrafts
    /\ Len(drafts) <= RequestResultLimit(request)
    /\ request.capability = "colors" =>
          \A k \in DOMAIN drafts : Cardinality(drafts[k].parts) <= request.count
    /\ AnswerPayload(request) = "mark_description" =>
          \A k \in DOMAIN drafts : drafts[k].parts \subseteq request.marks
    /\ \A k \in DOMAIN drafts :
          drafts[k].payload = "text" => drafts[k].text <= MaxTextOfDraft
    /\ StringSize(drafts) <= MaxText
    /\ NestedItems(drafts) <= MaxItems

RequestedRegion(request) == IF request.capability = "metadata" THEN NoBox ELSE request.region

Scopable(draft, request) ==
    LET requested == RequestedRegion(request)
    IN  \/ requested = NoBox
        \/ draft.region = NoBox /\ draft.payload \notin {"caption", "colors"}
        \/ /\ draft.region # NoBox
           /\ box_contains(requested, draft.region)
           /\ BoxesIntersection(requested, draft.region) # NoBox

\* A mutant: a region that overshoots within tolerance is kept as it is.
ScopeUnclamped(draft, request) == draft.region

ScopeRegion(draft, request) ==
    IF RequestedRegion(request) = NoBox \/ draft.region = NoBox
    THEN draft.region
    ELSE BoxesIntersection(RequestedRegion(request), draft.region)

NormalizedDraft(draft, request) ==
    LET region == ScopeRegion(draft, request)
        unplaced == draft.payload \in {"text", "detection", "segmentation"} /\ region = NoBox
    IN  [draft EXCEPT
            !.controls = 0,
            !.region = region,
            !.warnings = @ \cup (IF CleanedControls(draft) > 0
                                 THEN {"control_chars_removed"} ELSE {})
                           \cup (IF unplaced THEN {"location_unavailable"} ELSE {})]

RegionKey(region, none_first) ==
    IF region = NoBox
    THEN <<IF none_first THEN 0 ELSE 1, 0, 0, 0, 0>>
    ELSE <<IF none_first THEN 1 ELSE 0, region.y_min, region.x_min, region.y_max, region.x_max>>

DraftSortKey(draft) ==
    RegionKey(draft.region, draft.payload \in {"caption", "colors", "metadata"})

Deduplicate(drafts) ==
    FoldLeft(LAMBDA unique, d : IF Contains(unique, d) THEN unique ELSE Append(unique, d),
             <<>>, drafts)

Refused == [refused |-> TRUE]

NormalizeResult(result, request) ==
    LET drafts == [k \in DOMAIN result.drafts |-> Prepared(result.drafts[k])]
        worded == SelectSeq(drafts, LAMBDA d : ~Discarded(d))
        normalized == [k \in DOMAIN worded |-> NormalizedDraft(worded[k], request)]
        unique == Deduplicate(SortedBy(normalized, DraftSortKey))
    IN  IF /\ \A k \in DOMAIN drafts : /\ Preparable(result.drafts[k])
                                       /\ drafts[k].payload = AnswerPayload(request)
           /\ WithinLimits(drafts, request)
           /\ \A k \in DOMAIN worded : Scopable(worded[k], request)
        THEN [refused |-> FALSE, drafts |-> unique,
              warnings |-> result.warnings,
              empties |-> Len(drafts) - Len(worded),
              duplicates |-> Len(normalized) - Len(unique)]
        ELSE Refused

=============================================================================
