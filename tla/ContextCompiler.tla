--------------------------- MODULE ContextCompiler ---------------------------
(***************************************************************************)
(* reasoning/context.py: the part of a session's observations that a       *)
(* policy call is shown, within a bound on the characters of the whole.    *)
(*                                                                         *)
(* An observation has its number, its asset and kind, the characters of    *)
(* its line besides its text (base), of its text (body) and the places of  *)
(* the text's newlines (breaks); its relevance (overlap and confidence),   *)
(* the observations it contradicts, and, for a transform, the derived and  *)
(* the parent asset.                                                       *)
(***************************************************************************)
EXTENDS Integers, Sequences, SequencesExt, FiniteSets, Ordering

CONSTANTS
    Skeleton,         \* characters of headers and question
    OmissionReserve,  \* _OMISSION_RESERVE
    OmissionFrame,    \* characters of an omission record that omits nothing
    OmissionId,       \* characters of one omitted id
    TruncationNote,   \* characters of the truncated_chars field
    KindWeights       \* _KIND_WEIGHTS

ASSUME ContextAssumption ==
    /\ {Skeleton, OmissionReserve, OmissionFrame, OmissionId, TruncationNote} \subseteq Nat
    /\ OmissionFrame <= OmissionReserve

Holding(observations) == {observations[k] : k \in DOMAIN observations}

(***************************************************************************)
(* Which observations are eligible: those of assets that matter to the     *)
(* call, and of the assets these were derived from.                        *)
(***************************************************************************)

Disputing(observations) == {o \in Holding(observations) : o.contradicts # {}}

DisputedIds(observations) ==
    UNION {{o.id} \cup o.contradicts : o \in Disputing(observations)}

WarningIds(observations) == {o.id : o \in {w \in Holding(observations) : w.kind = "warning"}}

\* The last transform recorded for an asset tells its parent.
Parents(observations, asset) ==
    LET makers == {o \in Holding(observations) : o.kind = "transform" /\ o.derived = asset}
    IN  {o.parent : o \in {m \in makers : \A n \in makers : n.id <= m.id}}

Closure(observations, seeds) ==
    LET up[n \in 0..Len(observations)] ==
            IF n = 0
            THEN seeds
            ELSE up[n - 1] \cup UNION {Parents(observations, a) : a \in up[n - 1]}
    IN  up[Len(observations)]

EligibleAssets(observations, request) ==
    LET pinned == request.action_ids \cup request.answer_ids \cup request.pinned_ids
                      \cup DisputedIds(observations) \cup WarningIds(observations)
        named == {o.asset : o \in {p \in Holding(observations) : p.id \in pinned}}
    IN  Closure(observations,
                {request.root} \cup request.relevant \cup request.lineage \cup named)

Eligible(observations, request) ==
    IF request.everything
    THEN observations
    ELSE SelectSeq(observations, LAMBDA o : o.asset \in EligibleAssets(observations, request))

(***************************************************************************)
(* Their rank.                                                             *)
(***************************************************************************)

LatestId(observations) ==
    FoldLeft(LAMBDA latest, o : IF o.id > latest THEN o.id ELSE latest, 1, observations)

RootMetadata(o, request) == o.asset = request.root /\ o.kind = "metadata"

PinGroup(o, observations, request) ==
    IF o.id \in request.action_ids \cup request.pinned_ids \/ o.kind = "warning" THEN 1
    ELSE IF RootMetadata(o, request) THEN 2
    ELSE IF o.id \in request.answer_ids THEN 3
    ELSE IF o.id \in DisputedIds(observations) THEN 4
    ELSE 5

\* The score times the latest number, so that recency is a whole number.
Score(o, observations, request) ==
    LET latest == LatestId(observations)
        lineage == IF o.asset \in request.lineage THEN 30 ELSE 0
    IN  (KindWeights[o.kind] + o.relevance + lineage) * latest + 20 * o.id

RankKey(o, observations, request) ==
    <<PinGroup(o, observations, request), -Score(o, observations, request), o.id>>

Ranked(observations, request) ==
    LET Key(o) == RankKey(o, observations, request)
    IN  SortedBy(Eligible(observations, request), Key)

\* The best root metadata, as a sequence of at most one observation.
Mandatory(ranked, request) ==
    LET roots == SelectSeq(ranked, LAMBDA o : RootMetadata(o, request))
    IN  SubSeq(roots, 1, IF roots = <<>> THEN 0 ELSE 1)

(***************************************************************************)
(* Lines that do not fit are cut behind a newline, or where they must be.  *)
(***************************************************************************)

FullLine(o) == o.base + o.body

LineSafePrefix(o, maximum) ==
    LET kept == {b \in o.breaks : b <= maximum}
    IN  IF maximum >= o.body THEN o.body
        ELSE IF \A b \in o.breaks : b > maximum + 1 THEN maximum
        ELSE IF kept = {} THEN maximum
        ELSE CHOOSE b \in kept : \A c \in kept : c <= b

TruncatedAt(o, maximum) == o.base + TruncationNote + LineSafePrefix(o, maximum)

NoLine == -1

\* The binary search of the code; NoLine if nothing fits.
TruncatedLine(o, available) ==
    LET search[low \in 0..(o.body + 1), high \in -1..o.body] ==
            LET length == (low + high) \div 2
                line == TruncatedAt(o, length)
                later == search[length + 1, high]
            IN  IF low > high THEN NoLine
                ELSE IF line > available THEN search[low, length - 1]
                ELSE IF later = NoLine THEN line ELSE later
    IN  IF o.kind \in {"caption", "text"} THEN search[0, o.body] ELSE NoLine

LineFor(o, available) ==
    IF FullLine(o) <= available THEN FullLine(o) ELSE TruncatedLine(o, available)

(***************************************************************************)
(* Selection by rank, then trimming until the whole fits.                  *)
(***************************************************************************)

Available(request) == request.limit - Skeleton - OmissionReserve

SelectLines(ranked, request) ==
    LET mandatory == Mandatory(ranked, request)
        start == [used |-> IF mandatory = <<>> THEN 0 ELSE FullLine(mandatory[1]),
                  lines |-> [k \in DOMAIN mandatory |->
                                [of |-> mandatory[k], chars |-> FullLine(mandatory[k])]]]
        Take(so_far, o) ==
            LET separator == IF so_far.lines = <<>> THEN 0 ELSE 1
                remaining == Available(request) - so_far.used - separator
                line == LineFor(o, remaining)
            IN  IF Contains(mandatory, o) \/ remaining <= 0 \/ line = NoLine
                THEN so_far
                ELSE [used |-> so_far.used + separator + line,
                      lines |-> Append(so_far.lines, [of |-> o, chars |-> line])]
    IN  FoldLeft(Take, start, ranked).lines

OmissionRecord(omitted) == OmissionFrame + OmissionId * Cardinality(omitted)

TextLength(lines, omitted) ==
    Skeleton + OmissionRecord(omitted)
        + FoldLeft(LAMBDA total, l : total + l.chars, 0, lines)
        + (IF lines = <<>> THEN 0 ELSE Len(lines) - 1)

Shown(lines) == {lines[k].of.id : k \in DOMAIN lines}

\* A mutant: the root's metadata may be trimmed too.
TrimmedBlindly(lines, mandatory, n) == SubSeq(lines, 1, Len(lines) - n)

\* The lines left once the n lowest ranked of those that may go are gone.
Trimmed(lines, mandatory, n) ==
    LET removable == {k \in DOMAIN lines : ~Contains(mandatory, lines[k].of)}
        removed == {k \in removable : Cardinality({j \in removable : j > k}) < n}
        left == Ascending(DOMAIN lines \ removed)
    IN  [k \in DOMAIN left |-> lines[left[k]]]

ContextLimitExceeded == [refused |-> TRUE]

Compile(observations, request) ==
    LET ranked == Ranked(observations, request)
        mandatory == Mandatory(ranked, request)
        Key(line) == RankKey(line.of, observations, request)
        selected == SortedBy(SelectLines(ranked, request), Key)
        Ids == {o.id : o \in Holding(observations)}
        Fits(n) == LET lines == Trimmed(selected, mandatory, n)
                   IN  TextLength(lines, Ids \ Shown(lines)) <= request.limit
        enough == {n \in 0..(Len(selected) - Len(mandatory)) : Fits(n)}
        lines == Trimmed(selected, mandatory, CHOOSE n \in enough : \A m \in enough : n <= m)
    IN  IF \/ Available(request) < 0
           \/ mandatory # <<>> /\ FullLine(mandatory[1]) > Available(request)
           \/ enough = {}
        THEN ContextLimitExceeded
        ELSE [refused |-> FALSE, lines |-> lines, omitted |-> Ids \ Shown(lines),
              chars |-> TextLength(lines, Ids \ Shown(lines))]

=============================================================================
