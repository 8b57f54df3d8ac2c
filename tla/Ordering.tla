------------------------------ MODULE Ordering ------------------------------
(***************************************************************************)
(* Sorting by key, as Python's sorted() does it: stable, tuples of numbers *)
(* compared from the left; and what stays of a list in its order.          *)
(***************************************************************************)
EXTENDS Integers, Sequences, FiniteSets

LexBefore(a, b) ==
    \E k \in DOMAIN a :
        /\ a[k] < b[k]
        /\ \A j \in 1..(k - 1) : a[j] = b[j]

\* The numbers of a set, smallest first.
Ascending(S) ==
    [k \in 1..Cardinality(S) |->
        CHOOSE i \in S : Cardinality({j \in S : j < i}) = k - 1]

\* Places of items in the order of their keys; equal keys keep their order.
SortedPlaces(n, Key(_)) ==
    LET Before(i, j) == LexBefore(Key(i), Key(j)) \/ (Key(i) = Key(j) /\ i < j)
        place == [i \in 1..n |-> 1 + Cardinality({j \in 1..n : Before(j, i)})]
    IN  [k \in 1..n |-> CHOOSE i \in 1..n : place[i] = k]

SortedBy(items, Key(_)) ==
    LET ItemKey(i) == Key(items[i])
        places == SortedPlaces(Len(items), ItemKey)
    IN  [k \in 1..Len(items) |-> items[places[k]]]

\* The items that a set has, in their order.
Keeping(items, S) ==
    LET kept[n \in 0..Len(items)] ==
          IF n = 0 THEN <<>>
          ELSE IF items[n] \in S THEN Append(kept[n - 1], items[n]) ELSE kept[n - 1]
    IN  kept[Len(items)]

=============================================================================
