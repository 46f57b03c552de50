--------------------------------- MODULE TagRows ---------------------------------
(* The rows of a list of tags, and the list that shows a count of the tags in use. *)
EXTENDS Integers, FiniteSets, SequencesExt

CONSTANTS Names,     \* the names of tags, ordered as integers
          MaxCount   \* bound on the images that have a tag

Tags == [name : Names, count : 1..MaxCount, selected : BOOLEAN]
NewTags == UNION {[S -> 1..MaxCount] : S \in {S \in SUBSET Names : IsFiniteSet(S)}}

Checked(rows) == {row.name : row \in {row \in ToSet(rows) : row.selected}}

\* The tag of a finite set that has n - 1 tags before it.
Nth(S, n) == CHOOSE t \in S : Cardinality({u \in S : u < t}) = n - 1

\* A count in the order of a QMap, the tags in chosen checked.
Sorted(count, chosen) ==
  LET row(t) == [name |-> t, count |-> count[t], selected |-> t \in chosen]
  IN  [n \in 1..Cardinality(DOMAIN count) |-> row(Nth(DOMAIN count, n))]
==================================================================================
