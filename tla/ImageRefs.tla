------------------------------- MODULE ImageRefs -------------------------------
(* What the modules of the window share: the ImageRefs in allSimpleList, each as *)
(* the set of its labels.  A label is a tag, or the mark for removal.            *)
EXTENDS Naturals, FiniteSets, Sequences

CONSTANTS Tags, Mark,
          MaxRefs    \* bound on the refs

ASSUME ImageRefsAssumption == MaxRefs \in Nat /\ Mark \notin Tags

VARIABLE refs   \* the labels of each ref, in the order of allSimpleList

Labels == Tags \cup {Mark}

\* tagCount: how many of the refs in a list have each tag, the labels being those of r.
TagCount(r, list) ==
  [t \in {t \in Tags : \E n \in DOMAIN list : t \in r[list[n]]} |->
     Cardinality({n \in DOMAIN list : t \in r[list[n]]})]
TagCounts == UNION {[S -> 1..MaxRefs] : S \in SUBSET Tags}

RefsOK == refs \in Seq(SUBSET Labels) /\ Len(refs) <= MaxRefs
================================================================================
