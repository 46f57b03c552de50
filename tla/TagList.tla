--------------------------------- MODULE TagList ---------------------------------
(***************************************************************************)
(* What a TagList shows: the tags in use, sorted, with their counts and    *)
(* check marks.  It is given new counts at once; the check marks stay with *)
(* the tags that stay in use.                                              *)
(***************************************************************************)
EXTENDS TagRows

VARIABLES
  given,   \* the count the list was last given, a function on the tags in use
  list

Init == given = <<>> /\ list = <<>>

Click(n) == list' = [list EXCEPT ![n].selected = ~@] /\ UNCHANGED given
Update(count) == given' = count /\ list' = Sorted(count, Checked(list))

Next == \/ \E n \in DOMAIN list : Click(n)
        \/ \E count \in NewTags : Update(count)

Spec == Init /\ [][Next]_<<given, list>>
==================================================================================
