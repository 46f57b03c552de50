--------------------------------- MODULE Imports ---------------------------------
(***************************************************************************)
(* What the user may expect of the URLs he drops on the window: each is    *)
(* settled once, by the file that it leads to and by no other; a file that *)
(* is in the library already, or an error, leaves the library as it is.    *)
(* In what order they are settled is left open.                            *)
(***************************************************************************)
EXTENDS SequencesExt

CONSTANTS
  Drops,    \* drops of a URL on the window
  Files,
  Ends      \* what a URL can lead to: a file, an error, or redirects without end

VARIABLES
  made,     \* the drops so far
  pending,  \* those that are not settled, with what they lead to
  library   \* the files of the library, in the order they were added
vars == <<made, pending, library>>

Pending == [of : Drops, end : Ends]

Init == made = {} /\ pending = {} /\ library = <<>>

\* URLs are dropped, each a drop of its own.
Drop == /\ pending' \in SUBSET Pending /\ pending \subseteq pending'
        /\ \A p, q \in pending' : p.of = q.of => p = q
        /\ LET new == {p.of : p \in pending' \ pending}
           IN  new \cap made = {} /\ made' = made \cup new
        /\ UNCHANGED library

Settle(p) == /\ p \in pending /\ pending' = pending \ {p}
             /\ library' = IF p.end \in Files \ ToSet(library)
                           THEN Append(library, p.end) ELSE library
             /\ UNCHANGED made

\* The program ends and is started again: what was dropped is forgotten.
Restart == pending' = {} /\ UNCHANGED <<made, library>>

Next == \/ Drop
        \/ \E p \in Pending : Settle(p)
        \/ Restart

\* Only redirects without end keep a drop from being settled.
Spec == /\ Init /\ [][Next]_vars
        /\ \A p \in Pending : p.end # "endless" => WF_vars(Settle(p))
==================================================================================
