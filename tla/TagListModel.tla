------------------------------ MODULE TagListModel ------------------------------
(***************************************************************************)
(* QmlTaskListModel: the sorted list of tags with their counts and check   *)
(* marks behind a TagList, and the copy of it that the view keeps from the *)
(* signals about rows.  update merges a new count of the tags into the     *)
(* list in place, one signal at a time.                                    *)
(***************************************************************************)
EXTENDS TagRows

CONSTANT MaxUses   \* bound on the updates and clicks in a behaviour

ASSUME TagListAssumption == Names \subseteq Int /\ MaxCount \in Nat /\ MaxUses \in Nat

VARIABLES
  tags,     \* m_tags
  view,     \* what the view shows
  newTags,  \* the counts being merged, a function on the tags in use
  left,     \* the keys of newTags that newIter has not passed
  pc,       \* "idle", or the loop of update: "count", "remove", "insert", "append"
  i,
  chosen,   \* the tags that were checked when the update began: not in the code
  uses
vars == <<tags, view, newTags, left, pc, i, chosen, uses>>

Init == /\ tags = <<>> /\ view = <<>> /\ newTags = <<>> /\ left = {}
        /\ pc = "idle" /\ i = 1 /\ chosen = {} /\ uses = 0
--------------------------------------------------------------------------------
Key == CHOOSE t \in left : \A u \in left : t <= u
Tag(t) == [name |-> t, count |-> newTags[t], selected |-> FALSE]

selectedTags == Checked(tags)

\* setData(SelectedRole): the user clicks a checkable tag.
setData(n) == /\ pc = "idle" /\ uses < MaxUses /\ uses' = uses + 1
              /\ tags' = [tags EXCEPT ![n].selected = ~@]
              /\ view' = [view EXCEPT ![n].selected = tags'[n].selected]
              /\ UNCHANGED <<newTags, left, pc, i, chosen>>

\* update(tagCount): an empty list is reset, before or after.
Update(count) ==
  /\ pc = "idle" /\ uses < MaxUses /\ uses' = uses + 1
  /\ newTags' = count /\ left' = DOMAIN count /\ chosen' = selectedTags /\ i' = 1
  /\ IF DOMAIN count = {} \/ tags = <<>>
     THEN /\ tags' = Sorted(count, {}) /\ view' = tags'
          /\ UNCHANGED pc
     ELSE /\ pc' = "count"
          /\ UNCHANGED <<tags, view>>

Within == i <= Len(tags)

\* Leaving a loop over the rows for the next one.
Leave == /\ pc \in {"count", "remove", "insert"} /\ ~Within
         /\ pc' = CASE pc = "count" -> "remove" [] pc = "remove" -> "insert"
                     [] pc = "insert" -> "append"
         /\ i' = 1
         /\ UNCHANGED <<tags, view, newTags, left, chosen, uses>>

Known == tags[i].name \in DOMAIN newTags

\* A count that changes with no signal to the view.
UpdateCountSilently == /\ pc = "count" /\ Within
                       /\ tags' = [tags EXCEPT ![i].count = IF Known THEN newTags[tags[i].name]
                                                            ELSE @]
                       /\ i' = i + 1
                       /\ UNCHANGED <<view, newTags, left, pc, chosen, uses>>

\* Counts are updated first, each with dataChanged for the count.
UpdateCount == /\ pc = "count" /\ Within
               /\ IF Known
                  THEN /\ tags' = [tags EXCEPT ![i].count = newTags[tags[i].name]]
                       /\ view' = [view EXCEPT ![i].count = tags'[i].count]
                  ELSE UNCHANGED <<tags, view>>
               /\ i' = i + 1
               /\ UNCHANGED <<newTags, left, pc, chosen, uses>>

\* Removing that goes on behind the row that has moved up.
RemoveSkipping == /\ pc = "remove" /\ Within
                  /\ tags' = IF Known THEN tags ELSE RemoveAt(tags, i)
                  /\ view' = IF Known THEN view ELSE RemoveAt(view, i)
                  /\ i' = i + 1
                  /\ UNCHANGED <<newTags, left, pc, chosen, uses>>

\* Rows of tags out of use are removed.
RemoveRow == /\ pc = "remove" /\ Within
             /\ IF Known THEN i' = i + 1 /\ UNCHANGED <<tags, view>>
                ELSE /\ tags' = RemoveAt(tags, i) /\ view' = RemoveAt(view, i)
                     /\ UNCHANGED i
             /\ UNCHANGED <<newTags, left, pc, chosen, uses>>

\* Inserting that marks the new tag as the one it takes the place of.
InsertMarked == /\ pc = "insert" /\ Within
                /\ IF Key < tags[i].name
                   THEN /\ tags' = InsertAt(tags, i, [Tag(Key) EXCEPT !.selected = tags[i].selected])
                        /\ view' = InsertAt(view, i, tags'[i])
                   ELSE UNCHANGED <<tags, view>>
                /\ i' = i + 1 /\ left' = left \ {Key}
                /\ UNCHANGED <<newTags, pc, chosen, uses>>

\* Row and key move on together; a key before the row gets a row of its own.
InsertRow == /\ pc = "insert" /\ Within
             /\ IF Key < tags[i].name
                THEN /\ tags' = InsertAt(tags, i, Tag(Key))
                     /\ view' = InsertAt(view, i, Tag(Key))
                ELSE UNCHANGED <<tags, view>>
             /\ i' = i + 1 /\ left' = left \ {Key}
             /\ UNCHANGED <<newTags, pc, chosen, uses>>

\* The keys behind the last row are appended.
AppendRow == /\ pc = "append" /\ left # {}
             /\ tags' = Append(tags, Tag(Key)) /\ view' = Append(view, Tag(Key))
             /\ left' = left \ {Key}
             /\ UNCHANGED <<newTags, pc, i, chosen, uses>>

Return == /\ pc = "append" /\ left = {}
          /\ pc' = "idle"
          /\ UNCHANGED <<tags, view, newTags, left, i, chosen, uses>>

Next == \/ \E n \in DOMAIN tags : setData(n)
        \/ \E count \in NewTags : Update(count)
        \/ UpdateCount \/ RemoveRow \/ InsertRow \/ AppendRow
        \/ Leave \/ Return

Spec == Init /\ [][Next]_vars
--------------------------------------------------------------------------------
TypeOK == /\ tags \in Seq(Tags) /\ view \in Seq(Tags)
          /\ newTags \in NewTags /\ left \subseteq DOMAIN newTags
          /\ pc \in {"idle", "count", "remove", "insert", "append"}
          /\ i \in 1..Len(tags) + 1 /\ chosen \subseteq Names /\ uses \in 0..MaxUses

\* Every row signal is right when it is sent: the view shows the list, row by row, and
\* the assertions of the merge (taglist.cpp 100 and 103) hold, there is a key for every
\* row and it is never behind the row, while the rows of two lists move against each other.
MergeInStep == /\ view = tags
               /\ pc = "insert" /\ Within => left # {} /\ Key <= tags[i].name

\* From signal to signal the view arrives at what it was to show: an update is the sorted
\* count that was passed, the mark stays with the name and not with the row, and no new
\* tag is born with one (update, setData, selectedTags).
List == INSTANCE TagList WITH
  given <- newTags,
  list  <- IF pc = "idle" THEN view ELSE Sorted(newTags, chosen)
ImplementsTagList == List!Spec
==================================================================================
