------------------------------ MODULE WriteBehind ------------------------------
(***************************************************************************)
(* What ImageDao promises about the requests it defers to its write thread *)
(* (imagedao.h, class ImageDaoDeferredWriter): requests are carried out in *)
(* the order they were posted, each exactly once; what is permanent in the *)
(* database is always a prefix of what was carried out; and every request  *)
(* becomes permanent unless the write thread is stopped first.             *)
(***************************************************************************)
EXTENDS Naturals

CONSTANT MaxRequests   \* bound on the requests posted in a behaviour

VARIABLES posted,      \* requests posted so far
          handled,     \* requests whose handler has run
          durable,     \* requests whose effect survives the process
          stopped      \* the write thread has left its event loop

vars == <<posted, handled, durable, stopped>>

Init == posted = 0 /\ handled = 0 /\ durable = 0 /\ stopped = FALSE

Post == /\ ~stopped
        /\ posted < MaxRequests
        /\ posted' = posted + 1
        /\ UNCHANGED <<handled, durable, stopped>>

\* A handler runs; it may also make permanent what it and its predecessors did.
Handle == /\ ~stopped
          /\ handled < posted
          /\ handled' = handled + 1
          /\ durable' \in {durable, handled'}
          /\ UNCHANGED <<posted, stopped>>

Commit == /\ ~stopped
          /\ durable < handled
          /\ durable' = handled
          /\ UNCHANGED <<posted, handled, stopped>>

Stop == ~stopped /\ stopped' = TRUE /\ UNCHANGED <<posted, handled, durable>>

Next == Post \/ Handle \/ Commit \/ Stop

Spec == Init /\ [][Next]_vars /\ WF_vars(Handle) /\ WF_vars(Commit)
=============================================================================
